---------------------- MODULE AccountsAndSheetsProofs -----------------------
(* What Accounts and SheetFiles guarantee for every value of their          *)
(* constants: an administrator stays, an invitation ends once and a link    *)
(* works once; a project keeps a sheet, a failed change is undone, the      *)
(* manifest names the sheets and a change is read.                          *)
EXTENDS Accounts, SheetFiles, SequenceTheorems, FiniteSetTheorems, TLAPS

-----------------------------------------------------------------------------
(***************************************************************************)
(* Accounts, for every number of addresses, requests, invitations, links.  *)
(***************************************************************************)

-----------------------------------------------------------------------------
(* Types *)

Roles == {"admin", "member"}
Cuenta == [rol : Roles, estado : {"active", "disabled", "pending"}, origen : Nat]
Invitacion == [correo : Correos, rol : Roles, aceptada : BOOLEAN, revocada : BOOLEAN,
               vencida : BOOLEAN]
Enlace == [correo : Correos, usado : BOOLEAN, anulado : BOOLEAN, usos : Nat]
Cambios == {"active", "disabled", "admin", "member"}

Registra == [paso : {"registra"}, correo : Correos, primera : BOOLEAN]
Cambia == [paso : {"cambia"}, correo : Correos, cambio : Cambios, vistos : SUBSET Correos]
Invita == [paso : {"reemplaza", "invita"}, correo : Correos, rol : Roles]
Acepta == [paso : {"acepta"}, invitacion : Nat]
Emite == [paso : {"emite"}, correo : Correos]
Usa == [paso : {"usa"}, enlace : Nat]
Tramite == {SinTramite} \cup Registra \cup Cambia \cup Invita \cup Acepta \cup Emite \cup Usa

AccountsTypeOK ==
  /\ cuentas \in [Correos -> Cuenta \cup {NoHay}]
  /\ invitaciones \in Seq(Invitacion)
  /\ enlaces \in Seq(Enlace)
  /\ tramite \in [Peticiones -> Tramite]
  /\ empezadas \in Nat
  /\ cruzada \in BOOLEAN
  /\ \A p \in Peticiones :
       /\ tramite[p].paso = "cambia" => Existe(tramite[p].correo)
       /\ tramite[p].paso = "acepta" => tramite[p].invitacion \in DOMAIN invitaciones
       /\ tramite[p].paso = "usa" => tramite[p].enlace \in DOMAIN enlaces

(* The invariants that the promises need. *)

HayCuentas == \E c \in Correos : Existe(c)

(* Whoever may add an account that does not administer the taller knows of *)
(* one that exists; a removal leaves one of the administrators it saw.     *)
FundadaEn(t) ==
  /\ t.paso = "registra" => t.primera \/ HayCuentas
  /\ t.paso \in {"reemplaza", "invita"} => HayCuentas
  /\ t.paso = "cambia" /\ t.cambio \in {"disabled", "member"} => \E a \in t.vistos : a # t.correo

Fundada ==
  /\ invitaciones # <<>> => HayCuentas
  /\ \A p \in Peticiones : FundadaEn(tramite[p])

(* An accepted invitation stands, and made the account of its address.     *)
CumplidaEn(i) ==
  invitaciones[i].aceptada =>
    /\ ~invitaciones[i].revocada
    /\ Existe(invitaciones[i].correo)
    /\ cuentas[invitaciones[i].correo].origen = i
Cumplidas == \A i \in DOMAIN invitaciones : CumplidaEn(i)

(* A link that nobody used counts no use, and neither does a void one.     *)
Gastados ==
  \A n \in DOMAIN enlaces :
    /\ ~enlaces[n].usado => enlaces[n].usos = 0 /\ ~enlaces[n].anulado
    /\ enlaces[n].anulado => enlaces[n].usos = 0
    /\ enlaces[n].usos <= 1

LEMMA TramiteKinds ==
  ASSUME NEW t \in Tramite
  PROVE  /\ t.paso = "registra" => t \in Registra
         /\ t.paso = "cambia" => t \in Cambia
         /\ t.paso \in {"reemplaza", "invita"} => t \in Invita
         /\ t.paso = "acepta" => t \in Acepta
         /\ t.paso = "emite" => t \in Emite
         /\ t.paso = "usa" => t \in Usa
         /\ t # SinTramite => t.paso # "libre"
BY DEF Tramite, SinTramite, Registra, Cambia, Invita, Acepta, Emite, Usa

LEMMA CuentaExiste == \A x \in Cuenta : x # NoHay
BY DEF Cuenta, NoHay, Roles

(* A function over the places of a sequence is a sequence of that length.  *)
LEMMA SameLength ==
  ASSUME NEW S, NEW n \in Nat, NEW f \in [1..n -> S]
  PROVE  f \in Seq(S) /\ Len(f) = n /\ DOMAIN f = 1..n
BY SeqDef, LenProperties

(* The request `p` goes on to `t`, and no other moves.                     *)
Sigue(p, t) ==
  /\ tramite' \in [Peticiones -> Tramite] /\ tramite'[p] = t /\ empezadas' \in Nat
  /\ \A q \in Peticiones : q # p => tramite'[q] = tramite[q]

LEMMA RequestMoves ==
  ASSUME tramite \in [Peticiones -> Tramite], empezadas \in Nat, NEW p \in Peticiones
  PROVE  /\ \A t \in Tramite : Comienza(p, t) \/ Continua(p, t) => Sigue(p, t)
         /\ Acaba(p) => Sigue(p, SinTramite)
BY DEF Comienza, Continua, Acaba, Tramite, Sigue

(* The database is well formed, and a step takes nothing out of it.        *)
Tablas ==
  /\ cuentas \in [Correos -> Cuenta \cup {NoHay}]
  /\ invitaciones \in Seq(Invitacion) /\ enlaces \in Seq(Enlace) /\ cruzada \in BOOLEAN
Crecen ==
  /\ \A c \in Correos : Existe(c) => Existe(c)'
  /\ DOMAIN invitaciones \subseteq DOMAIN invitaciones'
  /\ DOMAIN enlaces \subseteq DOMAIN enlaces'

LEMMA NextAccountsTypes ==
  AccountsTypeOK /\ [AccountsNext]_accountVars => AccountsTypeOK' /\ Crecen
<1> SUFFICES ASSUME AccountsTypeOK, [AccountsNext]_accountVars PROVE AccountsTypeOK' /\ Crecen
  OBVIOUS
<1>t. /\ cuentas \in [Correos -> Cuenta \cup {NoHay}] /\ invitaciones \in Seq(Invitacion)
      /\ enlaces \in Seq(Enlace) /\ tramite \in [Peticiones -> Tramite]
      /\ empezadas \in Nat /\ cruzada \in BOOLEAN
      /\ \A p \in Peticiones : tramite[p] \in Tramite
  BY DEF AccountsTypeOK
<1>l. /\ DOMAIN invitaciones = 1..Len(invitaciones) /\ Len(invitaciones) \in Nat
      /\ DOMAIN enlaces = 1..Len(enlaces) /\ Len(enlaces) \in Nat
      /\ \A i \in DOMAIN invitaciones : invitaciones[i] \in Invitacion
      /\ \A n \in DOMAIN enlaces : enlaces[n] \in Enlace
  BY <1>t, LenProperties, ElementOfSeq
<1>s. SinTramite \in Tramite /\ SinTramite.paso = "libre"
  BY DEF Tramite, SinTramite
<1>1. ASSUME NEW p \in Peticiones, NEW t, Sigue(p, t), Tablas', Crecen,
             t.paso = "cambia" => Existe(t.correo) /\ t.correo \in Correos,
             t.paso = "acepta" => t.invitacion \in DOMAIN invitaciones,
             t.paso = "usa" => t.enlace \in DOMAIN enlaces
      PROVE  AccountsTypeOK' /\ Crecen
  <2>1. \A q \in Peticiones : tramite[q].paso = "cambia" => tramite[q].correo \in Correos
    BY <1>t, TramiteKinds DEF Cambia
  <2>2. \A q \in Peticiones :
          /\ tramite'[q].paso = "cambia" => cuentas'[tramite'[q].correo] # NoHay
          /\ tramite'[q].paso = "acepta" => tramite'[q].invitacion \in DOMAIN invitaciones'
          /\ tramite'[q].paso = "usa" => tramite'[q].enlace \in DOMAIN enlaces'
    BY <1>1, <2>1 DEF Sigue, Crecen, Existe, AccountsTypeOK
  <2>3. QED
    BY <1>1, <2>2 DEF Sigue, Tablas, Existe, AccountsTypeOK
(* A request begins or goes on, and writes nothing. *)
<1>2. ASSUME NEW p \in Peticiones, NEW t \in Tramite, Comienza(p, t) \/ Continua(p, t),
             t.paso = "cambia" => Existe(t.correo),
             t.paso = "acepta" => t.invitacion \in DOMAIN invitaciones,
             t.paso = "usa" => t.enlace \in DOMAIN enlaces,
             UNCHANGED <<cuentas, invitaciones, enlaces, cruzada>>
      PROVE  AccountsTypeOK' /\ Crecen
  <2>1. Sigue(p, t)
    BY <1>2, <1>t, RequestMoves
  <2>2. Tablas' /\ Crecen
    BY <1>2, <1>t DEF Tablas, Crecen, Existe
  <2>3. t.paso = "cambia" => t.correo \in Correos
    BY TramiteKinds DEF Cambia
  <2>4. QED
    BY <1>1, <1>2, <2>1, <2>2, <2>3
<1>3. ASSUME NEW p \in Peticiones, Acaba(p), Tablas', Crecen PROVE AccountsTypeOK' /\ Crecen
  <2>1. Sigue(p, SinTramite)
    BY <1>3, <1>t, RequestMoves
  <2>2. QED
    BY <1>1, <1>3, <1>s, <2>1
(* A step writes one account, or none; an account never goes. *)
<1>4. ASSUME NEW c, NEW x \in Cuenta, cuentas' = cuentas \/ cuentas' = [cuentas EXCEPT ![c] = x]
      PROVE  /\ cuentas' \in [Correos -> Cuenta \cup {NoHay}]
             /\ \A d \in Correos : Existe(d) => Existe(d)'
  BY <1>4, <1>t, CuentaExiste DEF Existe
<1>5. ASSUME NEW p \in Peticiones, Interrumpir(p) PROVE AccountsTypeOK' /\ Crecen
  BY <1>3, <1>5, <1>t DEF Interrumpir, Tablas, Crecen, Existe
<1>6. ASSUME NEW p \in Peticiones, CreateUser(p) PROVE AccountsTypeOK' /\ Crecen
  <2> DEFINE nueva == IF tramite[p].primera THEN [rol |-> "admin", estado |-> "active", origen |-> 0]
                      ELSE [rol |-> "member", estado |-> "pending", origen |-> 0]
  <2>1. nueva \in Cuenta
    BY DEF Cuenta, Roles
  <2>2. cuentas' = cuentas \/ cuentas' = [cuentas EXCEPT ![tramite[p].correo] = nueva]
    BY <1>6 DEF CreateUser
  <2> HIDE DEF nueva
  <2>3. Tablas' /\ Crecen
    BY <1>4, <1>6, <2>1, <2>2, <1>t DEF CreateUser, Tablas, Crecen
  <2>4. QED
    BY <1>3, <1>6, <2>3 DEF CreateUser
<1>7. ASSUME NEW p \in Peticiones, SetStatusOrRole(p) PROVE AccountsTypeOK' /\ Crecen
  <2> DEFINE t == tramite[p]
             x == cuentas[t.correo]
             y == IF t.cambio \in {"disabled", "active"} THEN [x EXCEPT !.estado = t.cambio]
                  ELSE [x EXCEPT !.rol = t.cambio]
  <2>1. t \in Cambia /\ Existe(t.correo)
    BY <1>7, <1>t, TramiteKinds DEF SetStatusOrRole, AccountsTypeOK
  <2>2. t.correo \in Correos /\ t.cambio \in Cambios
    BY <2>1 DEF Cambia
  <2>3. x \in Cuenta
    BY <2>1, <2>2, <1>t DEF Existe
  <2>4. y \in Cuenta
    BY <2>2, <2>3 DEF Cuenta, Roles, Cambios
  <2>5. cuentas' = [cuentas EXCEPT ![t.correo] = y]
    BY <1>7, <2>2, <1>t DEF SetStatusOrRole
  <2>6. cruzada' \in BOOLEAN /\ UNCHANGED <<invitaciones, enlaces>> /\ Acaba(p)
    BY <1>7, <1>t DEF SetStatusOrRole
  <2> HIDE DEF t, y
  <2>7. Tablas' /\ Crecen
    BY <1>4, <2>4, <2>5, <2>6, <1>t DEF Tablas, Crecen
  <2>8. QED
    BY <1>3, <2>6, <2>7
<1>8. ASSUME NEW p \in Peticiones, SupersedeInvitations(p) PROVE AccountsTypeOK' /\ Crecen
  <2> DEFINE t == [tramite[p] EXCEPT !.paso = "invita"]
  <2>1. tramite[p] \in Invita
    BY <1>8, <1>t, TramiteKinds DEF SupersedeInvitations
  <2>2. t \in Tramite /\ t.paso = "invita"
    BY <2>1 DEF Invita, Tramite
  <2>3. \A i \in DOMAIN invitaciones : [invitaciones[i] EXCEPT !.revocada = TRUE] \in Invitacion
    BY <1>l DEF Invitacion
  <2>4. invitaciones' \in [1..Len(invitaciones) -> Invitacion]
    BY <1>8, <1>l, <2>3 DEF SupersedeInvitations
  <2>5. invitaciones' \in Seq(Invitacion) /\ DOMAIN invitaciones' = DOMAIN invitaciones
    BY <2>4, <1>l, SameLength
  <2>6. Tablas' /\ Crecen
    BY <1>8, <1>t, <2>5 DEF SupersedeInvitations, Tablas, Crecen, Existe
  <2>7. Sigue(p, t)
    BY <1>8, <1>t, <2>2, RequestMoves DEF SupersedeInvitations
  <2> HIDE DEF t
  <2>8. QED
    BY <1>1, <2>2, <2>6, <2>7
<1>9. ASSUME NEW p \in Peticiones, InsertInvitation(p) PROVE AccountsTypeOK' /\ Crecen
  <2> DEFINE nueva == [correo |-> tramite[p].correo, rol |-> tramite[p].rol,
                       aceptada |-> FALSE, revocada |-> FALSE, vencida |-> FALSE]
  <2>1. tramite[p] \in Invita
    BY <1>9, <1>t, TramiteKinds DEF InsertInvitation
  <2>2. nueva \in Invitacion
    BY <2>1 DEF Invita, Invitacion
  <2>3. invitaciones' = Append(invitaciones, nueva)
    BY <1>9 DEF InsertInvitation
  <2> HIDE DEF nueva
  <2>4. invitaciones' \in Seq(Invitacion) /\ Len(invitaciones') = Len(invitaciones) + 1
    BY <2>2, <2>3, <1>t, AppendProperties
  <2>5. DOMAIN invitaciones \subseteq DOMAIN invitaciones'
    BY <2>4, <1>l, LenProperties
  <2>6. Tablas' /\ Crecen
    BY <1>9, <1>t, <2>4, <2>5 DEF InsertInvitation, Tablas, Crecen, Existe
  <2>7. QED
    BY <1>3, <1>9, <2>6 DEF InsertInvitation
<1>10. ASSUME NEW i \in DOMAIN invitaciones, NEW x \in Invitacion,
              invitaciones' = [invitaciones EXCEPT ![i] = x]
       PROVE  invitaciones' \in Seq(Invitacion) /\ DOMAIN invitaciones' = DOMAIN invitaciones
  BY <1>10, <1>t, <1>l, ExceptSeq, LenProperties
<1>11. ASSUME NEW p \in Peticiones, AcceptInvitation(p) PROVE AccountsTypeOK' /\ Crecen
  <2> DEFINE i == tramite[p].invitacion
             c == invitaciones[i].correo
             nueva == [rol |-> invitaciones[i].rol, estado |-> "active", origen |-> i]
             cerrada == [invitaciones[i] EXCEPT !.aceptada = TRUE]
  <2>1. i \in DOMAIN invitaciones
    BY <1>11 DEF AcceptInvitation, AccountsTypeOK
  <2>2. nueva \in Cuenta /\ cerrada \in Invitacion
    <3>1. invitaciones[i] \in Invitacion /\ i \in Nat
      BY <2>1, <1>l
    <3>2. QED
      BY <3>1 DEF Cuenta, Invitacion
  <2>3. \/ UNCHANGED <<cuentas, invitaciones>>
        \/ /\ cuentas' = [cuentas EXCEPT ![c] = nueva]
           /\ invitaciones' = [invitaciones EXCEPT ![i] = cerrada]
    BY <1>11 DEF AcceptInvitation
  <2> HIDE DEF i, c, nueva, cerrada
  <2>4. cuentas' \in [Correos -> Cuenta \cup {NoHay}] /\ \A d \in Correos : Existe(d) => Existe(d)'
    BY <1>4, <2>2, <2>3
  <2>5. invitaciones' \in Seq(Invitacion) /\ DOMAIN invitaciones' = DOMAIN invitaciones
    BY <1>10, <2>1, <2>2, <2>3, <1>t
  <2>6. Tablas' /\ Crecen
    BY <1>11, <1>t, <2>4, <2>5 DEF AcceptInvitation, Tablas, Crecen
  <2>7. QED
    BY <1>3, <1>11, <2>6 DEF AcceptInvitation
<1>12. ASSUME NEW i \in DOMAIN invitaciones, ChangeInvitation(i) \/ Expire(i)
       PROVE AccountsTypeOK' /\ Crecen
  <2>1. \E x \in Invitacion : invitaciones' = [invitaciones EXCEPT ![i] = x]
    <3>1. /\ [invitaciones[i] EXCEPT !.revocada = TRUE] \in Invitacion
          /\ [invitaciones[i] EXCEPT !.vencida = FALSE] \in Invitacion
          /\ [invitaciones[i] EXCEPT !.vencida = TRUE] \in Invitacion
      BY <1>l DEF Invitacion
    <3>2. QED
      BY <1>12, <3>1 DEF ChangeInvitation, Expire
  <2>2. invitaciones' \in Seq(Invitacion) /\ DOMAIN invitaciones' = DOMAIN invitaciones
    BY <1>10, <2>1
  <2>3. UNCHANGED <<cuentas, enlaces, tramite, empezadas, cruzada>>
    BY <1>12 DEF ChangeInvitation, Expire
  <2>4. QED
    BY <2>2, <2>3 DEF AccountsTypeOK, Crecen, Existe
<1>13. ASSUME NEW p \in Peticiones, NEW c \in Correos, VoidLinks(p, c) PROVE AccountsTypeOK' /\ Crecen
  <2> DEFINE t == [paso |-> "emite", correo |-> c]
  <2>1. t \in Tramite /\ t.paso = "emite"
    BY DEF Emite, Tramite
  <2>2. \A n \in DOMAIN enlaces : [enlaces[n] EXCEPT !.usado = TRUE, !.anulado = TRUE] \in Enlace
    BY <1>l DEF Enlace
  <2>3. enlaces' \in [1..Len(enlaces) -> Enlace]
    BY <1>13, <1>l, <2>2 DEF VoidLinks
  <2>4. enlaces' \in Seq(Enlace) /\ DOMAIN enlaces' = DOMAIN enlaces
    BY <2>3, <1>l, SameLength
  <2>5. Tablas' /\ Crecen
    BY <1>13, <1>t, <2>4 DEF VoidLinks, Tablas, Crecen, Existe
  <2>6. Sigue(p, t)
    BY <1>13, <1>t, <2>1, RequestMoves DEF VoidLinks
  <2> HIDE DEF t
  <2>7. QED
    BY <1>1, <2>1, <2>5, <2>6
<1>14. ASSUME NEW p \in Peticiones, InsertLink(p) PROVE AccountsTypeOK' /\ Crecen
  <2> DEFINE nuevo == [correo |-> tramite[p].correo, usado |-> FALSE, anulado |-> FALSE, usos |-> 0]
  <2>1. tramite[p] \in Emite
    BY <1>14, <1>t, TramiteKinds DEF InsertLink
  <2>2. nuevo \in Enlace
    BY <2>1 DEF Emite, Enlace
  <2>3. enlaces' = Append(enlaces, nuevo)
    BY <1>14 DEF InsertLink
  <2> HIDE DEF nuevo
  <2>4. enlaces' \in Seq(Enlace) /\ Len(enlaces') = Len(enlaces) + 1
    BY <2>2, <2>3, <1>t, AppendProperties
  <2>5. DOMAIN enlaces \subseteq DOMAIN enlaces'
    BY <2>4, <1>l, LenProperties
  <2>6. Tablas' /\ Crecen
    BY <1>14, <1>t, <2>4, <2>5 DEF InsertLink, Tablas, Crecen, Existe
  <2>7. QED
    BY <1>3, <1>14, <2>6 DEF InsertLink
<1>15. ASSUME NEW p \in Peticiones, ConsumeLink(p) PROVE AccountsTypeOK' /\ Crecen
  <2> DEFINE n == tramite[p].enlace
             x == [enlaces[n] EXCEPT !.usado = TRUE, !.usos = @ + 1]
  <2>1. n \in DOMAIN enlaces
    BY <1>15 DEF ConsumeLink, AccountsTypeOK
  <2>2. x \in Enlace
    <3>1. enlaces[n] \in Enlace
      BY <2>1, <1>l
    <3>2. \A e \in Enlace, u \in Nat : [e EXCEPT !.usado = TRUE, !.usos = u] \in Enlace
      BY DEF Enlace
    <3>3. enlaces[n].usos + 1 \in Nat
      BY <3>1 DEF Enlace
    <3>4. QED
      BY <3>1, <3>2, <3>3
  <2>3. enlaces' = enlaces \/ enlaces' = [enlaces EXCEPT ![n] = x]
    BY <1>15 DEF ConsumeLink
  <2> HIDE DEF n, x
  <2>4. enlaces' \in Seq(Enlace) /\ DOMAIN enlaces' = DOMAIN enlaces
    <3>1. CASE enlaces' = enlaces
      BY <3>1, <1>t
    <3>2. CASE enlaces' = [enlaces EXCEPT ![n] = x]
      BY <3>2, <2>1, <2>2, <1>t, <1>l, ExceptSeq, LenProperties
    <3>3. QED
      BY <2>3, <3>1, <3>2
  <2>5. Tablas' /\ Crecen
    BY <1>15, <1>t, <2>4 DEF ConsumeLink, Tablas, Crecen, Existe
  <2>6. QED
    BY <1>3, <1>15, <2>5 DEF ConsumeLink
<1>16. ASSUME NEW p \in Peticiones, NEW c \in Correos, RegisterCheck(p, c)
       PROVE  AccountsTypeOK' /\ Crecen
  <2> DEFINE t == [paso |-> "registra", correo |-> c, primera |-> \A x \in Correos : ~Existe(x)]
  <2>1. t \in Tramite /\ t.paso = "registra"
    BY DEF Registra, Tramite
  <2>2. Comienza(p, t) /\ UNCHANGED <<cuentas, invitaciones, enlaces, cruzada>>
    BY <1>16 DEF RegisterCheck
  <2> HIDE DEF t
  <2>3. QED
    BY <1>2, <2>1, <2>2
<1>17. ASSUME NEW p \in Peticiones, NEW a \in Correos, NEW c \in Correos, NEW x \in Cambios,
              CheckChange(p, a, c, x)
       PROVE  AccountsTypeOK' /\ Crecen
  <2> DEFINE t == [paso |-> "cambia", correo |-> c, cambio |-> x, vistos |-> Administradores]
  <2>1. t \in Tramite /\ t.paso = "cambia" /\ t.correo = c
    BY DEF Cambia, Tramite, Administradores
  <2>2. Comienza(p, t) /\ Existe(c) /\ UNCHANGED <<cuentas, invitaciones, enlaces, cruzada>>
    BY <1>17 DEF CheckChange
  <2> HIDE DEF t
  <2>3. QED
    BY <1>2, <2>1, <2>2
<1>18. ASSUME NEW p \in Peticiones, NEW c \in Correos, NEW rol \in Roles, CheckInvitation(p, c, rol)
       PROVE  AccountsTypeOK' /\ Crecen
  <2> DEFINE t == [paso |-> "reemplaza", correo |-> c, rol |-> rol]
  <2>1. t \in Tramite /\ t.paso = "reemplaza"
    BY DEF Invita, Tramite
  <2>2. Comienza(p, t) /\ UNCHANGED <<cuentas, invitaciones, enlaces, cruzada>>
    BY <1>18 DEF CheckInvitation
  <2> HIDE DEF t
  <2>3. QED
    BY <1>2, <2>1, <2>2
<1>19. ASSUME NEW p \in Peticiones, NEW i \in DOMAIN invitaciones, OpenInvitation(p, i)
       PROVE  AccountsTypeOK' /\ Crecen
  <2> DEFINE t == [paso |-> "acepta", invitacion |-> i]
  <2>1. t \in Tramite /\ t.paso = "acepta" /\ t.invitacion = i
    BY <1>l DEF Acepta, Tramite
  <2>2. Comienza(p, t) /\ UNCHANGED <<cuentas, invitaciones, enlaces, cruzada>>
    BY <1>19 DEF OpenInvitation
  <2> HIDE DEF t
  <2>3. QED
    BY <1>2, <2>1, <2>2
<1>20. ASSUME NEW p \in Peticiones, NEW n \in DOMAIN enlaces, PeekLink(p, n)
       PROVE  AccountsTypeOK' /\ Crecen
  <2> DEFINE t == [paso |-> "usa", enlace |-> n]
  <2>1. t \in Tramite /\ t.paso = "usa" /\ t.enlace = n
    BY <1>l DEF Usa, Tramite
  <2>2. Comienza(p, t) /\ UNCHANGED <<cuentas, invitaciones, enlaces, cruzada>>
    BY <1>20 DEF PeekLink
  <2> HIDE DEF t
  <2>3. QED
    BY <1>2, <2>1, <2>2
<1>21. CASE UNCHANGED accountVars
  BY <1>21 DEF accountVars, AccountsTypeOK, Crecen, Existe
<1>22. QED
  BY <1>5, <1>6, <1>7, <1>8, <1>9, <1>11, <1>12, <1>13, <1>14, <1>15, <1>16, <1>17, <1>18, <1>19,
     <1>20, <1>21 DEF AccountsNext, Cambios, Roles

(* The accounts, the requests and the links stay well formed, and what a   *)
(* request refers to stays there.                                          *)
THEOREM AccountsTypes == AccountsSpec => []AccountsTypeOK
<1>1. AccountsInit => AccountsTypeOK
  <2>1. SinTramite \in Tramite /\ SinTramite.paso = "libre"
    BY DEF Tramite, SinTramite
  <2>2. ASSUME AccountsInit
        PROVE  /\ cuentas \in [Correos -> Cuenta \cup {NoHay}]
               /\ tramite \in [Peticiones -> Tramite] /\ empezadas \in Nat
               /\ \A p \in Peticiones : tramite[p].paso = "libre"
    BY <2>1, <2>2 DEF AccountsInit
  <2>3. AccountsInit =>
          invitaciones \in Seq(Invitacion) /\ enlaces \in Seq(Enlace) /\ cruzada \in BOOLEAN
    BY EmptySeq DEF AccountsInit
  <2>4. QED
    BY <2>2, <2>3 DEF AccountsTypeOK
<1>2. QED
  BY <1>1, NextAccountsTypes, PTL DEF AccountsSpec

-----------------------------------------------------------------------------
(* An administrator stays.                                                 *)

LEMMA NextFounded ==
  AccountsTypeOK /\ Fundada /\ [AccountsNext]_accountVars => Fundada'
<1> SUFFICES ASSUME AccountsTypeOK, Fundada, [AccountsNext]_accountVars PROVE Fundada'
  OBVIOUS
<1>g. HayCuentas => HayCuentas'
  BY NextAccountsTypes DEF Crecen, HayCuentas
<1>t. tramite \in [Peticiones -> Tramite] /\ empezadas \in Nat
  BY DEF AccountsTypeOK
<1>r. \A p \in Peticiones : tramite[p] \in Tramite
  BY <1>t
<1>s. FundadaEn(SinTramite)
  BY DEF SinTramite, FundadaEn
<1>v. ASSUME NEW i \in DOMAIN invitaciones PROVE invitaciones # <<>>
  OBVIOUS
<1>1. ASSUME NEW p \in Peticiones, NEW t, Sigue(p, t), FundadaEn(t),
             invitaciones' = invitaciones \/ HayCuentas
      PROVE  Fundada'
  <2>1. ASSUME NEW q \in Peticiones PROVE FundadaEn(tramite[q])'
    <3>1. /\ q = p => tramite'[q] = t
          /\ q # p => tramite'[q] = tramite[q] /\ FundadaEn(tramite[q])
      BY <1>1 DEF Sigue, Fundada
    <3>2. QED
      BY <1>1, <1>g, <3>1 DEF FundadaEn
  <2>2. QED
    BY <1>1, <1>g, <2>1 DEF Fundada
<1>2. ASSUME NEW p \in Peticiones, Acaba(p), invitaciones' = invitaciones \/ HayCuentas
      PROVE  Fundada'
  BY <1>1, <1>2, <1>s, <1>t, RequestMoves
<1>3. ASSUME NEW p \in Peticiones, Interrumpir(p) \/ CreateUser(p) \/ SetStatusOrRole(p)
               \/ InsertLink(p) \/ ConsumeLink(p)
      PROVE  Fundada'
  BY <1>2, <1>3 DEF Interrumpir, CreateUser, SetStatusOrRole, InsertLink, ConsumeLink
<1>4. ASSUME NEW p \in Peticiones, InsertInvitation(p) PROVE Fundada'
  BY <1>2, <1>4 DEF InsertInvitation, Fundada, FundadaEn
<1>5. ASSUME NEW p \in Peticiones, AcceptInvitation(p) PROVE Fundada'
  BY <1>2, <1>5, <1>v DEF AcceptInvitation, Fundada, AccountsTypeOK
<1>6. ASSUME NEW p \in Peticiones, SupersedeInvitations(p) PROVE Fundada'
  <2> DEFINE t == [tramite[p] EXCEPT !.paso = "invita"]
  <2>1. tramite[p] \in Invita
    BY <1>6, <1>r, TramiteKinds DEF SupersedeInvitations
  <2>2. t \in Tramite /\ t.paso = "invita"
    BY <2>1 DEF Invita, Tramite
  <2>3. HayCuentas
    BY <1>6 DEF SupersedeInvitations, Fundada, FundadaEn
  <2>4. Sigue(p, t)
    BY <1>6, <1>t, <2>2, RequestMoves DEF SupersedeInvitations
  <2> HIDE DEF t
  <2>5. FundadaEn(t)
    BY <2>2, <2>3, <1>g DEF FundadaEn
  <2>6. QED
    BY <1>1, <2>3, <2>4, <2>5
<1>7. ASSUME NEW p \in Peticiones, NEW t \in Tramite, Comienza(p, t), FundadaEn(t),
             UNCHANGED invitaciones
      PROVE  Fundada'
  BY <1>1, <1>7, <1>t, RequestMoves
<1>8. ASSUME NEW p \in Peticiones, NEW c \in Correos, RegisterCheck(p, c) PROVE Fundada'
  <2> DEFINE t == [paso |-> "registra", correo |-> c, primera |-> \A x \in Correos : ~Existe(x)]
  <2>1. t \in Tramite /\ t.paso = "registra" /\ (t.primera <=> ~HayCuentas)
    BY DEF Registra, Tramite, HayCuentas
  <2>2. Comienza(p, t) /\ UNCHANGED invitaciones
    BY <1>8 DEF RegisterCheck
  <2> HIDE DEF t
  <2>3. FundadaEn(t)
    BY <2>1, <1>g DEF FundadaEn
  <2>4. QED
    BY <1>7, <2>1, <2>2, <2>3
<1>9. ASSUME NEW p \in Peticiones, NEW c \in Correos, VoidLinks(p, c) PROVE Fundada'
  <2> DEFINE t == [paso |-> "emite", correo |-> c]
  <2>1. t \in Tramite /\ t.paso = "emite"
    BY DEF Emite, Tramite
  <2>2. Comienza(p, t) /\ UNCHANGED invitaciones
    BY <1>9 DEF VoidLinks
  <2> HIDE DEF t
  <2>3. QED
    BY <1>7, <2>1, <2>2 DEF FundadaEn
<1>10. ASSUME NEW p \in Peticiones, NEW a \in Correos, NEW c \in Correos, NEW x \in Cambios,
              CheckChange(p, a, c, x)
       PROVE  Fundada'
  <2> DEFINE t == [paso |-> "cambia", correo |-> c, cambio |-> x, vistos |-> Administradores]
  <2>1. /\ t \in Tramite /\ t.paso = "cambia" /\ t.correo = c /\ t.cambio = x
        /\ t.vistos = Administradores
    BY DEF Cambia, Tramite, Administradores
  <2>2. Comienza(p, t) /\ UNCHANGED invitaciones
    BY <1>10 DEF CheckChange
  <2> HIDE DEF t
  <2>3. x \in {"disabled", "member"} => a # c /\ a \in Administradores
    BY <1>10 DEF CheckChange, PuedeQuitar, Administradores
  <2>4. FundadaEn(t)
    BY <2>1, <2>3 DEF FundadaEn
  <2>5. QED
    BY <1>7, <2>1, <2>2, <2>4
<1>11. ASSUME NEW p \in Peticiones, NEW c \in Correos, NEW rol \in Roles, CheckInvitation(p, c, rol)
       PROVE  Fundada'
  <2> DEFINE t == [paso |-> "reemplaza", correo |-> c, rol |-> rol]
  <2>1. t \in Tramite /\ t.paso = "reemplaza"
    BY DEF Invita, Tramite
  <2>2. Comienza(p, t) /\ UNCHANGED invitaciones /\ HayCuentas
    BY <1>11 DEF CheckInvitation, HayCuentas, Administradores, Administra
  <2> HIDE DEF t
  <2>3. FundadaEn(t)
    BY <2>1, <2>2, <1>g DEF FundadaEn
  <2>4. QED
    BY <1>7, <2>1, <2>2, <2>3
<1>12. ASSUME NEW p \in Peticiones, NEW i \in DOMAIN invitaciones, OpenInvitation(p, i)
       PROVE  Fundada'
  <2> DEFINE t == [paso |-> "acepta", invitacion |-> i]
  <2>1. i \in Nat
    BY LenProperties DEF AccountsTypeOK
  <2>2. t \in Tramite /\ t.paso = "acepta"
    BY <2>1 DEF Acepta, Tramite
  <2>3. Comienza(p, t) /\ UNCHANGED invitaciones
    BY <1>12 DEF OpenInvitation
  <2> HIDE DEF t
  <2>4. QED
    BY <1>7, <2>2, <2>3 DEF FundadaEn
<1>13. ASSUME NEW p \in Peticiones, NEW n \in DOMAIN enlaces, PeekLink(p, n) PROVE Fundada'
  <2> DEFINE t == [paso |-> "usa", enlace |-> n]
  <2>1. n \in Nat
    BY LenProperties DEF AccountsTypeOK
  <2>2. t \in Tramite /\ t.paso = "usa"
    BY <2>1 DEF Usa, Tramite
  <2>3. Comienza(p, t) /\ UNCHANGED invitaciones
    BY <1>13 DEF PeekLink
  <2> HIDE DEF t
  <2>4. QED
    BY <1>7, <2>2, <2>3 DEF FundadaEn
<1>14. ASSUME NEW i \in DOMAIN invitaciones, ChangeInvitation(i) \/ Expire(i) PROVE Fundada'
  <2>1. HayCuentas /\ tramite' = tramite
    BY <1>14, <1>v DEF ChangeInvitation, Expire, Fundada
  <2>2. QED
    BY <2>1, <1>g DEF Fundada, FundadaEn
<1>15. CASE UNCHANGED accountVars
  BY <1>15, <1>g DEF accountVars, Fundada, FundadaEn
<1>16. QED
  BY <1>3, <1>4, <1>5, <1>6, <1>8, <1>9, <1>10, <1>11, <1>12, <1>13, <1>14, <1>15
     DEF AccountsNext, Cambios, Roles

LEMMA NextAdminStays ==
  ASSUME AccountsTypeOK, Fundada, AdminStays, [AccountsNext]_accountVars
  PROVE  AdminStays'
<1>t. cuentas \in [Correos -> Cuenta \cup {NoHay}] /\ \A p \in Peticiones : tramite[p] \in Tramite
  BY DEF AccountsTypeOK
<1>g. HayCuentas => HayCuentas'
  BY NextAccountsTypes DEF Crecen, HayCuentas
<1>n. NoHay.rol = "nadie"
  BY DEF NoHay
<1>1. ASSUME UNCHANGED <<cuentas, cruzada>> PROVE AdminStays'
  BY <1>1 DEF AdminStays, Existe, Administradores, Administra
(* An account takes a free address: nobody loses anything. *)
<1>2. ASSUME NEW c \in Correos, NEW x \in Cuenta, cuentas' = [cuentas EXCEPT ![c] = x],
             UNCHANGED cruzada, ~Existe(c),
             HayCuentas \/ (x.rol = "admin" /\ x.estado = "active")
      PROVE  AdminStays'
  <2>1. \A a \in Administradores : a \in Administradores'
    BY <1>2, <1>t DEF Administradores, Administra, Existe
  <2>2. x.rol = "admin" /\ x.estado = "active" => c \in Administradores'
    BY <1>2, <1>t, CuentaExiste DEF Administradores, Administra, Existe
  <2>3. QED
    BY <1>2, <2>1, <2>2 DEF AdminStays, HayCuentas
<1>3. ASSUME NEW p \in Peticiones, CreateUser(p) PROVE AdminStays'
  <2> DEFINE t == tramite[p]
             nueva == IF t.primera THEN [rol |-> "admin", estado |-> "active", origen |-> 0]
                      ELSE [rol |-> "member", estado |-> "pending", origen |-> 0]
  <2>1. t \in Registra
    BY <1>3, <1>t, TramiteKinds DEF CreateUser
  <2>2. /\ nueva \in Cuenta /\ t.correo \in Correos
        /\ t.primera => nueva.rol = "admin" /\ nueva.estado = "active"
    BY <2>1 DEF Cuenta, Roles, Registra
  <2>3. t.primera \/ HayCuentas
    BY <1>3 DEF CreateUser, Fundada, FundadaEn
  <2>4. /\ UNCHANGED cruzada
        /\ \/ UNCHANGED cuentas
           \/ /\ ~Existe(t.correo)
              /\ cuentas' = [cuentas EXCEPT ![t.correo] = nueva]
    BY <1>3 DEF CreateUser
  <2> HIDE DEF t, nueva
  <2>5. QED
    BY <1>1, <1>2, <2>2, <2>3, <2>4
<1>4. ASSUME NEW p \in Peticiones, AcceptInvitation(p) PROVE AdminStays'
  <2> DEFINE i == tramite[p].invitacion
             c == invitaciones[i].correo
             nueva == [rol |-> invitaciones[i].rol, estado |-> "active", origen |-> i]
  <2>1. i \in DOMAIN invitaciones
    BY <1>4 DEF AcceptInvitation, AccountsTypeOK
  <2>2. HayCuentas
    <3>1. invitaciones # <<>>
      BY <2>1
    <3>2. QED
      BY <3>1 DEF Fundada
  <2>3. invitaciones[i] \in Invitacion /\ i \in Nat
    BY <2>1, ElementOfSeq, LenProperties DEF AccountsTypeOK
  <2>4. nueva \in Cuenta /\ c \in Correos
    BY <2>3 DEF Cuenta, Invitacion
  <2>5. /\ UNCHANGED cruzada
        /\ \/ UNCHANGED cuentas
           \/ /\ ~Existe(c)
              /\ cuentas' = [cuentas EXCEPT ![c] = nueva]
    BY <1>4 DEF AcceptInvitation
  <2> HIDE DEF i, c, nueva
  <2>6. QED
    BY <1>1, <1>2, <2>2, <2>4, <2>5
(* A change whose administrators are still those that it saw. *)
<1>5. ASSUME NEW p \in Peticiones, SetStatusOrRole(p) PROVE AdminStays'
  <2> SUFFICES ASSUME ~cruzada' PROVE Administradores' # {}
    BY DEF AdminStays
  <2> DEFINE t == tramite[p]
             x == cuentas[t.correo]
             y == IF t.cambio \in {"disabled", "active"} THEN [x EXCEPT !.estado = t.cambio]
                  ELSE [x EXCEPT !.rol = t.cambio]
  <2>1. t \in Cambia /\ Existe(t.correo) /\ t.paso = "cambia"
    BY <1>5, <1>t, TramiteKinds DEF SetStatusOrRole, AccountsTypeOK
  <2>2. t.correo \in Correos /\ t.cambio \in {"active", "disabled", "admin", "member"}
    BY <2>1 DEF Cambia, Cambios
  <2>3. x \in Cuenta
    BY <2>1, <2>2, <1>t DEF Existe
  <2>4. ~cruzada /\ Administradores = t.vistos
    BY <1>5 DEF SetStatusOrRole
  <2>5. cuentas' = [cuentas EXCEPT ![t.correo] = y]
    BY <1>5, <2>2, <1>t DEF SetStatusOrRole
  <2>6. \A a \in Administradores : a # t.correo => a \in Administradores'
    BY <2>5, <1>t DEF Administradores, Administra, Existe
  <2>7. CASE t.cambio \in {"disabled", "member"}
    <3>1. \E a \in t.vistos : a # t.correo
      BY <2>1, <2>7 DEF Fundada, FundadaEn
    <3>2. QED
      BY <3>1, <2>4, <2>6
  <2>8. CASE t.cambio \in {"active", "admin"}
    <3>1. /\ y \in Cuenta
          /\ x.rol = "admin" /\ x.estado = "active" => y.rol = "admin" /\ y.estado = "active"
      BY <2>3, <2>8 DEF Cuenta, Roles
    <3>2. t.correo \in Administradores => t.correo \in Administradores'
      BY <2>2, <2>5, <3>1, <1>t, CuentaExiste DEF Administradores, Administra, Existe
    <3>3. Administradores # {}
      BY <2>1, <2>2, <2>4 DEF AdminStays
    <3>4. QED
      BY <2>6, <3>2, <3>3
  <2>9. QED
    BY <2>2, <2>7, <2>8
<1>6. \/ UNCHANGED <<cuentas, cruzada>>
      \/ \E p \in Peticiones : CreateUser(p) \/ SetStatusOrRole(p) \/ AcceptInvitation(p)
  BY DEF AccountsNext, accountVars, Interrumpir, SupersedeInvitations, InsertInvitation, InsertLink,
         ConsumeLink, RegisterCheck, VoidLinks, CheckChange, CheckInvitation, OpenInvitation, PeekLink,
         ChangeInvitation, Expire
<1>7. QED
  BY <1>1, <1>3, <1>4, <1>5, <1>6

(* A taller that has accounts has an active administrator, unless two      *)
(* changes of the administrators crossed.                                  *)
THEOREM AnAdministratorStays == AccountsSpec => []AdminStays
<1>1. AccountsInit => AdminStays /\ Fundada
  BY DEF AccountsInit, AdminStays, Existe, Fundada, FundadaEn, SinTramite
<1>2. AccountsTypeOK /\ Fundada /\ AdminStays /\ [AccountsNext]_accountVars => Fundada' /\ AdminStays'
  BY NextFounded, NextAdminStays
<1>3. QED
  BY <1>1, <1>2, AccountsTypes, PTL DEF AccountsSpec

-----------------------------------------------------------------------------
(* Invitations and links.                                                  *)

LEMMA NextFulfilled ==
  ASSUME AccountsTypeOK, Cumplidas, [AccountsNext]_accountVars
  PROVE  Cumplidas'
<1>t. /\ cuentas \in [Correos -> Cuenta \cup {NoHay}] /\ invitaciones \in Seq(Invitacion)
      /\ \A p \in Peticiones : tramite[p] \in Tramite
  BY DEF AccountsTypeOK
<1>l. /\ DOMAIN invitaciones = 1..Len(invitaciones) /\ Len(invitaciones) \in Nat
      /\ \A i \in DOMAIN invitaciones : invitaciones[i] \in Invitacion
                                         /\ invitaciones[i].correo \in Correos
  <2>1. DOMAIN invitaciones = 1..Len(invitaciones) /\ Len(invitaciones) \in Nat
    BY <1>t, LenProperties
  <2>2. \A i \in DOMAIN invitaciones : invitaciones[i] \in Invitacion
    BY <1>t, <2>1, ElementOfSeq
  <2>3. QED
    BY <2>1, <2>2 DEF Invitacion
(* The accounts keep where they come from, and the accepted invitations    *)
(* stay as they are.                                                       *)
<1>1. ASSUME DOMAIN invitaciones' = DOMAIN invitaciones,
             \A i \in DOMAIN invitaciones :
                \/ invitaciones'[i] = invitaciones[i]
                \/ /\ ~invitaciones[i].aceptada
                   /\ ~invitaciones'[i].aceptada,
             \A c \in Correos : Existe(c) => Existe(c)' /\ cuentas'[c].origen = cuentas[c].origen
      PROVE  Cumplidas'
  BY <1>1, <1>l DEF Cumplidas, CumplidaEn, Existe
<1>2. ASSUME UNCHANGED invitaciones,
             \A c \in Correos : Existe(c) => Existe(c)' /\ cuentas'[c].origen = cuentas[c].origen
      PROVE  Cumplidas'
  BY <1>1, <1>2
<1>3. ASSUME NEW p \in Peticiones, CreateUser(p) PROVE Cumplidas'
  <2> DEFINE nueva == IF tramite[p].primera THEN [rol |-> "admin", estado |-> "active", origen |-> 0]
                      ELSE [rol |-> "member", estado |-> "pending", origen |-> 0]
  <2>1. UNCHANGED invitaciones
    BY <1>3 DEF CreateUser
  <2>2. \/ UNCHANGED cuentas
        \/ /\ ~Existe(tramite[p].correo)
           /\ cuentas' = [cuentas EXCEPT ![tramite[p].correo] = nueva]
    BY <1>3 DEF CreateUser
  <2> HIDE DEF nueva
  <2>3. \A c \in Correos : Existe(c) => Existe(c)' /\ cuentas'[c].origen = cuentas[c].origen
    BY <2>2, <1>t DEF Existe
  <2>4. QED
    BY <1>2, <2>1, <2>3
<1>4. ASSUME NEW p \in Peticiones, SetStatusOrRole(p) PROVE Cumplidas'
  <2> DEFINE t == tramite[p]
             x == cuentas[t.correo]
             y == IF t.cambio \in {"disabled", "active"} THEN [x EXCEPT !.estado = t.cambio]
                  ELSE [x EXCEPT !.rol = t.cambio]
  <2>1. t \in Cambia /\ Existe(t.correo)
    BY <1>4, <1>t, TramiteKinds DEF SetStatusOrRole, AccountsTypeOK
  <2>2. t.correo \in Correos /\ t.cambio \in Cambios
    BY <2>1 DEF Cambia
  <2>3. x \in Cuenta
    BY <2>1, <2>2, <1>t DEF Existe
  <2>4. y \in Cuenta /\ y.origen = x.origen
    BY <2>2, <2>3 DEF Cuenta, Roles, Cambios
  <2>5. cuentas' = [cuentas EXCEPT ![t.correo] = y] /\ UNCHANGED invitaciones
    BY <1>4, <2>2, <1>t DEF SetStatusOrRole
  <2> HIDE DEF y
  <2>6. \A c \in Correos : Existe(c) => Existe(c)' /\ cuentas'[c].origen = cuentas[c].origen
    BY <2>2, <2>4, <2>5, <1>t, CuentaExiste DEF Existe
  <2>7. QED
    BY <1>2, <2>5, <2>6
<1>5. ASSUME NEW p \in Peticiones, SupersedeInvitations(p) PROVE Cumplidas'
  <2>1. /\ UNCHANGED cuentas /\ DOMAIN invitaciones' = DOMAIN invitaciones
        /\ \A i \in DOMAIN invitaciones : invitaciones'[i] =
             IF invitaciones[i].correo = tramite[p].correo /\ ~invitaciones[i].aceptada
             THEN [invitaciones[i] EXCEPT !.revocada = TRUE] ELSE invitaciones[i]
    BY <1>5 DEF SupersedeInvitations
  <2>2. \A i \in DOMAIN invitaciones : ~invitaciones[i].aceptada =>
          ~[invitaciones[i] EXCEPT !.revocada = TRUE].aceptada
    BY <1>l DEF Invitacion
  <2>3. QED
    BY <1>1, <2>1, <2>2 DEF Existe
<1>6. ASSUME NEW i \in DOMAIN invitaciones, ChangeInvitation(i) \/ Expire(i) PROVE Cumplidas'
  <2> DEFINE x == invitaciones[i]
  <2>1. /\ UNCHANGED cuentas
        /\ \/ /\ ~x.aceptada
              /\ \/ invitaciones' = [invitaciones EXCEPT ![i] = [x EXCEPT !.revocada = TRUE]]
                 \/ invitaciones' = [invitaciones EXCEPT ![i] = [x EXCEPT !.vencida = FALSE]]
           \/ invitaciones' = [invitaciones EXCEPT ![i] = [x EXCEPT !.vencida = TRUE]]
    BY <1>6 DEF ChangeInvitation, Expire
  <2>2. \E y \in Invitacion : /\ invitaciones' = [invitaciones EXCEPT ![i] = y]
                              /\ y.aceptada = x.aceptada /\ y.correo = x.correo
                              /\ x.aceptada => y.revocada = x.revocada
    <3>1. ASSUME NEW y \in {[x EXCEPT !.revocada = TRUE], [x EXCEPT !.vencida = FALSE],
                            [x EXCEPT !.vencida = TRUE]}
          PROVE  y \in Invitacion /\ y.aceptada = x.aceptada /\ y.correo = x.correo
      BY <3>1, <1>l DEF Invitacion
    <3>2. [x EXCEPT !.vencida = TRUE].revocada = x.revocada
      BY <1>l DEF Invitacion
    <3>3. QED
      BY <2>1, <3>1, <3>2
  <2>3. PICK y \in Invitacion : /\ invitaciones' = [invitaciones EXCEPT ![i] = y]
                                /\ y.aceptada = x.aceptada /\ y.correo = x.correo
                                /\ x.aceptada => y.revocada = x.revocada
    BY <2>2
  <2>4. /\ DOMAIN invitaciones' = DOMAIN invitaciones /\ invitaciones'[i] = y
        /\ \A j \in DOMAIN invitaciones : j # i => invitaciones'[j] = invitaciones[j]
    BY <2>3
  <2>5. QED
    BY <2>1, <2>3, <2>4 DEF Cumplidas, CumplidaEn, Existe
<1>7. ASSUME NEW p \in Peticiones, InsertInvitation(p) PROVE Cumplidas'
  <2> DEFINE nueva == [correo |-> tramite[p].correo, rol |-> tramite[p].rol,
                       aceptada |-> FALSE, revocada |-> FALSE, vencida |-> FALSE]
             n == Len(invitaciones) + 1
  <2>1. tramite[p] \in Invita
    BY <1>7, <1>t, TramiteKinds DEF InsertInvitation
  <2>2. nueva \in Invitacion /\ ~nueva.aceptada
    BY <2>1 DEF Invita, Invitacion
  <2>3. invitaciones' = Append(invitaciones, nueva) /\ UNCHANGED cuentas
    BY <1>7 DEF InsertInvitation
  <2> HIDE DEF nueva
  <2>4. /\ invitaciones' \in Seq(Invitacion) /\ Len(invitaciones') = n
        /\ invitaciones'[n] = nueva
        /\ \A i \in 1..Len(invitaciones) : invitaciones'[i] = invitaciones[i]
    BY <2>2, <2>3, <1>t, AppendProperties
  <2>5. \A i \in DOMAIN invitaciones' : i = n \/ i \in DOMAIN invitaciones
    BY <2>4, <1>l, LenProperties
  <2>6. QED
    BY <2>2, <2>3, <2>4, <2>5, <1>l DEF Cumplidas, CumplidaEn, Existe
(* The address of an invitation that was accepted has an account: no other *)
(* invitation makes one for it.                                            *)
<1>a. ASSUME NEW i \in DOMAIN invitaciones, NEW c \in Correos, c = invitaciones[i].correo,
             NEW x \in Cuenta, x.origen = i, NEW y, y.correo = c, ~y.revocada, ~Existe(c),
             cuentas' = [cuentas EXCEPT ![c] = x], invitaciones' = [invitaciones EXCEPT ![i] = y]
      PROVE  Cumplidas'
  <2>1. /\ cuentas'[c] = x /\ Existe(c)'
        /\ \A d \in Correos : d # c => cuentas'[d] = cuentas[d]
    BY <1>a, <1>t, CuentaExiste DEF Existe
  <2>2. /\ DOMAIN invitaciones' = DOMAIN invitaciones /\ invitaciones'[i] = y
        /\ \A j \in DOMAIN invitaciones : j # i => invitaciones'[j] = invitaciones[j]
    BY <1>a
  <2>3. ASSUME NEW j \in DOMAIN invitaciones, j # i PROVE CumplidaEn(j)'
    <3>1. invitaciones[j].aceptada => invitaciones[j].correo # c
      BY <1>a DEF Cumplidas, CumplidaEn
    <3>2. QED
      BY <2>1, <2>2, <2>3, <3>1, <1>l DEF Cumplidas, CumplidaEn, Existe
  <2>4. CumplidaEn(i)'
    BY <1>a, <2>1, <2>2 DEF CumplidaEn, Existe
  <2>5. \A j \in DOMAIN invitaciones' : CumplidaEn(j)'
    BY <2>2, <2>3, <2>4
  <2>6. QED
    BY <2>5 DEF Cumplidas, CumplidaEn
<1>8. ASSUME NEW p \in Peticiones, AcceptInvitation(p) PROVE Cumplidas'
  <2> DEFINE i == tramite[p].invitacion
             c == invitaciones[i].correo
             nueva == [rol |-> invitaciones[i].rol, estado |-> "active", origen |-> i]
             cerrada == [invitaciones[i] EXCEPT !.aceptada = TRUE]
  <2>1. i \in DOMAIN invitaciones
    BY <1>8 DEF AcceptInvitation, AccountsTypeOK
  <2>2. invitaciones[i] \in Invitacion /\ c \in Correos /\ i \in Nat
    BY <2>1, <1>l
  <2>3. /\ nueva \in Cuenta /\ nueva.origen = i
        /\ cerrada.correo = c /\ cerrada.revocada = invitaciones[i].revocada
        /\ c = invitaciones[i].correo
    BY <2>2 DEF Cuenta, Invitacion
  <2>4. \/ UNCHANGED <<cuentas, invitaciones>>
        \/ /\ ~Existe(c) /\ ~invitaciones[i].revocada
           /\ cuentas' = [cuentas EXCEPT ![c] = nueva]
           /\ invitaciones' = [invitaciones EXCEPT ![i] = cerrada]
    BY <1>8 DEF AcceptInvitation, SigueAbierta, Abierta
  <2>5. CASE UNCHANGED <<cuentas, invitaciones>>
    BY <1>2, <2>5 DEF Existe
  <2> HIDE DEF i, c, nueva, cerrada
  <2>6. CASE /\ ~Existe(c) /\ ~invitaciones[i].revocada
             /\ cuentas' = [cuentas EXCEPT ![c] = nueva]
             /\ invitaciones' = [invitaciones EXCEPT ![i] = cerrada]
    BY <1>a, <2>1, <2>2, <2>3, <2>6
  <2>7. QED
    BY <2>4, <2>5, <2>6
<1>9. \/ UNCHANGED <<cuentas, invitaciones>>
      \/ \E p \in Peticiones : CreateUser(p) \/ SetStatusOrRole(p) \/ AcceptInvitation(p)
                                 \/ SupersedeInvitations(p) \/ InsertInvitation(p)
      \/ \E i \in DOMAIN invitaciones : ChangeInvitation(i) \/ Expire(i)
  BY DEF AccountsNext, accountVars, Interrumpir, InsertLink, ConsumeLink, RegisterCheck, VoidLinks,
         CheckChange, CheckInvitation, OpenInvitation, PeekLink
<1>10. QED
  BY <1>2, <1>3, <1>4, <1>5, <1>6, <1>7, <1>8, <1>9 DEF Existe

(* An invitation is not both accepted and revoked, and the account of its  *)
(* address is the one that it made.                                        *)
THEOREM AnInvitationEndsOnce == AccountsSpec => []InvitationsEndOnce
<1>1. AccountsInit => Cumplidas
  BY DEF AccountsInit, Cumplidas
<1>2. Cumplidas => InvitationsEndOnce
  BY DEF Cumplidas, CumplidaEn, InvitationsEndOnce
<1>3. QED
  BY <1>1, <1>2, NextFulfilled, AccountsTypes, PTL DEF AccountsSpec

LEMMA NextSpent ==
  ASSUME AccountsTypeOK, Gastados, [AccountsNext]_accountVars
  PROVE  Gastados'
<1>t. enlaces \in Seq(Enlace) /\ \A p \in Peticiones : tramite[p] \in Tramite
  BY DEF AccountsTypeOK
<1>l. /\ DOMAIN enlaces = 1..Len(enlaces) /\ Len(enlaces) \in Nat
      /\ \A n \in DOMAIN enlaces : enlaces[n] \in Enlace
  BY <1>t, LenProperties, ElementOfSeq
<1>1. ASSUME UNCHANGED enlaces PROVE Gastados'
  BY <1>1 DEF Gastados
<1>2. ASSUME NEW p \in Peticiones, NEW c \in Correos, VoidLinks(p, c) PROVE Gastados'
  <2>1. /\ DOMAIN enlaces' = DOMAIN enlaces
        /\ \A n \in DOMAIN enlaces :
             \/ enlaces'[n] = enlaces[n]
             \/ /\ ~enlaces[n].usado
                /\ enlaces'[n] = [enlaces[n] EXCEPT !.usado = TRUE, !.anulado = TRUE]
    BY <1>2 DEF VoidLinks
  <2>2. \A n \in DOMAIN enlaces :
          [enlaces[n] EXCEPT !.usado = TRUE, !.anulado = TRUE].usos = enlaces[n].usos
    BY <1>l DEF Enlace
  <2>3. \A n \in DOMAIN enlaces :
          [enlaces[n] EXCEPT !.usado = TRUE, !.anulado = TRUE].usado
    BY <1>l DEF Enlace
  <2>4. ASSUME NEW n \in DOMAIN enlaces
        PROVE  /\ ~enlaces'[n].usado => enlaces'[n].usos = 0 /\ ~enlaces'[n].anulado
               /\ enlaces'[n].anulado => enlaces'[n].usos = 0
               /\ enlaces'[n].usos <= 1
    <3> DEFINE x == [enlaces[n] EXCEPT !.usado = TRUE, !.anulado = TRUE]
    <3>1. /\ ~enlaces[n].usado => enlaces[n].usos = 0
          /\ enlaces[n].usos <= 1
      BY DEF Gastados
    <3>2. CASE enlaces'[n] = enlaces[n]
      BY <3>2 DEF Gastados
    <3>3. CASE ~enlaces[n].usado /\ enlaces'[n] = x
      <4>1. x.usado /\ x.usos = enlaces[n].usos
        BY <2>2, <2>3
      <4> HIDE DEF x
      <4>2. QED
        BY <3>1, <3>3, <4>1
    <3>4. QED
      BY <2>1, <3>2, <3>3
  <2>5. QED
    BY <2>1, <2>4 DEF Gastados
<1>3. ASSUME NEW p \in Peticiones, InsertLink(p) PROVE Gastados'
  <2> DEFINE nuevo == [correo |-> tramite[p].correo, usado |-> FALSE, anulado |-> FALSE, usos |-> 0]
             m == Len(enlaces) + 1
  <2>1. tramite[p] \in Emite
    BY <1>3, <1>t, TramiteKinds DEF InsertLink
  <2>2. nuevo \in Enlace /\ nuevo.usos = 0 /\ ~nuevo.anulado
    BY <2>1 DEF Emite, Enlace
  <2>3. enlaces' = Append(enlaces, nuevo)
    BY <1>3 DEF InsertLink
  <2> HIDE DEF nuevo
  <2>4. /\ enlaces' \in Seq(Enlace) /\ Len(enlaces') = m /\ enlaces'[m] = nuevo
        /\ \A n \in 1..Len(enlaces) : enlaces'[n] = enlaces[n]
    BY <2>2, <2>3, <1>t, AppendProperties
  <2>5. \A n \in DOMAIN enlaces' : n = m \/ n \in DOMAIN enlaces
    BY <2>4, <1>l, LenProperties
  <2>6. QED
    BY <2>2, <2>4, <2>5, <1>l DEF Gastados
<1>4. ASSUME NEW p \in Peticiones, ConsumeLink(p) PROVE Gastados'
  <2> DEFINE n == tramite[p].enlace
             x == [enlaces[n] EXCEPT !.usado = TRUE, !.usos = @ + 1]
  <2>1. n \in DOMAIN enlaces
    BY <1>4 DEF ConsumeLink, AccountsTypeOK
  <2>2. x.usado /\ x.usos = enlaces[n].usos + 1 /\ x.anulado = enlaces[n].anulado
    BY <2>1, <1>l DEF Enlace
  <2>3. \/ enlaces' = enlaces
        \/ /\ ~enlaces[n].usado
           /\ enlaces' = [enlaces EXCEPT ![n] = x]
    BY <1>4 DEF ConsumeLink, SinUsar
  <2> HIDE DEF n, x
  <2>4. CASE ~enlaces[n].usado /\ enlaces' = [enlaces EXCEPT ![n] = x]
    <3>1. enlaces[n].usos = 0 /\ ~enlaces[n].anulado
      BY <2>1, <2>4 DEF Gastados
    <3>2. /\ DOMAIN enlaces' = DOMAIN enlaces /\ enlaces'[n] = x
          /\ \A m \in DOMAIN enlaces : m # n => enlaces'[m] = enlaces[m]
      BY <2>1, <2>4
    <3>3. QED
      BY <2>2, <3>1, <3>2 DEF Gastados
  <2>5. QED
    BY <1>1, <2>3, <2>4
<1>5. \/ UNCHANGED enlaces
      \/ \E p \in Peticiones : InsertLink(p) \/ ConsumeLink(p)
      \/ \E p \in Peticiones, c \in Correos : VoidLinks(p, c)
  BY DEF AccountsNext, accountVars, Interrumpir, CreateUser, SetStatusOrRole, AcceptInvitation,
         SupersedeInvitations, InsertInvitation, RegisterCheck, CheckChange, CheckInvitation,
         OpenInvitation, PeekLink, ChangeInvitation, Expire
<1>6. QED
  BY <1>1, <1>2, <1>3, <1>4, <1>5

(* A recovery link works once, and never after a later one was asked for.  *)
THEOREM ALinkWorksOnce == AccountsSpec => []LinksWorkOnce
<1>1. AccountsInit => Gastados
  BY DEF AccountsInit, Gastados
<1>2. AccountsTypeOK /\ Gastados => LinksWorkOnce
  <2> SUFFICES ASSUME AccountsTypeOK, Gastados, NEW n \in DOMAIN enlaces
               PROVE  enlaces[n].usos <= IF enlaces[n].anulado THEN 0 ELSE 1
    BY DEF LinksWorkOnce
  <2>1. (enlaces[n].anulado => enlaces[n].usos = 0) /\ enlaces[n].usos <= 1
    BY DEF Gastados
  <2>2. QED
    BY <2>1
<1>3. QED
  BY <1>1, <1>2, NextSpent, AccountsTypes, PTL DEF AccountsSpec

-----------------------------------------------------------------------------
(***************************************************************************)
(* SheetFiles, for every set of names, every number of requests and jobs,  *)
(* and every bound.                                                        *)
(***************************************************************************)

-----------------------------------------------------------------------------
(* Types. *)

Hojas == [Nombres -> Nat]
Manifiesto == [hojas : SUBSET Nombres, nombre : Nat]
Aparte == [hoja : Nombres, contenido : Nat]
Leyendo == [paso : {"leyendo"}, fallo : {FALSE}, manifiesto : Manifiesto, hojas : Hojas]
Trabajo == {Ocioso, SinLeer, [paso |-> "encolado", fallo |-> FALSE]} \cup Leyendo
Campos == [paso : {"comprobada", "sube", "ingiere", "encola"}, que : {"varias", "una", "retirar"},
           reemplazos : Seq(Nombres), nuevas : Seq(Nombres), antes : Hojas,
           manifiesto : Manifiesto, escrito : Manifiesto, guardadas : Seq(Nombres),
           apartadas : Seq(Aparte)]
Cambio == {s \in Campos : s.paso = "sube" => s.reemplazos # <<>>}
Nombra == [paso : {"leida"}, que : {"nombre"}, manifiesto : Manifiesto]

SheetsTypeOK ==
  /\ hojas \in Hojas /\ manifiesto \in Manifiesto /\ leido \in Hojas
  /\ trabajo \in Trabajo
  /\ solicitud \in [Solicitudes -> {Quieta} \cup Cambio \cup Nombra]
  /\ llegadas \in [solicitudes : Nat, trabajos : Nat]
  /\ intercalado \in BOOLEAN /\ pisada \in BOOLEAN /\ encontrados \in BOOLEAN

-----------------------------------------------------------------------------
(* The inductive invariant. *)

Nadie == \A r \in Solicitudes : ~Cambiando(r)
Apartada(s, n) == \E a \in ToSet(s.apartadas) : a.hoja = n
Guardada(s, n) == n \in ToSet(s.guardadas)
PorCambiar(s) == ToSet(s.reemplazos)

(* What a change has done so far to the sheets it found.                   *)
HojasEn(s, hs) ==
  \A n \in Nombres :
    /\ Guardada(s, n) => hs[n] # NoEsta
    /\ ~Guardada(s, n) => hs[n] = IF Apartada(s, n) THEN NoEsta ELSE s.antes[n]
ApartadasEn(s) == \A a \in ToSet(s.apartadas) : a.contenido = s.antes[a.hoja]
(* A sheet set aside is saved again, or is next to be, or is retired; and  *)
(* what was saved took the place of one, or is new.                        *)
ParejasEn(s) ==
  \A n \in Nombres :
    /\ Apartada(s, n) =>
         \/ Guardada(s, n) \/ s.que = "retirar"
         \/ s.paso = "sube" /\ n = Head(s.reemplazos)
    /\ Guardada(s, n) => Apartada(s, n) \/ (s.que = "varias" /\ s.antes[n] = NoEsta)
Distintos(f) == \A i, j \in DOMAIN f : f[i] = f[j] => i = j
PorHacerEn(s) ==
  /\ Distintos(s.reemplazos)
  /\ \A n \in PorCambiar(s) : ~Guardada(s, n)
  /\ s.nuevas # <<>> => s.que = "varias"
  /\ s.paso = "sube" =>
       /\ s.que # "retirar" /\ s.reemplazos # <<>> /\ Apartada(s, Head(s.reemplazos))
QuedanEn(s) ==
  \E n \in Nombres :
    /\ s.antes[n] # NoEsta
    /\ s.que = "retirar" => ~Apartada(s, n) /\ n \notin PorCambiar(s)
CambioEn(s, hs) ==
  HojasEn(s, hs) /\ ApartadasEn(s) /\ ParejasEn(s) /\ PorHacerEn(s) /\ QuedanEn(s)

(* One change at a time. *)
Solitarios ==
  ~encontrados =>
    /\ \A r, x \in Solicitudes : Cambiando(r) /\ Cambiando(x) => r = x
    /\ \A r \in Solicitudes : Cambiando(r) => CambioEn(solicitud[r], hojas)
    /\ Nadie => Presentes(hojas) # {}

(* No job while the sheets change. *)
Alternan == ~intercalado => ~Activo \/ Nadie

(* The published run was made of the sheets, or of those that the change   *)
(* in progress found.                                                      *)
Leidas ==
  ~encontrados /\ ~intercalado =>
    /\ trabajo.paso = "leyendo" => trabajo.hojas = hojas
    /\ ~Activo /\ ~trabajo.fallo =>
         /\ Nadie => leido = hojas
         /\ \A r \in Solicitudes : Cambiando(r) => leido = solicitud[r].antes

(* The manifest names the sheets, or those that the change in progress     *)
(* found, and the picture taken of it names those.                         *)
Nombradas ==
  ~encontrados /\ ~intercalado /\ ~pisada =>
    /\ Nadie => manifiesto.hojas = Presentes(hojas)
    /\ \A r \in Solicitudes : Cambiando(r) =>
         /\ solicitud[r].manifiesto.hojas = Presentes(solicitud[r].antes)
         /\ manifiesto.hojas = IF solicitud[r].paso = "encola" THEN Presentes(hojas)
                               ELSE Presentes(solicitud[r].antes)

-----------------------------------------------------------------------------
(* Requests, sequences and sheets. *)

LEMMA Clases ==
  ASSUME SheetsTypeOK, NEW r \in Solicitudes
  PROVE  /\ Cambiando(r) <=> solicitud[r] \in Cambio
         /\ solicitud[r].paso \in {"comprobada", "sube", "ingiere", "encola"} => solicitud[r] \in Cambio
         /\ solicitud[r].paso = "leida" => solicitud[r] \in Nombra
         /\ solicitud[r] = Quieta => ~Cambiando(r)
<1>1. \A t \in Cambio : t.paso # "libre" /\ t.paso # "leida" /\ t.que # "nombre"
  BY DEF Cambio, Campos
<1>2. \A t \in Nombra : t.paso = "leida" /\ t.que = "nombre" /\ t \notin Cambio
  BY DEF Nombra, Cambio, Campos
<1>3. Quieta.paso = "libre" /\ Quieta \notin Cambio
  BY <1>1 DEF Quieta
<1>4. solicitud[r] = Quieta \/ solicitud[r] \in Cambio \/ solicitud[r] \in Nombra
  BY DEF SheetsTypeOK
<1>5. QED
  BY <1>1, <1>2, <1>3, <1>4 DEF Cambiando

LEMMA EnFila ==
  ASSUME NEW S \in SUBSET Nombres
  PROVE  /\ SetToSeq(S) \in Seq(Nombres)
         /\ \A i \in DOMAIN SetToSeq(S) : SetToSeq(S)[i] \in S
         /\ Distintos(SetToSeq(S))
         /\ S = {} => SetToSeq(S) = <<>>
<1> DEFINE n == Cardinality(S)
           f == SetToSeq(S)
<1>1. IsFiniteSet(S)
  BY SheetFilesAssumption, FS_Subset
<1>2. n \in Nat /\ ExistsBijection(1..n, S)
  BY <1>1, FS_CardinalityType
<1>3. \E g \in [1..n -> S] : IsInjective(g)
  BY <1>2 DEF ExistsBijection, Bijection, Injection, IsInjective
<1>4. f \in [1..n -> S] /\ IsInjective(f)
  BY <1>3 DEF SetToSeq
<1> HIDE DEF f
<1>5. f \in Seq(Nombres) /\ DOMAIN f = 1..n
  BY <1>2, <1>4, SeqDef
<1>6. S = {} => n = 0
  BY FS_EmptySet
<1>7. S = {} => f = <<>>
  <2> SUFFICES ASSUME S = {} PROVE f = <<>>
    OBVIOUS
  <2>1. DOMAIN f = {}
    BY <1>5, <1>6
  <2>2. QED
    BY <1>5, <2>1, EmptySeq, LenProperties
<1>8. QED
  BY <1>4, <1>5, <1>7 DEF IsInjective, Distintos, f

LEMMA Cambian ==
  ASSUME SheetsTypeOK, NEW r \in Solicitudes, NEW t, Es(r, t)
  PROVE  solicitud'[r] = t /\ \A x \in Solicitudes : x # r => solicitud'[x] = solicitud[x]
  BY DEF SheetsTypeOK, Es

(* Sheets set aside come back. *)
LEMMA Vuelven ==
  ASSUME NEW antes \in Hojas, NEW hs \in Hojas, NEW A \in SUBSET Aparte,
         \A a \in A : a.contenido = antes[a.hoja]
  PROVE  /\ Vuelve(hs, A) \in Hojas
         /\ \A n \in Nombres : Vuelve(hs, A)[n] = IF \E a \in A : a.hoja = n THEN antes[n] ELSE hs[n]
<1>1. \A n \in Nombres : (\E a \in A : a.hoja = n) =>
         (CHOOSE a \in A : a.hoja = n).contenido = antes[n]
  OBVIOUS
<1>2. \A n \in Nombres : Vuelve(hs, A)[n] = IF \E a \in A : a.hoja = n THEN antes[n] ELSE hs[n]
  BY <1>1 DEF Vuelve
<1>3. \A n \in Nombres : Vuelve(hs, A)[n] \in Nat
  BY <1>2 DEF Hojas
<1>4. QED
  BY <1>2, <1>3 DEF Vuelve, Hojas

LEMMA TiposDeCambio ==
  ASSUME NEW s \in Cambio
  PROVE  /\ s.reemplazos \in Seq(Nombres) /\ s.nuevas \in Seq(Nombres) /\ s.antes \in Hojas
         /\ s.guardadas \in Seq(Nombres) /\ s.apartadas \in Seq(Aparte)
         /\ s.manifiesto \in Manifiesto /\ s.escrito \in Manifiesto
         /\ ToSet(s.guardadas) \subseteq Nombres /\ ToSet(s.apartadas) \subseteq Aparte
         /\ s.reemplazos # <<>> => Head(s.reemplazos) \in Nombres /\ Tail(s.reemplazos) \in Seq(Nombres)
         /\ s.nuevas # <<>> => Head(s.nuevas) \in Nombres /\ Tail(s.nuevas) \in Seq(Nombres)
         /\ s.que \in {"varias", "una", "retirar"}
<1>1. /\ s.reemplazos \in Seq(Nombres) /\ s.nuevas \in Seq(Nombres) /\ s.antes \in Hojas
      /\ s.guardadas \in Seq(Nombres) /\ s.apartadas \in Seq(Aparte)
      /\ s.manifiesto \in Manifiesto /\ s.escrito \in Manifiesto
      /\ s.que \in {"varias", "una", "retirar"}
  BY DEF Cambio, Campos
<1>2. ToSet(s.guardadas) \subseteq Nombres /\ ToSet(s.apartadas) \subseteq Aparte
  BY <1>1, LenProperties, ElementOfSeq DEF ToSet
<1>3. QED
  BY <1>1, <1>2, HeadTailProperties

(* A change that is undone, wherever it is, leaves the sheets it found. *)
LEMMA SeDeshace ==
  ASSUME NEW s \in Cambio, NEW hs \in Hojas, CambioEn(s, hs)
  PROVE  (IF s.que = "varias" THEN Deshacer(hs, ToSet(s.guardadas), ToSet(s.apartadas))
          ELSE Vuelve(hs, ToSet(s.apartadas))) = s.antes
<1> DEFINE G == ToSet(s.guardadas)
           A == ToSet(s.apartadas)
           sin == [n \in Nombres |-> IF n \in G THEN NoEsta ELSE hs[n]]
           B == {a \in A : sin[a.hoja] = NoEsta}
<1>1. s.antes \in Hojas /\ A \subseteq Aparte
  BY TiposDeCambio
<1>2. \A a \in A : a.contenido = s.antes[a.hoja]
  BY DEF CambioEn, ApartadasEn
<1>3. \A n \in Nombres : Apartada(s, n) <=> \E a \in A : a.hoja = n
  BY DEF Apartada
<1>4. sin \in Hojas
  BY DEF Hojas, NoEsta
<1>5. \A n \in Nombres : sin[n] = IF Apartada(s, n) \/ n \in G THEN NoEsta ELSE s.antes[n]
  BY DEF CambioEn, HojasEn, Guardada
<1>6. \A n \in Nombres : n \in G => Apartada(s, n) \/ (s.que = "varias" /\ s.antes[n] = NoEsta)
  BY DEF CambioEn, ParejasEn, Guardada
<1>7. CASE s.que = "varias"
  <2>1. Deshacer(hs, G, A) = Vuelve(sin, B)
    BY DEF Deshacer
  <2>2. B \subseteq Aparte /\ \A a \in B : a.contenido = s.antes[a.hoja]
    BY <1>1, <1>2
  <2>3. \A n \in Nombres : Apartada(s, n) <=> \E a \in B : a.hoja = n
    BY <1>3, <1>5
  <2> HIDE DEF sin, B, A, G
  <2>4. /\ Vuelve(sin, B) \in Hojas
        /\ \A n \in Nombres :
             Vuelve(sin, B)[n] = IF \E a \in B : a.hoja = n THEN s.antes[n] ELSE sin[n]
    BY <1>1, <1>4, <2>2, Vuelven
  <2>5. \A n \in Nombres : Vuelve(sin, B)[n] = s.antes[n]
    BY <1>5, <1>6, <2>3, <2>4
  <2>6. Vuelve(sin, B) = s.antes
    BY <1>1, <2>4, <2>5 DEF Hojas
  <2>7. QED
    BY <1>7, <2>1, <2>6 DEF A, G
<1>8. CASE s.que # "varias"
  <2> HIDE DEF sin, B, A, G
  <2>1. /\ Vuelve(hs, A) \in Hojas
        /\ \A n \in Nombres :
             Vuelve(hs, A)[n] = IF \E a \in A : a.hoja = n THEN s.antes[n] ELSE hs[n]
    BY <1>1, <1>2, Vuelven
  <2>2. \A n \in Nombres : ~Apartada(s, n) => n \notin G
    BY <1>6, <1>8
  <2>3. \A n \in Nombres : ~Apartada(s, n) => hs[n] = s.antes[n]
    BY <2>2 DEF CambioEn, HojasEn, Guardada, G
  <2>4. \A n \in Nombres : Vuelve(hs, A)[n] = s.antes[n]
    BY <1>3, <2>1, <2>3
  <2>5. Vuelve(hs, A) = s.antes
    BY <1>1, <2>1, <2>4 DEF Hojas
  <2>6. QED
    BY <1>8, <2>5 DEF A
<1>9. QED
  BY <1>7, <1>8

-----------------------------------------------------------------------------
(* What each step of a change makes of it. *)

LEMMA AlFinal ==
  ASSUME NEW S, NEW f \in Seq(S), NEW e \in S
  PROVE  ToSet(Append(f, e)) = ToSet(f) \cup {e}
<1>1. /\ Append(f, e) \in Seq(S) /\ Len(Append(f, e)) = Len(f) + 1 /\ Len(f) \in Nat
      /\ \A i \in 1..Len(f) : Append(f, e)[i] = f[i]
      /\ Append(f, e)[Len(f) + 1] = e
      /\ DOMAIN f = 1..Len(f)
  BY AppendProperties, LenProperties
<1>2. DOMAIN Append(f, e) = 1..(Len(f) + 1)
  BY <1>1, LenProperties
<1>3. \A i \in DOMAIN Append(f, e) : i \in DOMAIN f \/ i = Len(f) + 1
  BY <1>1, <1>2
<1>4. Len(f) + 1 \in DOMAIN Append(f, e) /\ \A i \in DOMAIN f : i \in DOMAIN Append(f, e)
  BY <1>1, <1>2
<1>5. QED
  BY <1>1, <1>3, <1>4 DEF ToSet

LEMMA LoQueSigue ==
  ASSUME NEW f \in Seq(Nombres), f # <<>>, Distintos(f)
  PROVE  /\ Head(f) \in ToSet(f) /\ ToSet(Tail(f)) \subseteq ToSet(f)
         /\ Head(f) \notin ToSet(Tail(f)) /\ Distintos(Tail(f))
<1>1. /\ Len(f) \in Nat /\ Len(f) # 0 /\ DOMAIN f = 1..Len(f) /\ Head(f) = f[1]
  BY EmptySeq, LenProperties
<1>2. /\ Tail(f) \in Seq(Nombres) /\ Len(Tail(f)) = Len(f) - 1
      /\ \A i \in 1..Len(Tail(f)) : Tail(f)[i] = f[i + 1]
  BY HeadTailProperties
<1>3. DOMAIN Tail(f) = 1..(Len(f) - 1)
  BY <1>2, LenProperties
<1>4. \A i \in DOMAIN Tail(f) : i + 1 \in DOMAIN f /\ i + 1 # 1 /\ Tail(f)[i] = f[i + 1]
  BY <1>1, <1>2, <1>3
<1>5. 1 \in DOMAIN f
  BY <1>1
<1>6. \A i, j \in DOMAIN Tail(f) : i + 1 = j + 1 => i = j
  BY <1>1, <1>3
<1>7. QED
  BY <1>1, <1>4, <1>5, <1>6 DEF ToSet, Distintos

(* It begins. *)
LEMMA SeEmpieza ==
  ASSUME NEW t \in Cambio, NEW hs \in Hojas, t.antes = hs, t.paso = "comprobada",
         t.guardadas = <<>>, t.apartadas = <<>>,
         Distintos(t.reemplazos), t.nuevas # <<>> => t.que = "varias",
         \E n \in Nombres : hs[n] # NoEsta /\ (t.que = "retirar" => n \notin ToSet(t.reemplazos))
  PROVE  CambioEn(t, hs)
<1>1. ToSet(t.guardadas) = {} /\ ToSet(t.apartadas) = {}
  <2>1. DOMAIN <<>> = {}
    OBVIOUS
  <2>2. QED
    BY <2>1 DEF ToSet
<1>2. HojasEn(t, hs) /\ ApartadasEn(t)
  BY <1>1 DEF HojasEn, ApartadasEn, Guardada, Apartada
<1>3. ParejasEn(t) /\ PorHacerEn(t)
  BY <1>1 DEF ParejasEn, PorHacerEn, Guardada, Apartada
<1>4. QuedanEn(t)
  BY <1>1 DEF QuedanEn, Apartada, PorCambiar
<1>5. QED
  BY <1>2, <1>3, <1>4 DEF CambioEn

(* It goes on to another step. *)
LEMMA SeSigue ==
  ASSUME NEW s \in Cambio, NEW t \in Cambio, NEW hs \in Hojas, CambioEn(s, hs),
         t.que = s.que, t.reemplazos = s.reemplazos, t.nuevas = s.nuevas, t.antes = s.antes,
         t.guardadas = s.guardadas, t.apartadas = s.apartadas,
         s.paso # "sube", t.paso # "sube"
  PROVE  CambioEn(t, hs)
<1>1. HojasEn(t, hs) /\ ApartadasEn(t)
  BY DEF CambioEn, HojasEn, ApartadasEn, Guardada, Apartada
<1>2. ParejasEn(t) /\ PorHacerEn(t)
  BY DEF CambioEn, ParejasEn, PorHacerEn, Guardada, Apartada, PorCambiar
<1>3. QuedanEn(t)
  BY DEF CambioEn, QuedanEn, Apartada, PorCambiar
<1>4. QED
  BY <1>1, <1>2, <1>3 DEF CambioEn

(* It sets a sheet aside. *)
LEMMA SeAparta ==
  ASSUME NEW s \in Cambio, NEW t \in Cambio, NEW hs \in Hojas, CambioEn(s, hs),
         s.paso = "comprobada", s.reemplazos # <<>>,
         NEW n \in Nombres, n = Head(s.reemplazos), hs[n] # NoEsta,
         t.que = s.que, t.nuevas = s.nuevas, t.antes = s.antes, t.guardadas = s.guardadas,
         t.apartadas = Append(s.apartadas, [hoja |-> n, contenido |-> hs[n]]),
         t.reemplazos = IF s.que = "retirar" THEN <<>> ELSE s.reemplazos,
         t.paso = IF s.que = "retirar" THEN "ingiere" ELSE "sube"
  PROVE  CambioEn(t, [hs EXCEPT ![n] = NoEsta])
<1> DEFINE a == [hoja |-> n, contenido |-> hs[n]]
           hs2 == [hs EXCEPT ![n] = NoEsta]
<1>1. a \in Aparte /\ a.hoja = n /\ a.contenido = hs[n]
  BY DEF Aparte, Hojas
<1>2. t.apartadas = Append(s.apartadas, a)
  OBVIOUS
<1> HIDE DEF a
<1>3. ToSet(t.apartadas) = ToSet(s.apartadas) \cup {a}
  BY <1>1, <1>2, TiposDeCambio, AlFinal
<1>4. \A m \in Nombres : Apartada(t, m) <=> Apartada(s, m) \/ m = n
  BY <1>1, <1>3 DEF Apartada
<1>5. \A m \in Nombres : Guardada(t, m) <=> Guardada(s, m)
  BY DEF Guardada
<1>6. s.reemplazos \in Seq(Nombres) /\ Distintos(s.reemplazos)
  BY TiposDeCambio DEF CambioEn, PorHacerEn
<1>7. n \in PorCambiar(s) /\ ~Guardada(s, n)
  BY <1>6, LoQueSigue DEF CambioEn, PorHacerEn, PorCambiar
<1>8. ~Apartada(s, n) /\ hs[n] = s.antes[n]
  BY <1>7 DEF CambioEn, HojasEn
<1>9. hs2[n] = NoEsta /\ \A m \in Nombres : m # n => hs2[m] = hs[m]
  BY DEF Hojas
<1> HIDE DEF hs2
<1>10. HojasEn(t, hs2)
  BY <1>4, <1>5, <1>7, <1>9 DEF CambioEn, HojasEn
<1>11. ApartadasEn(t)
  BY <1>1, <1>3, <1>8 DEF CambioEn, ApartadasEn
<1>12. ParejasEn(t)
  BY <1>4, <1>5 DEF CambioEn, ParejasEn
<1>13. PorHacerEn(t)
  <2>1. CASE s.que = "retirar"
    <3>1. DOMAIN <<>> = {}
      OBVIOUS
    <3>2. QED
      BY <2>1, <3>1 DEF CambioEn, PorHacerEn, Distintos, PorCambiar, ToSet
  <2>2. CASE s.que # "retirar"
    BY <1>4, <1>5, <2>2 DEF CambioEn, PorHacerEn, PorCambiar, Guardada
  <2>3. QED
    BY <2>1, <2>2
<1>14. QuedanEn(t)
  <2>1. PICK m \in Nombres : /\ s.antes[m] # NoEsta
                             /\ s.que = "retirar" => ~Apartada(s, m) /\ m \notin PorCambiar(s)
    BY DEF CambioEn, QuedanEn
  <2>2. s.que = "retirar" => ~Apartada(t, m) /\ m \notin PorCambiar(t)
    <3>1. DOMAIN <<>> = {}
      OBVIOUS
    <3>2. s.que = "retirar" => PorCambiar(t) = {}
      BY <3>1 DEF PorCambiar, ToSet
    <3>3. QED
      BY <1>4, <1>7, <2>1, <3>2
  <2>3. QED
    BY <2>1, <2>2 DEF QuedanEn
<1>15. QED
  BY <1>10, <1>11, <1>12, <1>13, <1>14 DEF CambioEn, hs2

(* It saves the revision of the sheet that it set aside. *)
LEMMA SeRevisa ==
  ASSUME NEW s \in Cambio, NEW t \in Cambio, NEW hs \in Hojas, CambioEn(s, hs),
         s.paso = "sube", NEW n \in Nombres, n = Head(s.reemplazos), NEW c \in Nat, c # NoEsta,
         t.que = s.que, t.nuevas = s.nuevas, t.antes = s.antes, t.apartadas = s.apartadas,
         t.guardadas = Append(s.guardadas, n), t.reemplazos = Tail(s.reemplazos),
         t.paso = "comprobada"
  PROVE  CambioEn(t, [hs EXCEPT ![n] = c])
<1> DEFINE hs2 == [hs EXCEPT ![n] = c]
<1>1. \A m \in Nombres : Apartada(t, m) <=> Apartada(s, m)
  BY DEF Apartada
<1>2. ToSet(t.guardadas) = ToSet(s.guardadas) \cup {n}
  BY TiposDeCambio, AlFinal
<1>3. \A m \in Nombres : Guardada(t, m) <=> Guardada(s, m) \/ m = n
  BY <1>2 DEF Guardada
<1>4. /\ s.reemplazos \in Seq(Nombres) /\ Distintos(s.reemplazos) /\ s.reemplazos # <<>>
      /\ s.que # "retirar" /\ Apartada(s, n)
  BY TiposDeCambio DEF CambioEn, PorHacerEn
<1>5. /\ PorCambiar(t) \subseteq PorCambiar(s) /\ n \notin PorCambiar(t)
      /\ Distintos(t.reemplazos)
  BY <1>4, LoQueSigue DEF PorCambiar
<1>6. hs2[n] = c /\ \A m \in Nombres : m # n => hs2[m] = hs[m]
  BY DEF Hojas
<1>7. PorCambiar(s) \subseteq Nombres
  BY <1>4, LenProperties, ElementOfSeq DEF PorCambiar, ToSet
<1> HIDE DEF hs2
<1>8. HojasEn(t, hs2)
  BY <1>1, <1>3, <1>6 DEF CambioEn, HojasEn
<1>9. ApartadasEn(t)
  BY DEF CambioEn, ApartadasEn
<1>10. ParejasEn(t)
  BY <1>1, <1>3, <1>4 DEF CambioEn, ParejasEn
<1>11. PorHacerEn(t)
  BY <1>3, <1>5, <1>7 DEF CambioEn, PorHacerEn
<1>12. QuedanEn(t)
  BY <1>4 DEF CambioEn, QuedanEn
<1>13. QED
  BY <1>8, <1>9, <1>10, <1>11, <1>12 DEF CambioEn, hs2

(* It saves a new sheet. *)
LEMMA SeAgrega ==
  ASSUME NEW s \in Cambio, NEW t \in Cambio, NEW hs \in Hojas, CambioEn(s, hs),
         s.paso = "comprobada", s.reemplazos = <<>>, s.nuevas # <<>>,
         NEW n \in Nombres, n = Head(s.nuevas), hs[n] = NoEsta, NEW c \in Nat, c # NoEsta,
         t.que = s.que, t.nuevas = Tail(s.nuevas), t.antes = s.antes, t.apartadas = s.apartadas,
         t.guardadas = Append(s.guardadas, n), t.reemplazos = s.reemplazos, t.paso = s.paso
  PROVE  CambioEn(t, [hs EXCEPT ![n] = c])
<1> DEFINE hs2 == [hs EXCEPT ![n] = c]
<1>1. \A m \in Nombres : Apartada(t, m) <=> Apartada(s, m)
  BY DEF Apartada
<1>g. s.guardadas \in Seq(Nombres)
  BY TiposDeCambio
<1>2. ToSet(t.guardadas) = ToSet(s.guardadas) \cup {n}
  BY <1>g, AlFinal
<1>3. \A m \in Nombres : Guardada(t, m) <=> Guardada(s, m) \/ m = n
  BY <1>2 DEF Guardada
<1>4. s.que = "varias" /\ ~Guardada(s, n)
  BY DEF CambioEn, PorHacerEn, HojasEn
<1>5. ~Apartada(s, n)
  BY <1>4 DEF CambioEn, ParejasEn
<1>6. s.antes[n] = NoEsta
  BY <1>4, <1>5 DEF CambioEn, HojasEn
<1>7. hs2[n] = c /\ \A m \in Nombres : m # n => hs2[m] = hs[m]
  BY DEF Hojas
<1>8. PorCambiar(t) = {}
  <2>1. DOMAIN <<>> = {}
    OBVIOUS
  <2>2. QED
    BY <2>1 DEF PorCambiar, ToSet
<1> HIDE DEF hs2
<1>9. HojasEn(t, hs2)
  BY <1>1, <1>3, <1>7 DEF CambioEn, HojasEn
<1>10. ApartadasEn(t)
  BY DEF CambioEn, ApartadasEn
<1>11. ParejasEn(t)
  BY <1>1, <1>3, <1>4, <1>6 DEF CambioEn, ParejasEn
<1>12. PorHacerEn(t)
  BY <1>4, <1>8 DEF CambioEn, PorHacerEn
<1>13. QuedanEn(t)
  BY <1>4 DEF CambioEn, QuedanEn
<1>14. QED
  BY <1>9, <1>10, <1>11, <1>12, <1>13 DEF CambioEn, hs2

(* It has changed nothing yet, and it has changed all it had to. *)
LEMMA SinCambios ==
  ASSUME NEW s \in Cambio, NEW hs \in Hojas, CambioEn(s, hs),
         s.guardadas = <<>>, s.apartadas = <<>>
  PROVE  hs = s.antes
<1>1. ToSet(s.guardadas) = {} /\ ToSet(s.apartadas) = {}
  <2>1. DOMAIN <<>> = {}
    OBVIOUS
  <2>2. QED
    BY <2>1 DEF ToSet
<1>2. \A n \in Nombres : hs[n] = s.antes[n]
  BY <1>1 DEF CambioEn, HojasEn, Guardada, Apartada
<1>3. QED
  BY <1>2, TiposDeCambio DEF Hojas

LEMMA SinDejarVacio ==
  ASSUME NEW s \in Cambio, NEW hs \in Hojas, CambioEn(s, hs)
  PROVE  /\ Presentes(s.antes) # {}
         /\ s.paso # "sube" => Presentes(hs) # {}
<1>1. PICK n \in Nombres : s.antes[n] # NoEsta /\ (s.que = "retirar" => ~Apartada(s, n))
  BY DEF CambioEn, QuedanEn
<1>2. s.paso # "sube" => hs[n] # NoEsta
  BY <1>1 DEF CambioEn, HojasEn, ParejasEn
<1>3. QED
  BY <1>1, <1>2 DEF Presentes

-----------------------------------------------------------------------------
(* The actions, as what each makes of the sheets, of the manifest and of   *)
(* the request.                                                            *)

LEMMA EnCurso ==
  ASSUME NEW s \in {Quieta} \cup Cambio \cup Nombra
  PROVE  (s # Quieta /\ s.que # "nombre") <=> s \in Cambio
<1>1. \A t \in Cambio : t.paso # "libre" /\ t.que # "nombre"
  BY DEF Cambio, Campos
<1>2. \A t \in Nombra : t.que = "nombre"
  BY DEF Nombra
<1>3. Quieta.paso = "libre"
  BY DEF Quieta
<1>4. QED
  BY <1>1, <1>2, <1>3

LEMMA Despues ==
  ASSUME SheetsTypeOK, NEW r \in Solicitudes, NEW t \in {Quieta} \cup Cambio \cup Nombra, Es(r, t)
  PROVE  /\ solicitud'[r] = t /\ (Cambiando(r)' <=> t \in Cambio)
         /\ \A x \in Solicitudes :
              x # r => solicitud'[x] = solicitud[x] /\ (Cambiando(x)' <=> Cambiando(x))
         /\ solicitud' \in [Solicitudes -> {Quieta} \cup Cambio \cup Nombra]
<1>1. solicitud'[r] = t /\ \A x \in Solicitudes : x # r => solicitud'[x] = solicitud[x]
  BY Cambian
<1>2. Cambiando(r)' <=> t \in Cambio
  BY <1>1, EnCurso DEF Cambiando
<1>3. \A x \in Solicitudes : x # r => (Cambiando(x)' <=> Cambiando(x))
  BY <1>1 DEF Cambiando
<1>4. solicitud' \in [Solicitudes -> {Quieta} \cup Cambio \cup Nombra]
  BY DEF SheetsTypeOK, Es
<1>5. QED
  BY <1>1, <1>2, <1>3, <1>4

(* A change begins. *)
Empieza(r) ==
  \E t \in Cambio :
    /\ solicitud[r] = Quieta /\ ~Activo /\ Es(r, t)
    /\ t.antes = hojas /\ t.manifiesto = manifiesto /\ t.paso = "comprobada"
    /\ Presentes(hojas) # {} => CambioEn(t, hojas)
    /\ encontrados' = (encontrados \/ \E x \in Solicitudes : Cambiando(x))
    /\ llegadas' = [llegadas EXCEPT !.solicitudes = @ + 1]
    /\ UNCHANGED <<hojas, manifiesto, leido, trabajo, intercalado, pisada>>

(* It goes on, and ends with an ingestion that writes the manifest. *)
Avanza(r) ==
  \E t \in Cambio :
    /\ solicitud[r] \in Cambio /\ solicitud[r].paso # "encola" /\ Es(r, t)
    /\ t.antes = solicitud[r].antes /\ hojas' \in Hojas
    /\ CambioEn(solicitud[r], hojas) => CambioEn(t, hojas')
    /\ \/ /\ t.paso # "encola" /\ manifiesto' = manifiesto
          /\ t.manifiesto \in {solicitud[r].manifiesto, manifiesto}
       \/ /\ t.paso = "encola" /\ hojas' = hojas /\ t.manifiesto = solicitud[r].manifiesto
          /\ manifiesto' = Nombrar(hojas, manifiesto.nombre)
    /\ UNCHANGED <<leido, trabajo, llegadas, flagsH>>

(* It is over, undone or refused. *)
Abandona(r) ==
  /\ solicitud[r] \in Cambio /\ Es(r, Quieta) /\ hojas' \in Hojas
  /\ CambioEn(solicitud[r], hojas) => hojas' = solicitud[r].antes
  /\ \/ manifiesto' = manifiesto /\ solicitud[r].paso # "encola"
     \/ manifiesto' = solicitud[r].manifiesto
  /\ pisada => pisada'
  /\ pisada' \in BOOLEAN
  /\ UNCHANGED <<leido, trabajo, llegadas, intercalado, encontrados>>

LEMMA SePuedeEmpezar ==
  ASSUME SheetsTypeOK, NEW r \in Solicitudes, NEW que \in {"varias", "una", "retirar"},
         NEW fr \in Seq(Nombres), NEW fn \in Seq(Nombres), Empezar(r, que, fr, fn),
         Distintos(fr), fn # <<>> => que = "varias",
         Presentes(hojas) # {} =>
           \E n \in Nombres : hojas[n] # NoEsta /\ (que = "retirar" => n \notin ToSet(fr))
  PROVE  Empieza(r)
<1> DEFINE t == [paso |-> "comprobada", que |-> que, reemplazos |-> fr, nuevas |-> fn,
                 antes |-> hojas, manifiesto |-> manifiesto, escrito |-> manifiesto,
                 guardadas |-> <<>>, apartadas |-> <<>>]
<1>1. /\ t.paso = "comprobada" /\ t.que = que /\ t.reemplazos = fr /\ t.nuevas = fn
      /\ t.antes = hojas /\ t.manifiesto = manifiesto
      /\ t.guardadas = <<>> /\ t.apartadas = <<>>
  OBVIOUS
<1>2. <<>> \in Seq(Nombres) /\ <<>> \in Seq(Aparte)
  OBVIOUS
<1>3. t \in Cambio
  BY <1>2 DEF Cambio, Campos, SheetsTypeOK
<1>4. Es(r, t) /\ solicitud[r] = Quieta /\ ~Activo
  BY DEF Empezar, SinTrabajoActivo, Llega
<1> HIDE DEF t
<1>5. Presentes(hojas) # {} => CambioEn(t, hojas)
  BY <1>1, <1>3, SeEmpieza DEF SheetsTypeOK
<1>6. QED
  BY <1>1, <1>3, <1>4, <1>5 DEF Empieza, Empezar

LEMMA Empiezan ==
  ASSUME SheetsTypeOK, NEW r \in Solicitudes,
         AddProjectFiles(r) \/ ReplaceProjectFile(r) \/ RetireProjectFile(r)
  PROVE  Empieza(r)
<1>1. CASE AddProjectFiles(r)
  <2>1. PICK viejas \in SUBSET Presentes(hojas), nueva \in SUBSET (Nombres \ Presentes(hojas)) :
          Empezar(r, "varias", SetToSeq(viejas), SetToSeq(nueva))
    BY <1>1 DEF AddProjectFiles
  <2>2. viejas \in SUBSET Nombres /\ nueva \in SUBSET Nombres
    BY DEF Presentes
  <2>3. /\ SetToSeq(viejas) \in Seq(Nombres) /\ Distintos(SetToSeq(viejas))
        /\ SetToSeq(nueva) \in Seq(Nombres)
    BY <2>2, EnFila
  <2>4. Presentes(hojas) # {} => \E n \in Nombres : hojas[n] # NoEsta
    BY DEF Presentes
  <2>5. QED
    BY <2>1, <2>3, <2>4, SePuedeEmpezar
<1>2. ASSUME NEW n \in Nombres
      PROVE  <<n>> \in Seq(Nombres) /\ ToSet(<<n>>) = {n} /\ Distintos(<<n>>) /\ <<>> \in Seq(Nombres)
  <2>1. /\ <<n>> \in Seq(Nombres) /\ DOMAIN <<n>> = {1} /\ <<n>>[1] = n /\ <<>> \in Seq(Nombres)
    OBVIOUS
  <2>2. QED
    BY <2>1 DEF ToSet, Distintos
<1>3. CASE ReplaceProjectFile(r)
  <2>1. PICK n \in Presentes(hojas) : Empezar(r, "una", <<n>>, <<>>)
    BY <1>3 DEF ReplaceProjectFile
  <2>2. n \in Nombres /\ hojas[n] # NoEsta
    BY DEF Presentes
  <2>3. QED
    BY <1>2, <2>1, <2>2, SePuedeEmpezar
<1>4. CASE RetireProjectFile(r)
  <2>1. PICK n \in Nombres : Retirable(n) /\ Empezar(r, "retirar", <<n>>, <<>>)
    BY <1>4 DEF RetireProjectFile
  <2>2. \E m \in Presentes(hojas) : m # n
    <3>1. SUFFICES ASSUME Presentes(hojas) \subseteq {n} PROVE FALSE
      OBVIOUS
    <3>2. IsFiniteSet({n}) /\ Cardinality({n}) = 1
      BY FS_Singleton
    <3>3. Cardinality(Presentes(hojas)) <= 1
      BY <3>1, <3>2, FS_Subset
    <3>4. Cardinality(Presentes(hojas)) > 1
      BY <2>1 DEF Retirable
    <3>5. Cardinality(Presentes(hojas)) \in Nat
      BY <3>1, <3>2, FS_Subset, FS_CardinalityType
    <3>6. QED
      BY <3>3, <3>4, <3>5
  <2>3. \E m \in Nombres : hojas[m] # NoEsta /\ m \notin ToSet(<<n>>)
    BY <1>2, <2>2 DEF Presentes
  <2>4. QED
    BY <1>2, <2>1, <2>3, SePuedeEmpezar
<1>5. QED
  BY <1>1, <1>3, <1>4

LEMMA AvanzaAlApartar ==
  ASSUME SheetsTypeOK, NEW r \in Solicitudes, Apartar(r)
  PROVE  Avanza(r)
<1> DEFINE s == solicitud[r]
           n == Head(s.reemplazos)
           a == [hoja |-> n, contenido |-> hojas[n]]
           t == [s EXCEPT !.apartadas = Append(@, a),
                          !.reemplazos = IF s.que = "retirar" THEN <<>> ELSE @,
                          !.paso = IF s.que = "retirar" THEN "ingiere" ELSE "sube"]
<1>1. /\ s.paso = "comprobada" /\ s.reemplazos # <<>> /\ hojas[n] # NoEsta
      /\ hojas' = [hojas EXCEPT ![n] = NoEsta] /\ Es(r, t)
      /\ UNCHANGED <<manifiesto, leido, trabajo, llegadas, flagsH>>
  BY DEF Apartar, Por
<1>2. s \in Cambio
  BY <1>1, Clases
<1>3. n \in Nombres /\ s.reemplazos \in Seq(Nombres) /\ s.apartadas \in Seq(Aparte)
  BY <1>1, <1>2, TiposDeCambio
<1>4. a \in Aparte /\ hojas \in Hojas
  BY <1>3 DEF Aparte, Hojas, SheetsTypeOK
<1>5. /\ t.apartadas = Append(s.apartadas, a) /\ t.que = s.que /\ t.nuevas = s.nuevas
      /\ t.antes = s.antes /\ t.guardadas = s.guardadas /\ t.manifiesto = s.manifiesto
      /\ t.reemplazos = IF s.que = "retirar" THEN <<>> ELSE s.reemplazos
      /\ t.paso = IF s.que = "retirar" THEN "ingiere" ELSE "sube"
  BY <1>2 DEF Cambio, Campos
<1>6. Append(s.apartadas, a) \in Seq(Aparte) /\ <<>> \in Seq(Nombres)
  BY <1>3, <1>4
<1>7. t \in Cambio
  <2>1. t.paso \in {"ingiere", "sube"} /\ t.reemplazos \in Seq(Nombres)
    BY <1>3, <1>5, <1>6
  <2>2. t.paso = "sube" => t.reemplazos # <<>>
    BY <1>1, <1>5
  <2>3. /\ t.apartadas \in Seq(Aparte) /\ t.que \in {"varias", "una", "retirar"}
        /\ t.nuevas \in Seq(Nombres) /\ t.antes \in Hojas /\ t.guardadas \in Seq(Nombres)
        /\ t.manifiesto \in Manifiesto
    BY <1>2, <1>5, <1>6, TiposDeCambio
  <2>4. t \in Campos
    BY <1>2, <2>1, <2>3 DEF Cambio, Campos
  <2>5. QED
    BY <2>2, <2>4 DEF Cambio
<1>8. hojas' \in Hojas
  BY <1>1, <1>4 DEF Hojas, NoEsta
<1> HIDE DEF t, s, n
<1>9. CambioEn(s, hojas) => CambioEn(t, hojas')
  BY <1>1, <1>2, <1>3, <1>4, <1>5, <1>7, SeAparta DEF n
<1>10. t.paso # "encola"
  BY <1>5
<1>11. QED
  BY <1>1, <1>2, <1>5, <1>7, <1>8, <1>9, <1>10 DEF Avanza, s

LEMMA AvanzaAlRevisar ==
  ASSUME SheetsTypeOK, NEW r \in Solicitudes, SubirRevision(r)
  PROVE  Avanza(r)
<1> DEFINE s == solicitud[r]
           n == Head(s.reemplazos)
           c == llegadas.solicitudes + 1
           t == [s EXCEPT !.guardadas = Append(@, n), !.reemplazos = Tail(@),
                          !.paso = "comprobada"]
<1>1. /\ s.paso = "sube" /\ hojas' = [hojas EXCEPT ![n] = c] /\ Es(r, t)
      /\ UNCHANGED <<manifiesto, leido, trabajo, llegadas, flagsH>>
  BY DEF SubirRevision, Subir, Por
<1>2. s \in Cambio /\ hojas \in Hojas
  BY <1>1, Clases DEF SheetsTypeOK
<1>3. c \in Nat /\ c # NoEsta
  BY DEF SheetsTypeOK, NoEsta
<1>4. /\ s.reemplazos \in Seq(Nombres) /\ s.guardadas \in Seq(Nombres)
      /\ n \in Nombres /\ Tail(s.reemplazos) \in Seq(Nombres)
  BY <1>1, <1>2, TiposDeCambio DEF Cambio
<1>5. /\ t.guardadas = Append(s.guardadas, n) /\ t.que = s.que /\ t.nuevas = s.nuevas
      /\ t.antes = s.antes /\ t.apartadas = s.apartadas /\ t.manifiesto = s.manifiesto
      /\ t.reemplazos = Tail(s.reemplazos) /\ t.paso = "comprobada"
  BY <1>2 DEF Cambio, Campos
<1>6. Append(s.guardadas, n) \in Seq(Nombres)
  BY <1>4
<1>7. t \in Cambio
  BY <1>2, <1>4, <1>5, <1>6 DEF Cambio, Campos
<1>8. hojas' \in Hojas
  BY <1>1, <1>2, <1>3 DEF Hojas
<1> HIDE DEF t, s, n, c
<1>9. CambioEn(s, hojas) => CambioEn(t, hojas')
  BY <1>1, <1>2, <1>3, <1>4, <1>5, <1>7, SeRevisa DEF n
<1>10. QED
  BY <1>1, <1>2, <1>5, <1>7, <1>8, <1>9 DEF Avanza, s

LEMMA AvanzaAlAgregar ==
  ASSUME SheetsTypeOK, NEW r \in Solicitudes, SubirNueva(r)
  PROVE  Avanza(r)
<1> DEFINE s == solicitud[r]
           n == Head(s.nuevas)
           c == llegadas.solicitudes + 1
           t == [s EXCEPT !.guardadas = Append(@, n), !.nuevas = Tail(@)]
<1>1. /\ s.paso = "comprobada" /\ s.reemplazos = <<>> /\ s.nuevas # <<>> /\ hojas[n] = NoEsta
      /\ hojas' = [hojas EXCEPT ![n] = c] /\ Es(r, t)
      /\ UNCHANGED <<manifiesto, leido, trabajo, llegadas, flagsH>>
  BY DEF SubirNueva, Subir
<1>2. s \in Cambio /\ hojas \in Hojas
  BY <1>1, Clases DEF SheetsTypeOK
<1>3. c \in Nat /\ c # NoEsta
  BY DEF SheetsTypeOK, NoEsta
<1>4. /\ s.guardadas \in Seq(Nombres) /\ n \in Nombres /\ Tail(s.nuevas) \in Seq(Nombres)
  BY <1>1, <1>2, TiposDeCambio
<1>5. /\ t.guardadas = Append(s.guardadas, n) /\ t.que = s.que /\ t.nuevas = Tail(s.nuevas)
      /\ t.antes = s.antes /\ t.apartadas = s.apartadas /\ t.manifiesto = s.manifiesto
      /\ t.reemplazos = s.reemplazos /\ t.paso = s.paso
  BY <1>2 DEF Cambio, Campos
<1>6. Append(s.guardadas, n) \in Seq(Nombres)
  BY <1>4
<1>7. t \in Cambio
  BY <1>1, <1>2, <1>4, <1>5, <1>6 DEF Cambio, Campos
<1>8. hojas' \in Hojas
  BY <1>1, <1>2, <1>3 DEF Hojas
<1> HIDE DEF t, s, n, c
<1>9. CambioEn(s, hojas) => CambioEn(t, hojas')
  BY <1>1, <1>2, <1>3, <1>4, <1>5, <1>7, SeAgrega DEF n
<1>10. QED
  BY <1>1, <1>2, <1>5, <1>7, <1>8, <1>9 DEF Avanza, s

LEMMA AvanzaSubida ==
  ASSUME SheetsTypeOK, NEW r \in Solicitudes, Subida(r)
  PROVE  Avanza(r)
<1> DEFINE s == solicitud[r]
           t == [s EXCEPT !.paso = "ingiere",
                          !.manifiesto = IF s.que = "varias" THEN manifiesto ELSE @,
                          !.escrito = IF s.que = "varias" THEN manifiesto ELSE @]
<1>1. /\ s.paso = "comprobada" /\ Es(r, t)
      /\ UNCHANGED <<hojas, manifiesto, leido, trabajo, llegadas, flagsH>>
  BY DEF Subida
<1>2. s \in Cambio /\ hojas \in Hojas /\ manifiesto \in Manifiesto
  BY <1>1, Clases DEF SheetsTypeOK
<1>3. /\ t.que = s.que /\ t.reemplazos = s.reemplazos /\ t.nuevas = s.nuevas
      /\ t.antes = s.antes /\ t.guardadas = s.guardadas /\ t.apartadas = s.apartadas
      /\ t.paso = "ingiere" /\ t.manifiesto \in {s.manifiesto, manifiesto}
  BY <1>2 DEF Cambio, Campos
<1>4. t \in Cambio
  BY <1>1, <1>2, <1>3 DEF Cambio, Campos
<1> HIDE DEF t, s
<1>5. CambioEn(s, hojas) => CambioEn(t, hojas')
  BY <1>1, <1>2, <1>3, <1>4, SeSigue
<1>6. QED
  BY <1>1, <1>2, <1>3, <1>4, <1>5 DEF Avanza, s

LEMMA AvanzaAlIngerir ==
  ASSUME SheetsTypeOK, NEW r \in Solicitudes, Ingerir(r)
  PROVE  Avanza(r)
<1> DEFINE s == solicitud[r]
           t == [s EXCEPT !.paso = "encola", !.escrito = manifiesto']
<1>1. /\ s.paso = "ingiere" /\ manifiesto' = Nombrar(hojas, manifiesto.nombre) /\ Es(r, t)
      /\ UNCHANGED <<hojas, leido, trabajo, llegadas, flagsH>>
  BY DEF Ingerir
<1>2. s \in Cambio /\ hojas \in Hojas
  BY <1>1, Clases DEF SheetsTypeOK
<1>3. manifiesto' \in Manifiesto
  BY <1>1 DEF SheetsTypeOK, Manifiesto, Nombrar, Presentes
<1>4. /\ t.que = s.que /\ t.reemplazos = s.reemplazos /\ t.nuevas = s.nuevas
      /\ t.antes = s.antes /\ t.guardadas = s.guardadas /\ t.apartadas = s.apartadas
      /\ t.paso = "encola" /\ t.manifiesto = s.manifiesto
  BY <1>2 DEF Cambio, Campos
<1>5. t \in Cambio
  BY <1>1, <1>2, <1>3, <1>4 DEF Cambio, Campos
<1> HIDE DEF t, s
<1>6. CambioEn(s, hojas) => CambioEn(t, hojas')
  BY <1>1, <1>2, <1>4, <1>5, SeSigue
<1>7. QED
  BY <1>1, <1>2, <1>4, <1>5, <1>6 DEF Avanza, s

(* The request gives up, and what it did to the sheets is undone.          *)
LEMMA VuelveTipo ==
  ASSUME NEW hs \in Hojas, NEW A \in SUBSET Aparte
  PROVE  Vuelve(hs, A) \in Hojas
<1>1. \A n \in Nombres : (\E a \in A : a.hoja = n) =>
         (CHOOSE a \in A : a.hoja = n).contenido \in Nat
  BY DEF Aparte
<1>2. QED
  BY <1>1 DEF Vuelve, Hojas

LEMMA AbandonaAlFallar ==
  ASSUME SheetsTypeOK, NEW r \in Solicitudes, Fallar(r)
  PROVE  Abandona(r)
<1> DEFINE s == solicitud[r]
           G == ToSet(s.guardadas)
           A == ToSet(s.apartadas)
<1>1. s \in Cambio /\ hojas \in Hojas
  BY Clases DEF Fallar, SheetsTypeOK
<1>2. hojas' = IF s.que = "varias" THEN Deshacer(hojas, G, A) ELSE Vuelve(hojas, A)
  BY DEF Fallar
<1>3. A \subseteq Aparte
  BY <1>1, TiposDeCambio
<1>4. Vuelve(hojas, A) \in Hojas
  BY <1>1, <1>3, VuelveTipo
<1>5. Deshacer(hojas, G, A) \in Hojas
  <2> DEFINE sin == [n \in Nombres |-> IF n \in G THEN NoEsta ELSE hojas[n]]
             B == {a \in A : sin[a.hoja] = NoEsta}
  <2>1. sin \in Hojas /\ B \subseteq Aparte
    BY <1>1, <1>3 DEF Hojas, NoEsta
  <2>2. Deshacer(hojas, G, A) = Vuelve(sin, B)
    BY DEF Deshacer
  <2> HIDE DEF sin, B
  <2>3. QED
    BY <2>1, <2>2, VuelveTipo
<1>6. CambioEn(s, hojas) => hojas' = s.antes
  BY <1>1, <1>2, SeDeshace
<1>7. manifiesto' = RestaurarManifiesto(r)
  BY DEF Fallar
<1>8. \/ manifiesto' = manifiesto /\ s.paso # "encola"
      \/ manifiesto' = s.manifiesto
  BY <1>7 DEF RestaurarManifiesto
<1>9. /\ pisada => pisada'
      /\ pisada' \in BOOLEAN /\ Es(r, Quieta)
      /\ UNCHANGED <<leido, trabajo, llegadas, intercalado, encontrados>>
  BY DEF Fallar, SheetsTypeOK
<1>10. hojas' \in Hojas
  BY <1>2, <1>4, <1>5
<1>11. QED
  BY <1>1, <1>6, <1>8, <1>9, <1>10 DEF Abandona

LEMMA AbandonaAlRechazar ==
  ASSUME SheetsTypeOK, NEW r \in Solicitudes, Rechazar(r)
  PROVE  Abandona(r)
<1>1. solicitud[r] \in Cambio /\ hojas \in Hojas
  BY Clases DEF Rechazar, SheetsTypeOK
<1>2. CambioEn(solicitud[r], hojas) => hojas = solicitud[r].antes
  BY <1>1, SinCambios DEF Rechazar
<1>3. QED
  BY <1>1, <1>2 DEF Abandona, Rechazar, SheetsTypeOK, flagsH

-----------------------------------------------------------------------------
(* Types. *)

LEMMA Trabajos ==
  ASSUME NEW w \in Trabajo
  PROVE  /\ w.paso = "leyendo" => w.manifiesto \in Manifiesto /\ w.hojas \in Hojas
         /\ w.fallo \in BOOLEAN
         /\ Ocioso.paso = "nada" /\ SinLeer.paso = "nada" /\ SinLeer.fallo = TRUE
         /\ Ocioso \in Trabajo /\ SinLeer \in Trabajo
<1>1. /\ Ocioso.paso = "nada" /\ SinLeer.paso = "nada"
      /\ Ocioso.fallo = FALSE /\ SinLeer.fallo = TRUE
  BY DEF Ocioso, SinLeer
<1>2. w \in Leyendo => w.manifiesto \in Manifiesto /\ w.hojas \in Hojas /\ w.fallo \in BOOLEAN
  BY DEF Leyendo
<1>3. w = [paso |-> "encolado", fallo |-> FALSE] => w.paso # "leyendo" /\ w.fallo \in BOOLEAN
  OBVIOUS
<1>4. w = Ocioso \/ w = SinLeer => w.paso # "leyendo" /\ w.fallo \in BOOLEAN
  BY <1>1
<1>5. w.paso = "leyendo" => w.manifiesto \in Manifiesto /\ w.hojas \in Hojas
  BY <1>2, <1>3, <1>4 DEF Trabajo
<1>6. w.fallo \in BOOLEAN
  BY <1>2, <1>3, <1>4 DEF Trabajo
<1>7. Ocioso \in Trabajo /\ SinLeer \in Trabajo
  BY DEF Trabajo
<1>8. QED
  BY <1>1, <1>5, <1>6, <1>7

LEMMA SeEncola ==
  ASSUME SheetsTypeOK, NEW otras \in SUBSET Solicitudes, Encolar(otras)
  PROVE  /\ trabajo' \in Trabajo /\ intercalado' \in BOOLEAN
         /\ llegadas' \in [solicitudes : Nat, trabajos : Nat]
         /\ ~Activo => trabajo'.paso = "encolado" \/ trabajo'.fallo
         /\ trabajo' = trabajo \/ trabajo'.paso # "leyendo"
         /\ Activo => trabajo' = trabajo
         /\ intercalado => intercalado'
         /\ trabajo'.paso # "nada" /\ ~Activo /\ ~intercalado' => \A x \in otras : ~Cambiando(x)
<1>1. CASE Activo \/ llegadas.trabajos = MaxTrabajos
  BY <1>1, Trabajos DEF Encolar, SheetsTypeOK, Activo
<1>2. CASE ~(Activo \/ llegadas.trabajos = MaxTrabajos)
  <2>1. /\ trabajo' = [paso |-> "encolado", fallo |-> FALSE]
        /\ llegadas' = [llegadas EXCEPT !.trabajos = @ + 1]
        /\ intercalado' = (intercalado \/ \E r \in otras : Cambiando(r))
    BY <1>2 DEF Encolar
  <2>2. llegadas' \in [solicitudes : Nat, trabajos : Nat]
    BY <2>1 DEF SheetsTypeOK
  <2>3. trabajo'.paso = "encolado" /\ trabajo' \in Trabajo
    BY <2>1 DEF Trabajo
  <2>4. QED
    BY <1>2, <2>1, <2>2, <2>3 DEF SheetsTypeOK
<1>3. QED
  BY <1>1, <1>2

LEMMA Nombrada ==
  ASSUME NEW hs \in Hojas, NEW nombre \in Nat
  PROVE  Nombrar(hs, nombre) \in Manifiesto /\ Nombrar(hs, nombre).hojas = Presentes(hs)
  BY DEF Nombrar, Manifiesto, Presentes

(* The job begins to read, and patch_project reads and writes.             *)
LEMMA SeIngesta ==
  ASSUME SheetsTypeOK, Ingestar
  PROVE  /\ manifiesto' \in Manifiesto /\ trabajo' \in Leyendo /\ trabajo'.hojas = hojas
         /\ manifiesto'.hojas = Presentes(hojas)
<1>1. manifiesto' = Nombrar(hojas, manifiesto.nombre) /\ hojas \in Hojas /\ manifiesto.nombre \in Nat
  BY DEF Ingestar, SheetsTypeOK, Manifiesto
<1>2. manifiesto' \in Manifiesto /\ manifiesto'.hojas = Presentes(hojas)
  BY <1>1, Nombrada
<1>3. trabajo' = [paso |-> "leyendo", fallo |-> FALSE, manifiesto |-> manifiesto', hojas |-> hojas]
  BY DEF Ingestar
<1>4. QED
  BY <1>1, <1>2, <1>3 DEF Leyendo

LEMMA SeLee ==
  ASSUME SheetsTypeOK, NEW r \in Solicitudes, LeerManifiesto(r)
  PROVE  \E t \in Nombra : Es(r, t) /\ solicitud[r] = Quieta
  BY DEF LeerManifiesto, Llega, Nombra, SheetsTypeOK

LEMMA SeNombra ==
  ASSUME SheetsTypeOK, NEW r \in Solicitudes, PatchProject(r)
  PROVE  /\ solicitud[r] \in Nombra /\ manifiesto' \in Manifiesto
         /\ manifiesto'.hojas = solicitud[r].manifiesto.hojas
<1>1. solicitud[r] \in Nombra
  BY Clases DEF PatchProject
<1>2. QED
  BY <1>1 DEF PatchProject, Nombra, Manifiesto, SheetsTypeOK

LEMMA SheetsInitTypes == SheetsInit => SheetsTypeOK
<1> SUFFICES ASSUME SheetsInit PROVE SheetsTypeOK
  OBVIOUS
<1>1. hojas \in Hojas
  BY DEF SheetsInit, Hojas, NoEsta
<1>2. manifiesto \in Manifiesto
  BY <1>1, Nombrada DEF SheetsInit
<1>3. trabajo \in Trabajo
  BY DEF SheetsInit, Trabajo
<1>4. solicitud \in [Solicitudes -> {Quieta} \cup Cambio \cup Nombra]
  BY DEF SheetsInit
<1>5. QED
  BY <1>1, <1>2, <1>3, <1>4 DEF SheetsInit, SheetsTypeOK

LEMMA SheetsNextTypes == SheetsTypeOK /\ [SheetsNext]_sheetVars => SheetsTypeOK'
<1> SUFFICES ASSUME SheetsTypeOK, [SheetsNext]_sheetVars PROVE SheetsTypeOK'
  OBVIOUS
<1>1. CASE ProcessProject
  BY <1>1, SeEncola DEF ProcessProject, SheetsTypeOK
<1>2. CASE Ingestar
  <2>1. trabajo' \in Trabajo
    BY <1>2, SeIngesta DEF Trabajo
  <2>2. QED
    BY <1>2, <2>1, SeIngesta DEF Ingestar, SheetsTypeOK, flagsH
<1>3. CASE TerminarTrabajo
  BY <1>3, Trabajos DEF TerminarTrabajo, SheetsTypeOK
<1>4. CASE FallarTrabajo
  BY <1>4, Trabajos DEF FallarTrabajo, SheetsTypeOK, flagsH
<1>5. ASSUME NEW r \in Solicitudes,
             AddProjectFiles(r) \/ ReplaceProjectFile(r) \/ RetireProjectFile(r)
      PROVE  SheetsTypeOK'
  <2>1. Empieza(r)
    BY <1>5, Empiezan
  <2>2. PICK t \in Cambio :
          /\ Es(r, t)
          /\ encontrados' = (encontrados \/ \E x \in Solicitudes : Cambiando(x))
          /\ llegadas' = [llegadas EXCEPT !.solicitudes = @ + 1]
          /\ UNCHANGED <<hojas, manifiesto, leido, trabajo, intercalado, pisada>>
    BY <2>1 DEF Empieza
  <2>3. QED
    BY <2>2, Despues DEF SheetsTypeOK
<1>6. ASSUME NEW r \in Solicitudes,
             Apartar(r) \/ SubirRevision(r) \/ SubirNueva(r) \/ Subida(r) \/ Ingerir(r)
      PROVE  SheetsTypeOK'
  <2>1. Avanza(r)
    BY <1>6, AvanzaAlApartar, AvanzaAlRevisar, AvanzaAlAgregar, AvanzaSubida, AvanzaAlIngerir
  <2>2. PICK t \in Cambio :
          /\ Es(r, t) /\ hojas' \in Hojas
          /\ manifiesto' = manifiesto \/ manifiesto' = Nombrar(hojas, manifiesto.nombre)
          /\ UNCHANGED <<leido, trabajo, llegadas, flagsH>>
    BY <2>1 DEF Avanza
  <2>3. manifiesto' \in Manifiesto
    <3>1. hojas \in Hojas /\ manifiesto \in Manifiesto
      BY DEF SheetsTypeOK
    <3>2. manifiesto.nombre \in Nat
      BY <3>1 DEF Manifiesto
    <3>3. QED
      BY <2>2, <3>1, <3>2, Nombrada
  <2>4. QED
    BY <2>2, <2>3, Despues DEF SheetsTypeOK, flagsH
<1>7. ASSUME NEW r \in Solicitudes, Reprocesa(r) PROVE SheetsTypeOK'
  <2>1. Encolar(Solicitudes \ {r}) /\ Es(r, Quieta)
        /\ UNCHANGED <<hojas, manifiesto, leido, pisada, encontrados>>
    BY <1>7 DEF Reprocesa
  <2>2. QED
    BY <2>1, SeEncola, Despues DEF SheetsTypeOK
<1>8. ASSUME NEW r \in Solicitudes, Fallar(r) \/ Rechazar(r) PROVE SheetsTypeOK'
  <2>1. Abandona(r)
    BY <1>8, AbandonaAlFallar, AbandonaAlRechazar
  <2>2. manifiesto' \in Manifiesto
    BY <2>1, TiposDeCambio DEF Abandona, SheetsTypeOK
  <2>3. QED
    BY <2>1, <2>2, Despues DEF Abandona, SheetsTypeOK
<1>9. ASSUME NEW r \in Solicitudes, LeerManifiesto(r) PROVE SheetsTypeOK'
  <2>1. solicitud' \in [Solicitudes -> {Quieta} \cup Cambio \cup Nombra]
    BY <1>9, SeLee, Despues
  <2>2. QED
    BY <1>9, <2>1 DEF LeerManifiesto, SheetsTypeOK, flagsH
<1>10. ASSUME NEW r \in Solicitudes, PatchProject(r) PROVE SheetsTypeOK'
  <2>1. Es(r, Quieta)
    BY <1>10 DEF PatchProject
  <2>2. solicitud' \in [Solicitudes -> {Quieta} \cup Cambio \cup Nombra]
    BY <2>1, Despues
  <2>3. QED
    BY <1>10, <2>2, SeNombra DEF PatchProject, SheetsTypeOK
<1>11. CASE UNCHANGED sheetVars
  BY <1>11 DEF SheetsTypeOK, sheetVars
<1>12. QED
  BY <1>1, <1>2, <1>3, <1>4, <1>5, <1>6, <1>7, <1>8, <1>9, <1>10, <1>11 DEF SheetsNext

(* Every variable keeps its type. *)
THEOREM SheetsTypes == SheetsSpec => []SheetsTypeOK
  BY SheetsInitTypes, SheetsNextTypes, PTL DEF SheetsSpec

-----------------------------------------------------------------------------
(* The invariant. *)

Orden == Solitarios /\ Alternan /\ Leidas /\ Nombradas

LEMMA NadaSeLee ==
  ASSUME SheetsTypeOK, ~Activo
  PROVE  trabajo.paso # "leyendo"
  BY DEF Activo

LEMMA TrasEmpezar ==
  ASSUME SheetsTypeOK, Orden, NEW r \in Solicitudes, Empieza(r)
  PROVE  Orden'
<1>1. PICK t \in Cambio :
        /\ solicitud[r] = Quieta /\ ~Activo /\ Es(r, t)
        /\ t.antes = hojas /\ t.manifiesto = manifiesto /\ t.paso = "comprobada"
        /\ Presentes(hojas) # {} => CambioEn(t, hojas)
        /\ encontrados' = (encontrados \/ \E x \in Solicitudes : Cambiando(x))
        /\ UNCHANGED <<hojas, manifiesto, leido, trabajo, intercalado, pisada>>
  BY DEF Empieza
<1>2. /\ solicitud'[r] = t /\ Cambiando(r)'
      /\ \A x \in Solicitudes : x # r => (Cambiando(x)' <=> Cambiando(x))
  BY <1>1, Despues
<1>3. ~Nadie'
  BY <1>2 DEF Nadie
<1>4. ~Activo' /\ trabajo'.paso # "leyendo"
  BY <1>1 DEF Activo
<1>5. ~encontrados' => ~encontrados /\ Nadie /\ \A x \in Solicitudes : Cambiando(x)' => x = r
  BY <1>1, <1>2 DEF Nadie
<1>6. Solitarios'
  <2>1. SUFFICES ASSUME ~encontrados'
        PROVE /\ \A x, y \in Solicitudes : Cambiando(x)' /\ Cambiando(y)' => x = y
              /\ \A x \in Solicitudes : Cambiando(x)' => CambioEn(solicitud'[x], hojas')
    BY <1>3 DEF Solitarios
  <2>2. CambioEn(t, hojas)
    BY <1>1, <1>5, <2>1 DEF Orden, Solitarios
  <2>3. QED
    BY <1>1, <1>2, <1>5, <2>1, <2>2
<1>7. Alternan'
  BY <1>4 DEF Alternan
<1>8. Leidas'
  BY <1>1, <1>2, <1>3, <1>4, <1>5 DEF Orden, Leidas
<1>9. Nombradas'
  <2>1. SUFFICES ASSUME ~encontrados', ~intercalado', ~pisada', NEW x \in Solicitudes, Cambiando(x)'
        PROVE /\ solicitud'[x].manifiesto.hojas = Presentes(solicitud'[x].antes)
              /\ manifiesto'.hojas = IF solicitud'[x].paso = "encola" THEN Presentes(hojas')
                                     ELSE Presentes(solicitud'[x].antes)
    BY <1>3 DEF Nombradas, Presentes
  <2>2. x = r /\ manifiesto.hojas = Presentes(hojas)
    BY <1>1, <1>5, <2>1 DEF Orden, Nombradas
  <2>3. QED
    BY <1>1, <1>2, <2>2
<1>10. QED
  BY <1>6, <1>7, <1>8, <1>9 DEF Orden

LEMMA TrasAvanzar ==
  ASSUME SheetsTypeOK, Orden, NEW r \in Solicitudes, Avanza(r)
  PROVE  Orden'
<1> DEFINE s == solicitud[r]
<1>1. PICK t \in Cambio :
        /\ s \in Cambio /\ s.paso # "encola" /\ Es(r, t)
        /\ t.antes = s.antes
        /\ CambioEn(s, hojas) => CambioEn(t, hojas')
        /\ \/ /\ t.paso # "encola" /\ manifiesto' = manifiesto
              /\ t.manifiesto \in {s.manifiesto, manifiesto}
           \/ /\ t.paso = "encola" /\ hojas' = hojas /\ t.manifiesto = s.manifiesto
              /\ manifiesto' = Nombrar(hojas, manifiesto.nombre)
        /\ leido' = leido /\ trabajo' = trabajo
        /\ intercalado' = intercalado /\ pisada' = pisada /\ encontrados' = encontrados
  BY DEF Avanza, flagsH
<1>2. /\ solicitud'[r] = t /\ Cambiando(r)' /\ Cambiando(r)
      /\ \A x \in Solicitudes : Cambiando(x)' <=> Cambiando(x)
  BY <1>1, Despues, Clases
<1>3. ~Nadie' /\ ~Nadie
  BY <1>2 DEF Nadie
<1>4. ~encontrados => CambioEn(s, hojas) /\ \A x \in Solicitudes : Cambiando(x) => x = r
  BY <1>2 DEF Orden, Solitarios
<1>5. Solitarios'
  <2>1. SUFFICES ASSUME ~encontrados'
        PROVE /\ \A x, y \in Solicitudes : Cambiando(x)' /\ Cambiando(y)' => x = y
              /\ \A x \in Solicitudes : Cambiando(x)' => CambioEn(solicitud'[x], hojas')
    BY <1>3 DEF Solitarios
  <2>2. QED
    BY <1>1, <1>2, <1>4, <2>1
<1>6. Alternan' /\ (~intercalado' => ~Activo')
  BY <1>1, <1>3 DEF Orden, Alternan, Activo
<1>7. Leidas'
  <2>1. SUFFICES ASSUME ~encontrados', ~intercalado'
        PROVE /\ trabajo'.paso # "leyendo"
              /\ ~trabajo'.fallo => \A x \in Solicitudes : Cambiando(x)' => leido' = solicitud'[x].antes
    BY <1>3 DEF Leidas
  <2>2. ~Activo /\ trabajo.paso # "leyendo"
    BY <1>1, <1>6, <2>1 DEF Activo
  <2>3. ~trabajo.fallo => leido = s.antes
    BY <1>1, <1>2, <2>1, <2>2 DEF Orden, Leidas
  <2>4. QED
    BY <1>1, <1>2, <1>4, <2>1, <2>2, <2>3
<1>8. Nombradas'
  <2>1. SUFFICES ASSUME ~encontrados', ~intercalado', ~pisada', NEW x \in Solicitudes, Cambiando(x)'
        PROVE /\ solicitud'[x].manifiesto.hojas = Presentes(solicitud'[x].antes)
              /\ manifiesto'.hojas = IF solicitud'[x].paso = "encola" THEN Presentes(hojas')
                                     ELSE Presentes(solicitud'[x].antes)
    BY <1>3 DEF Nombradas, Presentes
  <2>2. x = r /\ s.manifiesto.hojas = Presentes(s.antes) /\ manifiesto.hojas = Presentes(s.antes)
    BY <1>1, <1>2, <1>4, <2>1 DEF Orden, Nombradas
  <2>3. Nombrar(hojas, manifiesto.nombre).hojas = Presentes(hojas)
    BY DEF Nombrar
  <2>4. QED
    BY <1>1, <1>2, <2>2, <2>3
<1>9. QED
  BY <1>5, <1>6, <1>7, <1>8 DEF Orden

LEMMA TrasAbandonar ==
  ASSUME SheetsTypeOK, Orden, NEW r \in Solicitudes, Abandona(r)
  PROVE  Orden'
<1> DEFINE s == solicitud[r]
<1>1. /\ s \in Cambio /\ Es(r, Quieta)
      /\ CambioEn(s, hojas) => hojas' = s.antes
      /\ (manifiesto' = manifiesto /\ s.paso # "encola") \/ manifiesto' = s.manifiesto
      /\ pisada => pisada'
      /\ leido' = leido /\ trabajo' = trabajo
      /\ intercalado' = intercalado /\ encontrados' = encontrados
  BY DEF Abandona
<1>2. Quieta \notin Cambio
  BY DEF Quieta, Cambio, Campos
<1>3. /\ ~Cambiando(r)' /\ Cambiando(r)
      /\ \A x \in Solicitudes : x # r =>
           solicitud'[x] = solicitud[x] /\ (Cambiando(x)' <=> Cambiando(x))
  BY <1>1, <1>2, Despues, Clases
<1>4. ~Nadie
  BY <1>3 DEF Nadie
<1>5. ~encontrados => hojas' = s.antes /\ Presentes(s.antes) # {} /\ Nadie'
  <2>1. SUFFICES ASSUME ~encontrados PROVE hojas' = s.antes /\ Presentes(s.antes) # {} /\ Nadie'
    OBVIOUS
  <2>2. CambioEn(s, hojas) /\ \A x \in Solicitudes : Cambiando(x) => x = r
    BY <1>3, <2>1 DEF Orden, Solitarios
  <2>3. Nadie'
    BY <1>3, <2>2 DEF Nadie
  <2>4. QED
    BY <1>1, <2>2, <2>3, SinDejarVacio DEF SheetsTypeOK
<1>6. Solitarios'
  <2>1. SUFFICES ASSUME ~encontrados', Nadie' PROVE Presentes(hojas') # {}
    BY <1>1, <1>5 DEF Solitarios, Nadie, Presentes
  <2>2. QED
    BY <1>1, <1>5, <2>1
<1>7. Alternan' /\ (~intercalado' => ~Activo')
  BY <1>1, <1>4 DEF Orden, Alternan, Activo
<1>8. Leidas'
  <2>1. SUFFICES ASSUME ~encontrados', ~intercalado'
        PROVE trabajo'.paso # "leyendo" /\ (~trabajo'.fallo => leido' = hojas')
    BY <1>1, <1>5 DEF Leidas, Nadie
  <2>2. ~Activo /\ trabajo.paso # "leyendo"
    BY <1>1, <1>7, <2>1 DEF Activo
  <2>3. ~trabajo.fallo => leido = s.antes
    BY <1>1, <1>3, <2>1, <2>2 DEF Orden, Leidas
  <2>4. QED
    BY <1>1, <1>5, <2>1, <2>2, <2>3
<1>9. Nombradas'
  <2>1. SUFFICES ASSUME ~encontrados', ~intercalado', ~pisada'
        PROVE manifiesto'.hojas = Presentes(hojas')
    BY <1>1, <1>5 DEF Nombradas, Nadie, Presentes
  <2>2. /\ s.manifiesto.hojas = Presentes(s.antes)
        /\ s.paso # "encola" => manifiesto.hojas = Presentes(s.antes)
    BY <1>1, <1>3, <2>1 DEF Orden, Nombradas
  <2>3. QED
    BY <1>1, <1>5, <2>1, <2>2
<1>10. QED
  BY <1>6, <1>7, <1>8, <1>9 DEF Orden

LEMMA TrasReprocesa ==
  ASSUME SheetsTypeOK, Orden, NEW r \in Solicitudes, Reprocesa(r)
  PROVE  Orden'
<1> DEFINE s == solicitud[r]
<1>1. /\ s.paso = "encola" /\ Encolar(Solicitudes \ {r}) /\ Es(r, Quieta)
      /\ UNCHANGED <<hojas, manifiesto, leido, pisada, encontrados>>
  BY DEF Reprocesa
<1>2. s \in Cambio /\ Quieta \notin Cambio
  BY <1>1, Clases DEF Quieta, Cambio, Campos
<1>3. /\ ~Cambiando(r)' /\ Cambiando(r)
      /\ \A x \in Solicitudes : x # r => (Cambiando(x)' <=> Cambiando(x))
  BY <1>1, <1>2, Despues, Clases
<1>4. ~Nadie
  BY <1>3 DEF Nadie
<1>5. /\ ~Activo => trabajo'.paso = "encolado" \/ trabajo'.fallo
      /\ trabajo' = trabajo \/ trabajo'.paso # "leyendo"
      /\ intercalado => intercalado'
      /\ Activo => trabajo' = trabajo
      /\ Activo' /\ ~Activo /\ ~intercalado' => \A x \in Solicitudes \ {r} : ~Cambiando(x)
  BY <1>1, SeEncola DEF Activo
<1>6. ~encontrados => CambioEn(s, hojas) /\ Nadie' /\ Presentes(hojas) # {}
  <2>1. SUFFICES ASSUME ~encontrados PROVE CambioEn(s, hojas) /\ Nadie' /\ Presentes(hojas) # {}
    OBVIOUS
  <2>2. CambioEn(s, hojas) /\ \A x \in Solicitudes : Cambiando(x) => x = r
    BY <1>3, <2>1 DEF Orden, Solitarios
  <2>3. Nadie'
    BY <1>3, <2>2 DEF Nadie
  <2>4. QED
    BY <1>1, <1>2, <2>2, <2>3, SinDejarVacio DEF SheetsTypeOK
<1>7. Solitarios'
  <2>1. SUFFICES ASSUME ~encontrados', Nadie' PROVE Presentes(hojas') # {}
    BY <1>1, <1>6 DEF Solitarios, Nadie, Presentes
  <2>2. QED
    BY <1>1, <1>6, <2>1 DEF Presentes
<1>8. ~intercalado' => ~Activo
  BY <1>4, <1>5 DEF Orden, Alternan
<1>9. Alternan'
  <2>1. SUFFICES ASSUME ~intercalado', Activo' PROVE Nadie'
    BY DEF Alternan
  <2>2. QED
    BY <1>3, <1>5, <1>8, <2>1 DEF Nadie
<1>10. Leidas'
  <2>1. SUFFICES ASSUME ~encontrados', ~intercalado'
        PROVE trabajo'.paso # "leyendo" /\ (~Activo' /\ ~trabajo'.fallo => leido' = hojas')
    BY <1>1, <1>6 DEF Leidas, Nadie
  <2>2. ~Activo /\ trabajo.paso # "leyendo"
    BY <1>8, <2>1 DEF Activo
  <2>3. Activo' \/ trabajo'.fallo
    BY <1>5, <2>2 DEF Activo
  <2>4. QED
    BY <1>5, <2>2, <2>3
<1>11. Nombradas'
  <2>1. SUFFICES ASSUME ~encontrados', ~intercalado', ~pisada'
        PROVE manifiesto'.hojas = Presentes(hojas')
    BY <1>1, <1>6 DEF Nombradas, Nadie, Presentes
  <2>2. manifiesto.hojas = Presentes(hojas)
    BY <1>1, <1>3, <1>5, <2>1 DEF Orden, Nombradas
  <2>3. QED
    BY <1>1, <2>2 DEF Presentes
<1>12. QED
  BY <1>7, <1>9, <1>10, <1>11 DEF Orden

(* The steps that leave the sheets and their changes alone.                *)
LEMMA SinTocarHojas ==
  ASSUME SheetsTypeOK, Orden, hojas' = hojas, encontrados' = encontrados,
         \A x \in Solicitudes : Cambiando(x)' <=> Cambiando(x),
         \A x \in Solicitudes : Cambiando(x) => solicitud'[x] = solicitud[x]
  PROVE  Solitarios' /\ (Nadie' <=> Nadie) /\ Presentes(hojas)' = Presentes(hojas)
<1>1. (Nadie' <=> Nadie) /\ Presentes(hojas)' = Presentes(hojas)
  BY DEF Nadie, Presentes
<1>2. Solitarios'
  <2>1. SUFFICES ASSUME ~encontrados'
        PROVE /\ \A x, y \in Solicitudes : Cambiando(x)' /\ Cambiando(y)' => x = y
              /\ \A x \in Solicitudes : Cambiando(x)' => CambioEn(solicitud'[x], hojas')
              /\ Nadie' => Presentes(hojas') # {}
    BY DEF Solitarios
  <2>2. QED
    BY <1>1, <2>1 DEF Orden, Solitarios
<1>3. QED
  BY <1>1, <1>2

LEMMA TrasElTrabajo ==
  ASSUME SheetsTypeOK, Orden,
         ProcessProject \/ Ingestar \/ TerminarTrabajo \/ FallarTrabajo
  PROVE  Orden'
<1>1. hojas' = hojas /\ encontrados' = encontrados /\ solicitud' = solicitud
  BY DEF ProcessProject, Ingestar, TerminarTrabajo, FallarTrabajo, flagsH
<1>2. \A x \in Solicitudes : Cambiando(x)' <=> Cambiando(x)
  BY <1>1 DEF Cambiando
<1>3. Solitarios' /\ (Nadie' <=> Nadie) /\ Presentes(hojas)' = Presentes(hojas)
  BY <1>1, <1>2, SinTocarHojas
<1>4. Nadie => \A x \in Solicitudes : ~Cambiando(x)'
  BY <1>2 DEF Nadie
<1>5. CASE ProcessProject
  <2>1. ~Activo /\ Encolar(Solicitudes) /\ UNCHANGED <<manifiesto, leido, pisada>>
    BY <1>5 DEF ProcessProject
  <2>2. /\ trabajo'.paso = "encolado" \/ trabajo'.fallo
        /\ trabajo' = trabajo \/ trabajo'.paso # "leyendo"
        /\ intercalado => intercalado'
        /\ Activo' /\ ~intercalado' => Nadie
    BY <2>1, SeEncola DEF Activo, Nadie
  <2>3. Alternan'
    BY <1>3, <2>2 DEF Alternan
  <2>4. Leidas'
    BY <1>1, <1>2, <1>3, <2>1, <2>2 DEF Orden, Leidas, Activo
  <2>5. Nombradas'
    BY <1>1, <1>2, <1>3, <2>1, <2>2 DEF Orden, Nombradas, Presentes
  <2>6. QED
    BY <1>3, <2>3, <2>4, <2>5 DEF Orden
<1>6. CASE Ingestar
  <2>1. /\ trabajo'.paso = "leyendo" /\ trabajo'.hojas = hojas /\ Activo /\ Activo'
        /\ manifiesto'.hojas = Presentes(hojas) /\ intercalado' = intercalado
    BY <1>6, SeIngesta DEF Ingestar, Activo, Leyendo, flagsH
  <2>2. ~intercalado' => Nadie
    BY <2>1 DEF Orden, Alternan
  <2>3. Alternan'
    BY <1>3, <2>2 DEF Alternan
  <2>4. Leidas'
    BY <1>1, <2>1 DEF Leidas
  <2>5. Nombradas'
    BY <1>1, <1>3, <1>4, <2>1, <2>2 DEF Nombradas
  <2>6. QED
    BY <1>3, <2>3, <2>4, <2>5 DEF Orden
<1>7. CASE TerminarTrabajo
  <2>1. /\ Activo /\ trabajo.paso = "leyendo" /\ trabajo' = Ocioso /\ leido' = trabajo.hojas
        /\ manifiesto' = trabajo.manifiesto
        /\ pisada' = (pisada \/ manifiesto # trabajo.manifiesto)
        /\ intercalado' = intercalado
    BY <1>7 DEF TerminarTrabajo, Activo
  <2>2. trabajo'.paso = "nada"
    BY <2>1 DEF Ocioso
  <2>3. ~intercalado' => Nadie
    BY <2>1 DEF Orden, Alternan
  <2>4. Alternan'
    BY <1>3, <2>3 DEF Alternan
  <2>5. Leidas'
    BY <1>1, <1>3, <1>4, <2>1, <2>2, <2>3 DEF Orden, Leidas
  <2>6. Nombradas'
    BY <1>1, <1>3, <1>4, <2>1, <2>3 DEF Orden, Nombradas
  <2>7. QED
    BY <1>3, <2>4, <2>5, <2>6 DEF Orden
<1>8. CASE FallarTrabajo
  <2>1. /\ Activo /\ trabajo' = SinLeer
        /\ UNCHANGED <<manifiesto, leido, intercalado, pisada>>
    BY <1>8 DEF FallarTrabajo, Activo, flagsH
  <2>2. trabajo'.paso = "nada" /\ trabajo'.fallo = TRUE
    BY <2>1 DEF SinLeer
  <2>3. Alternan'
    BY <2>2 DEF Alternan, Activo
  <2>4. Leidas'
    BY <2>2 DEF Leidas
  <2>5. Nombradas'
    BY <1>1, <1>2, <1>3, <2>1 DEF Orden, Nombradas
  <2>6. QED
    BY <1>3, <2>3, <2>4, <2>5 DEF Orden
<1>9. QED
  BY <1>5, <1>6, <1>7, <1>8

LEMMA TrasNombrar ==
  ASSUME SheetsTypeOK, Orden, NEW r \in Solicitudes, LeerManifiesto(r) \/ PatchProject(r)
  PROVE  Orden'
<1>1. /\ UNCHANGED <<hojas, leido, trabajo, intercalado, encontrados>>
      /\ pisada => pisada'
      /\ ~pisada' => manifiesto'.hojas = manifiesto.hojas
  <2>1. CASE LeerManifiesto(r)
    BY <2>1 DEF LeerManifiesto, flagsH
  <2>2. CASE PatchProject(r)
    <3>1. manifiesto'.hojas = solicitud[r].manifiesto.hojas
      BY <2>2, SeNombra
    <3>2. /\ pisada' = (pisada \/ manifiesto # solicitud[r].manifiesto)
          /\ UNCHANGED <<hojas, leido, trabajo, intercalado, encontrados>>
      BY <2>2 DEF PatchProject
    <3>3. QED
      BY <3>1, <3>2
  <2>3. QED
    BY <2>1, <2>2
<1>2. PICK t \in {Quieta} \cup Nombra : Es(r, t) /\ solicitud[r] \in {Quieta} \cup Nombra
  BY SeLee, SeNombra DEF PatchProject
<1>3. t \notin Cambio /\ ~Cambiando(r)
  BY <1>2 DEF Quieta, Nombra, Cambio, Campos, Cambiando
<1>4. /\ \A x \in Solicitudes : Cambiando(x)' <=> Cambiando(x)
      /\ \A x \in Solicitudes : Cambiando(x) => solicitud'[x] = solicitud[x]
  BY <1>2, <1>3, Despues
<1>5. Solitarios' /\ (Nadie' <=> Nadie) /\ Presentes(hojas)' = Presentes(hojas)
  BY <1>1, <1>4, SinTocarHojas
<1>6. Alternan'
  BY <1>1, <1>5 DEF Orden, Alternan, Activo
<1>7. Leidas'
  BY <1>1, <1>4, <1>5 DEF Orden, Leidas, Activo
<1>8. Nombradas'
  BY <1>1, <1>4, <1>5 DEF Orden, Nombradas
<1>9. QED
  BY <1>5, <1>6, <1>7, <1>8 DEF Orden

LEMMA OrdenInit == SheetsInit => Orden
<1> SUFFICES ASSUME SheetsInit PROVE Orden
  OBVIOUS
<1>1. \A r \in Solicitudes : ~Cambiando(r)
  BY DEF SheetsInit, Cambiando
<1>2. PICK n \in Nombres : n \in Iniciales
  BY SheetFilesAssumption
<1>3. hojas[n] # NoEsta
  BY <1>2 DEF SheetsInit, NoEsta
<1>4. Presentes(hojas) # {}
  BY <1>3 DEF Presentes
<1>5. manifiesto.hojas = Presentes(hojas)
  BY DEF SheetsInit, Nombrar
<1>6. trabajo.paso = "nada" /\ leido = hojas
  BY DEF SheetsInit, Ocioso
<1>7. QED
  BY <1>1, <1>4, <1>5, <1>6 DEF Orden, Solitarios, Alternan, Leidas, Nombradas, Nadie

LEMMA OrdenNext == SheetsTypeOK /\ Orden /\ [SheetsNext]_sheetVars => Orden'
<1> SUFFICES ASSUME SheetsTypeOK, Orden, [SheetsNext]_sheetVars PROVE Orden'
  OBVIOUS
<1>1. CASE ProcessProject \/ Ingestar \/ TerminarTrabajo \/ FallarTrabajo
  BY <1>1, TrasElTrabajo
<1>2. ASSUME NEW r \in Solicitudes,
             AddProjectFiles(r) \/ ReplaceProjectFile(r) \/ RetireProjectFile(r)
      PROVE  Orden'
  BY <1>2, Empiezan, TrasEmpezar
<1>3. ASSUME NEW r \in Solicitudes,
             Apartar(r) \/ SubirRevision(r) \/ SubirNueva(r) \/ Subida(r) \/ Ingerir(r)
      PROVE  Orden'
  BY <1>3, AvanzaAlApartar, AvanzaAlRevisar, AvanzaAlAgregar, AvanzaSubida, AvanzaAlIngerir,
     TrasAvanzar
<1>4. ASSUME NEW r \in Solicitudes, Reprocesa(r) PROVE Orden'
  BY <1>4, TrasReprocesa
<1>5. ASSUME NEW r \in Solicitudes, Fallar(r) \/ Rechazar(r) PROVE Orden'
  BY <1>5, AbandonaAlFallar, AbandonaAlRechazar, TrasAbandonar
<1>6. ASSUME NEW r \in Solicitudes, LeerManifiesto(r) \/ PatchProject(r) PROVE Orden'
  BY <1>6, TrasNombrar
<1>7. CASE UNCHANGED sheetVars
  <2>1. /\ UNCHANGED <<hojas, manifiesto, leido, trabajo, solicitud>>
        /\ UNCHANGED <<intercalado, pisada, encontrados>>
    BY <1>7 DEF sheetVars
  <2>2. \A x \in Solicitudes : Cambiando(x)' <=> Cambiando(x)
    BY <2>1 DEF Cambiando
  <2>3. Solitarios' /\ (Nadie' <=> Nadie) /\ Presentes(hojas)' = Presentes(hojas)
    BY <2>1, <2>2, SinTocarHojas
  <2>4. Alternan' /\ Leidas'
    BY <2>1, <2>2, <2>3 DEF Orden, Alternan, Leidas, Activo
  <2>5. Nombradas'
    BY <2>1, <2>2, <2>3 DEF Orden, Nombradas
  <2>6. QED
    BY <2>3, <2>4, <2>5 DEF Orden
<1>8. QED
  BY <1>1, <1>2, <1>3, <1>4, <1>5, <1>6, <1>7 DEF SheetsNext

LEMMA SheetsOrder == SheetsSpec => [](SheetsTypeOK /\ Orden)
<1>1. SheetsInit => SheetsTypeOK /\ Orden
  BY SheetsInitTypes, OrdenInit
<1>2. SheetsTypeOK /\ Orden /\ [SheetsNext]_sheetVars => (SheetsTypeOK /\ Orden)'
  BY SheetsNextTypes, OrdenNext
<1>3. QED
  BY <1>1, <1>2, PTL DEF SheetsSpec

-----------------------------------------------------------------------------
(* The theorems. *)

LEMMA EnCalma ==
  ASSUME SheetsTypeOK, Calma
  PROVE  Nadie /\ ~Activo
  BY Clases DEF Calma, Nadie

(* However the changes of the sheets follow one another, go on, fail or    *)
(* are refused, with however many requests, a project is left with a sheet *)
(* unless two changes met (the check that a sheet is not the only one, in  *)
(* retire_project_file).                                                   *)
THEOREM AProjectKeepsASheet == SheetsSpec => []NeverWithoutSheets
<1>1. SheetsTypeOK /\ Orden => NeverWithoutSheets
  BY EnCalma DEF Orden, Solitarios, NeverWithoutSheets
<1>2. QED
  BY <1>1, SheetsOrder, PTL

(* The manifest names the sheets of the project, also after a failed       *)
(* change, unless two changes met, a job began during a change, or a newer *)
(* manifest was written over.                                              *)
THEOREM TheManifestNamesTheSheets == SheetsSpec => []ManifestNamesSheets
<1>1. SheetsTypeOK /\ Orden => ManifestNamesSheets
  BY EnCalma DEF Orden, Nombradas, ManifestNamesSheets
<1>2. QED
  BY <1>1, SheetsOrder, PTL

(* No change of the sheets is left unread, unless a job began during it,   *)
(* two changes met, or the job failed or was refused (_sin_trabajo_activo  *)
(* and the job that each change asks for).                                 *)
THEOREM EveryChangeIsRead == SheetsSpec => []ChangesAreRead
<1>1. SheetsTypeOK /\ Orden => ChangesAreRead
  BY EnCalma DEF Orden, Leidas, ChangesAreRead
<1>2. QED
  BY <1>1, SheetsOrder, PTL

(* A change that fails, after any of its steps, leaves the sheets it found *)
(* (_deshacer and the restoring of the sheet set aside), unless another    *)
(* change was in progress.                                                 *)
THEOREM AFailedChangeLeavesTheSheets == SheetsSpec => FailedChangeIsUndone
<1>1. ASSUME SheetsTypeOK, Orden,
             NEW r \in Solicitudes, Fallar(r), ~encontrados
      PROVE  hojas' = solicitud[r].antes
  <2>1. Cambiando(r) /\ Abandona(r)
    BY <1>1, AbandonaAlFallar DEF Fallar
  <2>2. CambioEn(solicitud[r], hojas)
    BY <1>1, <2>1 DEF Orden, Solitarios
  <2>3. QED
    BY <2>1, <2>2 DEF Abandona
<1>2. SheetsTypeOK /\ Orden /\ [SheetsNext]_sheetVars =>
        [\A r \in Solicitudes : Fallar(r) /\ ~encontrados => hojas' = solicitud[r].antes]_sheetVars
  BY <1>1
<1>3. QED
  BY <1>2, SheetsOrder, PTL DEF SheetsSpec, FailedChangeIsUndone
=============================================================================

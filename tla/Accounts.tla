------------------------------ MODULE Accounts -------------------------------
(***************************************************************************)
(* The accounts of a taller: who administers it, the invitations to it and *)
(* the one-time links (apps/api/auth: store.py, routes.py, invitations.py, *)
(* recovery.py).                                                           *)
(*                                                                         *)
(* The database runs every statement by itself (autocommit), apart from    *)
(* accept_invitation, which is one transaction.  A request checks with     *)
(* some statements and writes with others, and those of another request    *)
(* may come in between; it may also stop at any of them.                   *)
(***************************************************************************)
EXTENDS Integers, Sequences, FiniteSets

CONSTANTS Correos,         \* addresses; an account has one of its own
          Peticiones,      \* requests that may be in progress
          MaxPeticiones,   \* bound: requests begun
          MaxInvitaciones, \* bound: invitations
          MaxEnlaces       \* bound: recovery links issued

ASSUME AccountsAssumption ==
  Correos # {} /\ {MaxPeticiones, MaxInvitaciones, MaxEnlaces} \subseteq Nat

VARIABLES cuentas,      \* database: [address -> account, or NoHay]
          invitaciones, \* database: sequence of invitations
          enlaces,      \* database: sequence of recovery links (auth_tokens)
          tramite,      \* [request -> what is left of it]
          empezadas,    \* requests begun
          cruzada       \* history: the administrators changed between the check of a change and it

accountVars == <<cuentas, invitaciones, enlaces, tramite, empezadas, cruzada>>

NoHay == [rol |-> "nadie"]
SinTramite == [paso |-> "libre"]
Existe(c) == cuentas[c] # NoHay
Administra(c) == Existe(c) /\ cuentas[c].rol = "admin" /\ cuentas[c].estado = "active"
Administradores == {c \in Correos : Administra(c)}
Abierta(i) == ~i.aceptada /\ ~i.revocada /\ ~i.vencida

Comienza(p, t) ==
  /\ tramite[p] = SinTramite /\ empezadas < MaxPeticiones /\ empezadas' = empezadas + 1
  /\ tramite' = [tramite EXCEPT ![p] = t]
Continua(p, t) == tramite' = [tramite EXCEPT ![p] = t] /\ UNCHANGED empezadas
Acaba(p) == Continua(p, SinTramite)

AccountsInit ==
  /\ cuentas = [c \in Correos |-> NoHay] /\ invitaciones = <<>> /\ enlaces = <<>>
  /\ tramite = [p \in Peticiones |-> SinTramite] /\ empezadas = 0 /\ cruzada = FALSE

\* The database is out of reach, or the process stops: the rest of a request is not run.
Interrumpir(p) ==
  /\ tramite[p] # SinTramite /\ Acaba(p)
  /\ UNCHANGED <<cuentas, invitaciones, enlaces, cruzada>>

-----------------------------------------------------------------------------
(* Registration: the first account of a taller administers it, the others  *)
(* wait for approval.                                                      *)

RegisterCheck(p, c) ==
  /\ ~Existe(c)
  /\ Comienza(p, [paso |-> "registra", correo |-> c, primera |-> \A x \in Correos : ~Existe(x)])
  /\ UNCHANGED <<cuentas, invitaciones, enlaces, cruzada>>

CreateUser(p) ==
  /\ tramite[p].paso = "registra" /\ Acaba(p)
  /\ LET t == tramite[p] IN
       cuentas' = IF Existe(t.correo) THEN cuentas  \* the address is unique
                  ELSE [cuentas EXCEPT ![t.correo] =
                          IF t.primera THEN [rol |-> "admin", estado |-> "active", origen |-> 0]
                          ELSE [rol |-> "member", estado |-> "pending", origen |-> 0]]
  /\ UNCHANGED <<invitaciones, enlaces, cruzada>>

-----------------------------------------------------------------------------
(* Changes of status and role by an administrator. *)

\* Variant: an administrator may take the administration from any account.
PuedeSiempre(a, c) == TRUE

\* Neither one's own account nor the last active administrator (set_user_status,
\* set_user_role).
PuedeQuitar(a, c) == a # c /\ ~(Administra(c) /\ Cardinality(Administradores) <= 1)

CheckChange(p, a, c, cambio) ==
  /\ Administra(a) /\ Existe(c)
  /\ cambio \in {"disabled", "member"} => PuedeQuitar(a, c)
  /\ Comienza(p, [paso |-> "cambia", correo |-> c, cambio |-> cambio, vistos |-> Administradores])
  /\ UNCHANGED <<cuentas, invitaciones, enlaces, cruzada>>

SetStatusOrRole(p) ==
  /\ tramite[p].paso = "cambia" /\ Acaba(p)
  /\ LET t == tramite[p] IN
       /\ cuentas' = IF t.cambio \in {"disabled", "active"}
                     THEN [cuentas EXCEPT ![t.correo].estado = t.cambio]
                     ELSE [cuentas EXCEPT ![t.correo].rol = t.cambio]
       /\ cruzada' = (cruzada \/ Administradores # t.vistos)
  /\ UNCHANGED <<invitaciones, enlaces>>

-----------------------------------------------------------------------------
(* Invitations. *)

CheckInvitation(p, c, rol) ==
  /\ Administradores # {} /\ ~Existe(c) /\ Len(invitaciones) < MaxInvitaciones
  /\ Comienza(p, [paso |-> "reemplaza", correo |-> c, rol |-> rol])
  /\ UNCHANGED <<cuentas, invitaciones, enlaces, cruzada>>

\* A fresh invitation supersedes any open one for the same address.
SupersedeInvitations(p) ==
  /\ tramite[p].paso = "reemplaza" /\ Continua(p, [tramite[p] EXCEPT !.paso = "invita"])
  /\ invitaciones' = [i \in DOMAIN invitaciones |->
       IF invitaciones[i].correo = tramite[p].correo /\ ~invitaciones[i].aceptada
       THEN [invitaciones[i] EXCEPT !.revocada = TRUE] ELSE invitaciones[i]]
  /\ UNCHANGED <<cuentas, enlaces, cruzada>>

InsertInvitation(p) ==
  /\ tramite[p].paso = "invita" /\ Len(invitaciones) < MaxInvitaciones /\ Acaba(p)
  /\ invitaciones' = Append(invitaciones,
       [correo |-> tramite[p].correo, rol |-> tramite[p].rol,
        aceptada |-> FALSE, revocada |-> FALSE, vencida |-> FALSE])
  /\ UNCHANGED <<cuentas, enlaces, cruzada>>

\* One statement revokes, or renews, what is neither accepted nor revoked.
ChangeInvitation(i) ==
  /\ Administradores # {} /\ ~invitaciones[i].aceptada /\ ~invitaciones[i].revocada
  /\ \/ invitaciones' = [invitaciones EXCEPT ![i].revocada = TRUE]
     \/ invitaciones[i].vencida /\ invitaciones' = [invitaciones EXCEPT ![i].vencida = FALSE]
  /\ UNCHANGED <<cuentas, enlaces, tramite, empezadas, cruzada>>

Expire(i) ==
  /\ ~invitaciones[i].vencida /\ invitaciones' = [invitaciones EXCEPT ![i].vencida = TRUE]
  /\ UNCHANGED <<cuentas, enlaces, tramite, empezadas, cruzada>>

OpenInvitation(p, i) ==
  /\ Abierta(invitaciones[i]) /\ ~Existe(invitaciones[i].correo)
  /\ Comienza(p, [paso |-> "acepta", invitacion |-> i])
  /\ UNCHANGED <<cuentas, invitaciones, enlaces, cruzada>>

\* Variant: the invitation is as the request found it.
ComoEstaba(i) == TRUE

\* Re-read under lock, as the copy of the request may be stale.
SigueAbierta(i) == Abierta(invitaciones[i])

\* The account, its grants and the mark on the invitation are one transaction, which is
\* rolled back if the invitation is closed or the address has an account.
AcceptInvitation(p) ==
  /\ tramite[p].paso = "acepta" /\ Acaba(p)
  /\ LET i == tramite[p].invitacion
         c == invitaciones[i].correo
     IN IF SigueAbierta(i) /\ ~Existe(c)
        THEN /\ cuentas' = [cuentas EXCEPT ![c] =
                  [rol |-> invitaciones[i].rol, estado |-> "active", origen |-> i]]
             /\ invitaciones' = [invitaciones EXCEPT ![i].aceptada = TRUE]
        ELSE UNCHANGED <<cuentas, invitaciones>>
  /\ UNCHANGED <<enlaces, cruzada>>

-----------------------------------------------------------------------------
(* One-time links: issue_token, consume_token. *)

VoidLinks(p, c) ==
  /\ Existe(c) /\ Len(enlaces) < MaxEnlaces /\ Comienza(p, [paso |-> "emite", correo |-> c])
  /\ enlaces' = [n \in DOMAIN enlaces |->
       IF enlaces[n].correo = c /\ ~enlaces[n].usado
       THEN [enlaces[n] EXCEPT !.usado = TRUE, !.anulado = TRUE] ELSE enlaces[n]]
  /\ UNCHANGED <<cuentas, invitaciones, cruzada>>

InsertLink(p) ==
  /\ tramite[p].paso = "emite" /\ Len(enlaces) < MaxEnlaces /\ Acaba(p)
  /\ enlaces' = Append(enlaces, [correo |-> tramite[p].correo, usado |-> FALSE,
                                 anulado |-> FALSE, usos |-> 0])
  /\ UNCHANGED <<cuentas, invitaciones, cruzada>>

PeekLink(p, n) ==
  /\ ~enlaces[n].usado /\ Comienza(p, [paso |-> "usa", enlace |-> n])
  /\ UNCHANGED <<cuentas, invitaciones, enlaces, cruzada>>

\* Variant: what the request saw is good enough.
ComoSeVio(n) == TRUE

\* The statement that marks the link used finds it unused.
SinUsar(n) == ~enlaces[n].usado

ConsumeLink(p) ==
  /\ tramite[p].paso = "usa" /\ Acaba(p)
  /\ LET n == tramite[p].enlace IN
       enlaces' = IF SinUsar(n)
                  THEN [enlaces EXCEPT ![n].usado = TRUE, ![n].usos = @ + 1] ELSE enlaces
  /\ UNCHANGED <<cuentas, invitaciones, cruzada>>

AccountsNext ==
  \/ \E p \in Peticiones :
       \/ Interrumpir(p) \/ CreateUser(p) \/ SetStatusOrRole(p)
       \/ SupersedeInvitations(p) \/ InsertInvitation(p) \/ AcceptInvitation(p)
       \/ InsertLink(p) \/ ConsumeLink(p)
       \/ \E c \in Correos : RegisterCheck(p, c) \/ VoidLinks(p, c)
       \/ \E a, c \in Correos, x \in {"active", "disabled", "admin", "member"} : CheckChange(p, a, c, x)
       \/ \E c \in Correos, rol \in {"admin", "member"} : CheckInvitation(p, c, rol)
       \/ \E i \in DOMAIN invitaciones : OpenInvitation(p, i)
       \/ \E n \in DOMAIN enlaces : PeekLink(p, n)
  \/ \E i \in DOMAIN invitaciones : ChangeInvitation(i) \/ Expire(i)

AccountsSpec == AccountsInit /\ [][AccountsNext]_accountVars

-----------------------------------------------------------------------------
(* Properties. *)

\* A taller that has accounts has an active administrator ("Es el último administrador
\* activo del taller"), through registrations, invitations, disabled accounts and changed
\* roles.  Only two changes that cross may leave it without one.
AdminStays == ~cruzada /\ (\E c \in Correos : Existe(c)) => Administradores # {}

\* An invitation ends once: it is not both accepted and revoked, and the account of its
\* address is the one it made, however acceptances, revocations and renewals interleave
\* (accept_invitation: "Re-read under lock").
InvitationsEndOnce ==
  \A i \in DOMAIN invitaciones : invitaciones[i].aceptada =>
    ~invitaciones[i].revocada /\ cuentas[invitaciones[i].correo].origen = i

\* A link works once, and not at all after a later one was asked for.
LinksWorkOnce ==
  \A n \in DOMAIN enlaces : enlaces[n].usos <= IF enlaces[n].anulado THEN 0 ELSE 1
=============================================================================

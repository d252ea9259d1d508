----------------------------- MODULE MCServices -----------------------------
(***************************************************************************)
(* Small instances of the components that share no state with each other.  *)
(* A behaviour of this module is a behaviour of one of them: "part" says   *)
(* of which, and the state of the others stays what it was at the start.   *)
(***************************************************************************)
EXTENDS Obra, PriceBook, Versions, SheetFiles, ReviewKeys, Accounts, Programa

VARIABLE part

CONSTANTS muro, zapata,            \* concepts
          arena, mortero, mezcla   \* insumos

(* The catalogue has one of the two concepts: the other one can only come  *)
(* by a convenio.                                                          *)
MCContratado == [c \in Claves |-> IF c = muro THEN 2 ELSE 0]
MCPrecio == [c \in Claves |-> 10]

(* A básico inside a básico, which the concept uses; one matrix that       *)
(* people type would close a cycle.                                        *)
MCPrecioInicial == [i \in Insumos |-> IF i = mezcla THEN 4 ELSE 2]
MCMatrizInicial ==
    LET lines == {<<mortero, arena>>, <<mezcla, mortero>>, <<mezcla, arena>>, <<muro, mezcla>>}
    IN [d \in Duenos |-> [i \in Insumos |-> IF <<d, i>> \in lines THEN 1 ELSE 0]]
MCLotes == {{arena}, {arena, mezcla}}
MCFilas == {[i \in Insumos |-> IF i = arena THEN 2 ELSE 0],
            [i \in Insumos |-> IF i \in Basicos THEN 1 ELSE 0]}

-----------------------------------------------------------------------------
Parts == {"obra", "book", "versions", "sheets", "verdicts", "accounts", "programme"}

Still(p) ==
    /\ p # "obra" => UNCHANGED obraVars
    /\ p # "book" => UNCHANGED bookVars
    /\ p # "versions" => UNCHANGED versionVars
    /\ p # "sheets" => UNCHANGED sheetVars
    /\ p # "verdicts" => UNCHANGED keyVars
    /\ p # "accounts" => UNCHANGED accountVars
    /\ p # "programme" => UNCHANGED programaVars

servicesVars ==
    <<part, obraVars, bookVars, versionVars, sheetVars, keyVars, accountVars,
      programaVars>>

In(p) == part = p /\ UNCHANGED part

ServicesInit ==
    /\ part \in Parts
    /\ ObraInit /\ BookInit /\ VersionsInit /\ SheetsInit /\ AccountsInit
    /\ KeysInit /\ (part # "verdicts" => publicada = <<>>)
    /\ ProgramaInit /\ (part # "programme" => fase.numero = 1)

ServicesNext ==
    \/ In("obra") /\ ObraNext /\ Still("obra")
    \/ In("book") /\ BookNext /\ Still("book")
    \/ In("versions") /\ VersionsNext /\ Still("versions")
    \/ In("sheets") /\ SheetsNext /\ Still("sheets")
    \/ In("verdicts") /\ KeysNext /\ Still("verdicts")
    \/ In("accounts") /\ AccountsNext /\ Still("accounts")
    \/ In("programme") /\ ProgramaNext /\ Still("programme")

ServicesSpec == ServicesInit /\ [][ServicesNext]_servicesVars
=============================================================================

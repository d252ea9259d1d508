------------------------------- MODULE MCObra -------------------------------
(* The contract on a small instance. *)
EXTENDS Obra
CONSTANTS muro, zapata
MCContratado == [c \in Claves |-> IF c = muro THEN 2 ELSE 0]
MCPrecio == [c \in Claves |-> 10]
=============================================================================

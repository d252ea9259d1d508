---------------------------- MODULE MCEventStream ----------------------------
(***************************************************************************)
(* Small instances of the two components that owe somebody an end: the     *)
(* stream of events and the reading of the sheets.  They share no state,   *)
(* and a behaviour of this module is a behaviour of one of them: "part"    *)
(* says of which, and the state of the other stays what it was at first.   *)
(***************************************************************************)
EXTENDS EventStream, AiReading

VARIABLE part

CONSTANTS mine, other,   \* topics
          E1, E2         \* sheets

(* Every client follows one of the two topics. *)
FollowsMine == [c \in Clients |-> {mine}]

MCHojas == <<E1, E2>>

-----------------------------------------------------------------------------
bothVars == <<part, vars, aiVars>>

InEvents(A) == part = "events" /\ A /\ UNCHANGED <<part, aiVars>>
InReading(A) == part = "reading" /\ A /\ UNCHANGED <<part, vars>>

BothInit == part \in {"events", "reading"} /\ Init /\ AiInit
BothNext == InEvents(Next) \/ InReading(AiNext)

(* The fairness of EventStream; and the thread of a reading runs, and the  *)
(* model it asks answers or fails.                                         *)
BothFairness ==
    /\ \A p \in Publishers : WF_bothVars(InEvents(Wake(p)))
    /\ \A c \in Clients :
          /\ WF_bothVars(InEvents(Connect(c))) /\ WF_bothVars(InEvents(StreamStep(c)))
          /\ WF_bothVars(InEvents(SetWaiter(c))) /\ WF_bothVars(InEvents(Fetch(c)))
    /\ \A p \in Pedidos : WF_bothVars(InReading(HiloAvanza(p)))

BothSpec == BothInit /\ [][BothNext]_bothVars /\ BothFairness
=============================================================================

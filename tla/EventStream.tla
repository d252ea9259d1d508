----------------------------- MODULE EventStream -----------------------------
(***************************************************************************)
(* How a change reaches the other browsers: the event bus                  *)
(* (src/apps/api/events.py), into which request and worker threads publish, *)
(* the SSE stream that the event loop runs for each connected client       *)
(* (src/apps/api/routes/events.py), and the client, which reconnects with  *)
(* the id of the last frame it received and fetches everything again when  *)
(* it is greeted (ProjectLive.tsx).                                        *)
(*                                                                         *)
(* A stream gives control back to the loop only where it awaits or yields; *)
(* the publishing threads may run between any two of its steps.  An event  *)
(* stands for the change it announces; changes are numbered in the order   *)
(* they are made, which a restart does not reset, while the numbers of the *)
(* bus begin again.  Presence, heartbeats and the contents of events are   *)
(* left out; a stream that loses its grant ends like one whose client left. *)
(***************************************************************************)
EXTENDS Naturals, Sequences, SequencesExt, Selection

CONSTANTS
    Clients,       \* connected browsers, one stream each
    Publishers,    \* threads that publish
    Topics,        \* what an event is about (a project, or all of them)
    Follows,       \* the topics a client's stream lets through
    HistoryLimit,  \* HISTORY_LIMIT
    None,          \* no last event id
    MaxChanges,    \* bound: changes published
    MaxDrops,      \* bound: connections that break
    MaxRestarts    \* bound: restarts of the server

ASSUME EventStreamAssumption ==
    /\ Follows \in [Clients -> SUBSET Topics]
    /\ HistoryLimit \in Nat \ {0}
    /\ None \notin Nat
    /\ MaxChanges \in Nat /\ MaxDrops \in Nat /\ MaxRestarts \in Nat

VARIABLES
    seq,       \* BUS._seq
    history,   \* BUS._events
    waiters,   \* BUS._waiters: the clients whose stream is subscribed
    waking,    \* the waiters each publisher has still to wake
    callbacks, \* the waiters whose set() the loop has been asked to call
    stream,    \* the state of each client's stream
    lastId,    \* client: the id of the last frame received
    known,     \* client: the changes it shows
    stale,     \* client: it was greeted and has not fetched yet
    made,      \* the topic of every change so far
    drops, restarts

bus    == <<seq, history, waiters>>
client == <<lastId, known, stale>>
counts == <<drops, restarts>>
vars   == <<bus, waking, callbacks, stream, client, made, counts>>

Event == [seq : Nat, topic : Topics, change : Nat]
Pcs == {"off", "hello", "clear", "capture", "drain", "deliver", "wait"}
Off == [pc |-> "off", cursor |-> 0, newest |-> 0, pending |-> <<>>, set |-> FALSE]

Connected(c) == stream[c].pc # "off"

Init ==
    /\ seq = 0 /\ history = <<>> /\ waiters = {}
    /\ waking = [p \in Publishers |-> {}]
    /\ callbacks = {}
    /\ stream = [c \in Clients |-> Off]
    /\ lastId = [c \in Clients |-> None]
    /\ known = [c \in Clients |-> {}]
    /\ stale = [c \in Clients |-> FALSE]
    /\ made = <<>>
    /\ drops = 0 /\ restarts = 0

-----------------------------------------------------------------------------
(* Publishers *)

(* Variant: the history is not bounded. *)
KeepAll(s) == s

(* deque(maxlen=HISTORY_LIMIT): the oldest event makes room. *)
Bounded(s) == IF Len(s) > HistoryLimit THEN Tail(s) ELSE s

(* publish: number the event, keep it and note who waits, under the lock. *)
Publish(p, t) ==
    /\ waking[p] = {}
    /\ Len(made) < MaxChanges
    /\ made' = Append(made, t)
    /\ seq' = seq + 1
    /\ history' = Bounded(Append(history, [seq |-> seq + 1, topic |-> t,
                                           change |-> Len(made) + 1]))
    /\ waking' = [waking EXCEPT ![p] = waiters]
    /\ UNCHANGED <<waiters, callbacks, stream, client, counts>>

(* publish: outside the lock, ask the loop to set each waiter. *)
Wake(p) ==
    /\ waking[p] # {}
    /\ callbacks' = callbacks \cup waking[p]
    /\ waking' = [waking EXCEPT ![p] = {}]
    /\ UNCHANGED <<bus, stream, client, made, counts>>

-----------------------------------------------------------------------------
(* The stream of a client *)

(* Variant: the client's id is taken as it comes. *)
AsSent(c) == IF lastId[c] = None THEN seq ELSE lastId[c]

(* The cursor a client resumes from, clamped to what the bus has numbered. *)
Since(c) == IF lastId[c] = None \/ lastId[c] > seq THEN seq ELSE lastId[c]

(* A request for the stream: the cursor is fixed and the waiter subscribed. *)
Connect(c) ==
    /\ ~Connected(c)
    /\ stream' = [stream EXCEPT ![c] = [Off EXCEPT !.pc = "hello", !.cursor = Since(c)]]
    /\ waiters' = waiters \cup {c}
    /\ UNCHANGED <<seq, history, waking, callbacks, client, made, counts>>

(* The first frame greets the client, and carries the cursor as its id. *)
Greet(c) ==
    /\ stream[c].pc = "hello"
    /\ stream' = [stream EXCEPT ![c].pc = "clear"]
    /\ lastId' = [lastId EXCEPT ![c] = stream[c].cursor]
    /\ stale' = [stale EXCEPT ![c] = TRUE]
    /\ UNCHANGED <<bus, waking, callbacks, known, made, counts>>

(* The client fetches the state of its pages, with every change so far. *)
Fetch(c) ==
    /\ stale[c]
    /\ stale' = [stale EXCEPT ![c] = FALSE]
    /\ known' = [known EXCEPT ![c] = @ \cup DOMAIN made]
    /\ UNCHANGED <<bus, waking, callbacks, stream, lastId, made, counts>>

(* The loop runs the callback while the stream awaits or yields (a frame, *)
(* or a heartbeat when there is no frame to send).                        *)
SetWaiter(c) ==
    /\ c \in callbacks
    /\ stream[c].pc \in {"hello", "clear", "deliver", "wait"}
    /\ stream' = [stream EXCEPT ![c].set = TRUE]
    /\ callbacks' = callbacks \ {c}
    /\ UNCHANGED <<bus, waking, client, made, counts>>

(* The flag is cleared before the events are read. *)
Clear(c) ==
    /\ stream[c].pc = "clear"
    /\ stream' = [stream EXCEPT ![c].pc = "capture", ![c].set = FALSE]
    /\ UNCHANGED <<bus, waking, callbacks, client, made, counts>>

(* The high-water mark is read before the events are. *)
Capture(c) ==
    /\ stream[c].pc = "capture"
    /\ stream' = [stream EXCEPT ![c].pc = "drain", ![c].newest = seq]
    /\ UNCHANGED <<bus, waking, callbacks, client, made, counts>>

(* since(cursor), of the topics the stream lets through. *)
Wanted(c, e) == e.seq > stream[c].cursor /\ e.topic \in Follows[c]
After(c) == Taking(history, {i \in DOMAIN history : Wanted(c, history[i])})

Drain(c) ==
    /\ stream[c].pc = "drain"
    /\ stream' = [stream EXCEPT ![c].pc = "deliver", ![c].pending = After(c)]
    /\ UNCHANGED <<bus, waking, callbacks, client, made, counts>>

LargerOf(a, b) == IF a > b THEN a ELSE b

(* Variant: the cursor only ever takes the high-water mark. *)
DeliverBehind(c) ==
    /\ stream[c].pc = "deliver" /\ stream[c].pending # <<>>
    /\ LET e == Head(stream[c].pending)
           last == Len(stream[c].pending) = 1
       IN
         /\ stream' = [stream EXCEPT ![c].pending = Tail(@),
                          ![c].cursor = IF last THEN LargerOf(@, stream[c].newest) ELSE @,
                          ![c].pc = IF last THEN "clear" ELSE "deliver"]
         /\ lastId' = [lastId EXCEPT ![c] = e.seq]
         /\ known' = [known EXCEPT ![c] = @ \cup {e.change}]
    /\ UNCHANGED <<bus, waking, callbacks, stale, made, counts>>

(* A frame: the cursor moves to it and the client receives it.  After the  *)
(* last one the cursor takes in what was hidden, and the stream drains     *)
(* again before it waits.                                                  *)
Deliver(c) ==
    /\ stream[c].pc = "deliver" /\ stream[c].pending # <<>>
    /\ LET e == Head(stream[c].pending)
           last == Len(stream[c].pending) = 1
       IN
         /\ stream' = [stream EXCEPT ![c].pending = Tail(@),
                          ![c].cursor = IF last THEN LargerOf(e.seq, stream[c].newest) ELSE e.seq,
                          ![c].pc = IF last THEN "clear" ELSE "deliver"]
         /\ lastId' = [lastId EXCEPT ![c] = e.seq]
         /\ known' = [known EXCEPT ![c] = @ \cup {e.change}]
    /\ UNCHANGED <<bus, waking, callbacks, stale, made, counts>>

(* Variant: the flag is cleared when the stream is about to wait for it. *)
IdleAndClear(c) ==
    /\ stream[c].pc = "deliver" /\ stream[c].pending = <<>>
    /\ stream' = [stream EXCEPT ![c].pc = "wait", ![c].set = FALSE,
                                ![c].cursor = LargerOf(@, stream[c].newest)]
    /\ UNCHANGED <<bus, waking, callbacks, client, made, counts>>

(* Nothing to send: the cursor takes in what was hidden and the stream waits. *)
Idle(c) ==
    /\ stream[c].pc = "deliver" /\ stream[c].pending = <<>>
    /\ stream' = [stream EXCEPT ![c].pc = "wait",
                                ![c].cursor = LargerOf(@, stream[c].newest)]
    /\ UNCHANGED <<bus, waking, callbacks, client, made, counts>>

Resume(c) == stream' = [stream EXCEPT ![c].pc = "clear"]

(* The waiter is set. *)
Awake(c) ==
    /\ stream[c].pc = "wait" /\ stream[c].set
    /\ Resume(c)
    /\ UNCHANGED <<bus, waking, callbacks, client, made, counts>>

(* DISCONNECT_POLL_SECONDS go by. *)
TimeOut(c) ==
    /\ stream[c].pc = "wait" /\ ~stream[c].set
    /\ Resume(c)
    /\ UNCHANGED <<bus, waking, callbacks, client, made, counts>>

(* The stream of `C` is over: its waiter is unsubscribed, and a set() that *)
(* comes later sets nothing.                                               *)
Close(C) ==
    /\ stream' = [c \in Clients |-> IF c \in C THEN Off ELSE stream[c]]
    /\ waiters' = waiters \ C
    /\ callbacks' = callbacks \ C
    /\ waking' = [p \in Publishers |-> waking[p] \ C]

Drop(c) ==
    /\ Connected(c)
    /\ drops < MaxDrops
    /\ drops' = drops + 1
    /\ Close({c})
    /\ UNCHANGED <<seq, history, client, made, restarts>>

(* The server restarts: the bus begins again, the clients stay open. *)
Restart ==
    /\ restarts < MaxRestarts
    /\ restarts' = restarts + 1
    /\ seq' = 0
    /\ history' = <<>>
    /\ Close(Clients)
    /\ UNCHANGED <<client, made, drops>>

-----------------------------------------------------------------------------

StreamStep(c) ==
    Greet(c) \/ Clear(c) \/ Capture(c) \/ Drain(c) \/ Deliver(c) \/ Idle(c) \/ Awake(c)

Next ==
    \/ \E p \in Publishers, t \in Topics : Publish(p, t)
    \/ \E p \in Publishers : Wake(p)
    \/ \E c \in Clients : Connect(c) \/ StreamStep(c)
    \/ \E c \in Clients : Fetch(c) \/ SetWaiter(c) \/ TimeOut(c) \/ Drop(c)
    \/ Restart

(* The event loop runs what is ready, a publisher that began goes on, and  *)
(* the browser reconnects and fetches.  The timeout is not owed: delivery  *)
(* must not depend on it.                                                  *)
Fairness ==
    /\ \A p \in Publishers : WF_vars(Wake(p))
    /\ \A c \in Clients :
          /\ WF_vars(Connect(c)) /\ WF_vars(StreamStep(c))
          /\ WF_vars(SetWaiter(c)) /\ WF_vars(Fetch(c))

Spec == Init /\ [][Next]_vars
FairSpec == Spec /\ Fairness

-----------------------------------------------------------------------------
(* What the stream promises *)

TypeOK ==
    /\ seq \in Nat
    /\ history \in Seq(Event) /\ Len(history) <= HistoryLimit
    /\ waiters \subseteq Clients
    /\ waking \in [Publishers -> SUBSET Clients]
    /\ callbacks \subseteq Clients
    /\ stream \in [Clients -> [pc : Pcs, cursor : Nat, newest : Nat, pending : Seq(Event),
                               set : BOOLEAN]]
    /\ lastId \in [Clients -> Nat \cup {None}]
    /\ known \in [Clients -> SUBSET Nat]
    /\ stale \in [Clients -> BOOLEAN]
    /\ made \in Seq(Topics)
    /\ drops \in Nat /\ restarts \in Nat

(* Nothing is passed over: an event of the history at or behind the cursor *)
(* of a stream that greeted its client, and that the stream lets through,  *)
(* is waiting to be sent, or is known to the client, or will be once it    *)
(* has fetched; whatever was published while the stream read the bus, and  *)
(* whether or not the server restarted.                                    *)
NothingPassedOver ==
    \A c \in Clients : stream[c].pc \notin {"off", "hello"} /\ ~stale[c] =>
        \A e \in ToSet(history) :
            e.seq <= stream[c].cursor /\ e.topic \in Follows[c] =>
                e \in ToSet(stream[c].pending) \/ e.change \in known[c]

(* On one connection a client receives frames with increasing ids: none    *)
(* twice, none out of order.                                               *)
FramesInOrder ==
    [][\A c \in Clients :
          Connected(c)' /\ Len(stream'[c].pending) < Len(stream[c].pending) =>
              lastId'[c] > lastId[c]]_vars

(* Every change a client follows reaches it, through a broken connection   *)
(* and a restart, by a wakeup and never by the poll, unless as many newer  *)
(* changes as the history holds came after it.                             *)
PushedOut(i) == Len(made) >= i + HistoryLimit
Reaches(c, i) ==
    i \in DOMAIN made /\ made[i] \in Follows[c] ~> (i \in known[c] \/ PushedOut(i))
ChangesArrive == \A c \in Clients : \A i \in 1..MaxChanges : Reaches(c, i)

=============================================================================

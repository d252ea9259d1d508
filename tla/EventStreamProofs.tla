--------------------------- MODULE EventStreamProofs ---------------------------
(* What the stream promises, for every number of clients and publishers,   *)
(* every history, and however many changes, broken connections and         *)
(* restarts there are: no change is passed over, and the frames come in    *)
(* order.                                                                  *)
EXTENDS EventStream, SelectionProofs

-----------------------------------------------------------------------------
(* Types and the inductive invariant. *)

(* A stream has events to send only between the draining and the last frame. *)
(* What it has still to send is beyond its cursor, in order, and is all that *)
(* the client follows up to the high-water mark, and up to the last of it.   *)
Sending(c) ==
    LET s == stream[c] IN
    /\ \A i \in DOMAIN s.pending : s.pending[i].seq > s.cursor /\ s.pending[i].seq <= seq
    /\ \A i, j \in DOMAIN s.pending : i < j => s.pending[i].seq < s.pending[j].seq
    /\ \A e \in ToSet(history) :
          /\ e.topic \in Follows[c] /\ e.seq > s.cursor
          /\ e.seq <= s.newest \/ \E p \in ToSet(s.pending) : e.seq <= p.seq
          => e \in ToSet(s.pending)

(* What is behind the cursor is known, or will be when the client fetches.   *)
Behind(c) ==
    ~stale[c] => \A e \in ToSet(history) :
                    e.seq <= stream[c].cursor /\ e.topic \in Follows[c] => e.change \in known[c]

InStep(c) ==
    /\ stream[c].cursor <= seq /\ stream[c].newest <= seq
    /\ stream[c].pc # "deliver" => stream[c].pending = <<>>
    /\ stream[c].pc = "deliver" => Sending(c)
    /\ stream[c].pc \notin {"off", "hello"} =>
          Behind(c) /\ lastId[c] # None /\ lastId[c] <= stream[c].cursor

(* The history is in the order of its numbers, which go up to seq, and it *)
(* tells of changes that were made.                                        *)
Numbered ==
    /\ \A i, j \in DOMAIN history : i < j => history[i].seq < history[j].seq
    /\ \A i \in DOMAIN history : history[i].seq <= seq /\ history[i].change \in DOMAIN made

StreamInv == TypeOK /\ Numbered /\ \A c \in Clients : InStep(c)

-----------------------------------------------------------------------------
(* The history and what a stream reads from it. *)

LEMMA TypesOfStream ==
    ASSUME TypeOK, NEW c \in Clients
    PROVE  /\ stream[c].cursor \in Nat /\ stream[c].newest \in Nat /\ seq \in Nat
           /\ stream[c].pending \in Seq(Event) /\ stream[c].pc \in Pcs
           /\ history \in Seq(Event) /\ ToSet(history) \subseteq Event
           /\ ToSet(stream[c].pending) \subseteq Event
<1>1. /\ stream[c].cursor \in Nat /\ stream[c].newest \in Nat /\ seq \in Nat
      /\ stream[c].pending \in Seq(Event) /\ stream[c].pc \in Pcs /\ history \in Seq(Event)
  BY DEF TypeOK
<1>2. QED
  BY <1>1, LenProperties, ElementOfSeq DEF ToSet

LEMMA EventsOf ==
    ASSUME NEW h \in Seq(Event), NEW i \in DOMAIN h
    PROVE  h[i] \in Event /\ h[i].seq \in Nat
<1>1. h[i] \in Event
  BY LenProperties, ElementOfSeq
<1>2. QED
  BY <1>1 DEF Event

(* since gives what the client follows beyond the cursor, in order.        *)
LEMMA SinceTheCursor ==
    ASSUME TypeOK, Numbered, NEW c \in Clients
    PROVE  /\ After(c) \in Seq(Event)
           /\ \A i \in DOMAIN After(c) : After(c)[i].seq > stream[c].cursor /\ After(c)[i].seq <= seq
           /\ \A i, j \in DOMAIN After(c) : i < j => After(c)[i].seq < After(c)[j].seq
           /\ \A e \in ToSet(history) :
                e.seq > stream[c].cursor /\ e.topic \in Follows[c] => e \in ToSet(After(c))
<1> DEFINE I == {i \in DOMAIN history : Wanted(c, history[i])}
<1>1. history \in Seq(Event) /\ DOMAIN history = 1..Len(history)
  BY LenProperties DEF TypeOK
<1>2. After(c) = Taking(history, I)
  BY DEF After
<1>3. After(c) \in Seq(Event) /\ Fine(After(c), history, I, Len(history))
  BY <1>1, <1>2, WhatIsTaken
<1>4. \A i \in DOMAIN After(c) : \E a \in DOMAIN history :
        Wanted(c, history[a]) /\ After(c)[i] = history[a]
  BY <1>1, <1>3 DEF Fine
<1>5. \A i, j \in DOMAIN After(c) : i < j =>
        \E a, b \in DOMAIN history : a < b /\ After(c)[i] = history[a] /\ After(c)[j] = history[b]
  <2> DEFINE t == After(c)
  <2>1. Fine(t, history, I, Len(history))
    BY <1>3
  <2> HIDE DEF t, I
  <2>2. \A i, j \in DOMAIN t : i < j =>
          \E a, b \in 1..Len(history) : a < b /\ t[i] = history[a] /\ t[j] = history[b]
    BY <2>1 DEF Fine
  <2>3. QED
    BY <1>1, <2>2 DEF t
<1>6. \A a \in DOMAIN history : Wanted(c, history[a]) =>
        \E i \in DOMAIN After(c) : After(c)[i] = history[a]
  BY <1>1, <1>3 DEF Fine
<1> HIDE DEF I
<1>7. \A i \in DOMAIN After(c) : After(c)[i].seq > stream[c].cursor /\ After(c)[i].seq <= seq
  BY <1>4 DEF Wanted, Numbered
<1>8. \A i, j \in DOMAIN After(c) : i < j => After(c)[i].seq < After(c)[j].seq
  BY <1>5 DEF Numbered
<1>9. \A e \in ToSet(history) :
        e.seq > stream[c].cursor /\ e.topic \in Follows[c] => e \in ToSet(After(c))
  BY <1>6 DEF Wanted, ToSet
<1>10. QED
  BY <1>3, <1>7, <1>8, <1>9

(* The bounded history, after one more event.                              *)
LEMMA OneMoreEvent ==
    ASSUME NEW h \in Seq(Event), Len(h) <= HistoryLimit, NEW e \in Event
    PROVE  LET n == Bounded(Append(h, e)) IN
           /\ n \in Seq(Event) /\ Len(n) <= HistoryLimit
           /\ \A i \in DOMAIN n :
                \/ n[i] = e /\ i = Len(n)
                \/ \E a \in DOMAIN h : n[i] = h[a]
           /\ \A i, j \in DOMAIN n : i < j =>
                \E a \in DOMAIN h : n[i] = h[a] /\ (n[j] = e \/ \E b \in DOMAIN h : a < b /\ n[j] = h[b])
<1> DEFINE u == Append(h, e)
           n == Bounded(u)
<1>1. /\ Len(h) \in Nat /\ DOMAIN h = 1..Len(h) /\ u \in Seq(Event) /\ Len(u) = Len(h) + 1
      /\ u[Len(h) + 1] = e /\ \A i \in 1..Len(h) : u[i] = h[i]
  BY AppendProperties, LenProperties
<1>2. HistoryLimit \in Nat \ {0}
  BY EventStreamAssumption
<1> HIDE DEF u
<1>3. DOMAIN u = 1..(Len(h) + 1)
  BY <1>1, LenProperties
<1>4. CASE Len(u) > HistoryLimit
  <2>1. n = Tail(u) /\ u # <<>>
    BY <1>1, <1>4, EmptySeq DEF Bounded
  <2>2. n \in Seq(Event) /\ Len(n) = Len(h) /\ \A i \in 1..Len(n) : n[i] = u[i + 1]
    BY <1>1, <2>1, HeadTailProperties
  <2> HIDE DEF n
  <2>3. DOMAIN n = 1..Len(h)
    BY <2>2, LenProperties
  <2>4. \A i \in DOMAIN n : (n[i] = e /\ i = Len(n)) \/ (i + 1 \in DOMAIN h /\ n[i] = h[i + 1])
    BY <1>1, <2>2, <2>3
  <2>5. \A i, j \in DOMAIN n : i < j => i + 1 \in DOMAIN h /\ n[i] = h[i + 1] /\ i + 1 < j + 1
    BY <1>1, <2>2, <2>3
  <2>6. QED
    BY <2>2, <2>4, <2>5 DEF n, u
<1>5. CASE ~(Len(u) > HistoryLimit)
  <2>1. n = u
    BY <1>5 DEF Bounded
  <2>2. \A i \in DOMAIN u : (u[i] = e /\ i = Len(u)) \/ (i \in DOMAIN h /\ u[i] = h[i])
    BY <1>1, <1>3
  <2>3. \A i, j \in DOMAIN u : i < j => i \in DOMAIN h /\ u[i] = h[i]
    BY <1>1, <1>3
  <2>4. Len(u) <= HistoryLimit
    BY <1>1, <1>2, <1>5
  <2> HIDE DEF n
  <2>5. QED
    BY <1>1, <2>1, <2>2, <2>3, <2>4 DEF n, u
<1>6. QED
  BY <1>4, <1>5

-----------------------------------------------------------------------------
(* Types. *)

StreamState == [pc : Pcs, cursor : Nat, newest : Nat, pending : Seq(Event), set : BOOLEAN]

(* A step of the stream of c puts it in the state t. *)
Moves(c, t) == t \in StreamState /\ stream' = [stream EXCEPT ![c] = t]

LEMMA OneMoves ==
    ASSUME TypeOK, NEW c \in Clients, NEW t, Moves(c, t)
    PROVE  /\ stream' \in [Clients -> StreamState] /\ stream'[c] = t
           /\ \A x \in Clients : x # c => stream'[x] = stream[x]
  BY DEF TypeOK, Moves, StreamState

(* What each step of the stream makes of its own state. *)
LEMMA ConnectMoves ==
    ASSUME TypeOK, NEW c \in Clients, Connect(c)
    PROVE  \E t : Moves(c, t) /\ t.pc = "hello" /\ t.cursor <= seq /\ t.newest = 0 /\ t.pending = <<>>
<1> DEFINE t == [Off EXCEPT !.pc = "hello", !.cursor = Since(c)]
<1>1. Since(c) \in Nat /\ Since(c) <= seq
  BY DEF Since, TypeOK
<1>2. Off \in StreamState /\ Off.newest = 0 /\ Off.pending = <<>>
  <2>1. <<>> \in Seq(Event)
    OBVIOUS
  <2>2. QED
    BY <2>1 DEF Off, StreamState, Pcs
<1>3. t \in StreamState
  BY <1>1, <1>2 DEF StreamState, Pcs
<1>4. t.pc = "hello" /\ t.cursor = Since(c) /\ t.newest = 0 /\ t.pending = <<>>
  BY <1>2 DEF StreamState
<1>5. stream' = [stream EXCEPT ![c] = t]
  BY DEF Connect
<1> HIDE DEF t
<1>6. QED
  BY <1>1, <1>3, <1>4, <1>5 DEF Moves

LEMMA StaysMoves ==
    ASSUME TypeOK, NEW c \in Clients,
           Greet(c) \/ Clear(c) \/ Awake(c) \/ TimeOut(c) \/ SetWaiter(c)
    PROVE  \E t : /\ Moves(c, t) /\ t.cursor = stream[c].cursor /\ t.newest = stream[c].newest
                  /\ t.pending = stream[c].pending
                  /\ SetWaiter(c) => t.pc = stream[c].pc
                  /\ ~SetWaiter(c) => t.pc \in {"clear", "capture"}
<1> DEFINE s == stream[c]
<1>1. s \in StreamState
  BY DEF TypeOK, StreamState
<1>2. CASE SetWaiter(c)
  <2> DEFINE t == [s EXCEPT !.set = TRUE]
  <2>1. stream' = [stream EXCEPT ![c] = t]
    BY <1>2 DEF SetWaiter, TypeOK
  <2>2. QED
    BY <1>1, <1>2, <2>1 DEF Moves, StreamState
<1>3. CASE ~SetWaiter(c) /\ (Greet(c) \/ Awake(c) \/ TimeOut(c))
  <2> DEFINE t == [s EXCEPT !.pc = "clear"]
  <2>1. stream' = [stream EXCEPT ![c] = t]
    BY <1>3 DEF Greet, Awake, TimeOut, Resume, TypeOK
  <2>2. t \in StreamState
    BY <1>1 DEF StreamState, Pcs
  <2>3. /\ t.cursor = s.cursor /\ t.newest = s.newest /\ t.pending = s.pending /\ t.pc = "clear"
    BY <1>1 DEF StreamState
  <2> HIDE DEF t
  <2>4. QED
    BY <1>3, <2>1, <2>2, <2>3 DEF Moves
<1>4. CASE ~SetWaiter(c) /\ Clear(c)
  <2> DEFINE t == [s EXCEPT !.pc = "capture", !.set = FALSE]
  <2>1. stream' = [stream EXCEPT ![c] = t]
    BY <1>4 DEF Clear, TypeOK
  <2>2. t \in StreamState
    BY <1>1 DEF StreamState, Pcs
  <2>3. /\ t.cursor = s.cursor /\ t.newest = s.newest /\ t.pending = s.pending /\ t.pc = "capture"
    BY <1>1 DEF StreamState
  <2> HIDE DEF t
  <2>4. QED
    BY <1>4, <2>1, <2>2, <2>3 DEF Moves
<1>5. QED
  BY <1>2, <1>3, <1>4

LEMMA CaptureMoves ==
    ASSUME TypeOK, NEW c \in Clients, Capture(c)
    PROVE  \E t : /\ Moves(c, t) /\ t.cursor = stream[c].cursor /\ t.newest = seq
                  /\ t.pending = stream[c].pending /\ t.pc = "drain"
<1> DEFINE s == stream[c]
           t == [s EXCEPT !.pc = "drain", !.newest = seq]
<1>1. s \in StreamState /\ seq \in Nat
  BY DEF TypeOK, StreamState
<1>2. stream' = [stream EXCEPT ![c] = t]
  BY DEF Capture, TypeOK
<1>3. t \in StreamState
  BY <1>1 DEF StreamState, Pcs
<1>4. /\ t.cursor = s.cursor /\ t.newest = seq /\ t.pending = s.pending /\ t.pc = "drain"
  BY <1>1 DEF StreamState
<1> HIDE DEF t
<1>5. QED
  BY <1>2, <1>3, <1>4 DEF Moves

LEMMA DrainMoves ==
    ASSUME TypeOK, NEW c \in Clients, Drain(c), After(c) \in Seq(Event)
    PROVE  \E t : /\ Moves(c, t) /\ t.cursor = stream[c].cursor /\ t.newest = stream[c].newest
                  /\ t.pending = After(c) /\ t.pc = "deliver"
<1> DEFINE s == stream[c]
           t == [s EXCEPT !.pc = "deliver", !.pending = After(c)]
<1>1. s \in StreamState
  BY DEF TypeOK, StreamState
<1>2. stream' = [stream EXCEPT ![c] = t]
  BY DEF Drain, TypeOK
<1>3. t \in StreamState
  BY <1>1 DEF StreamState, Pcs
<1>4. /\ t.cursor = s.cursor /\ t.newest = s.newest /\ t.pending = After(c)
      /\ t.pc = "deliver"
  BY <1>1 DEF StreamState
<1> HIDE DEF t
<1>5. QED
  BY <1>2, <1>3, <1>4 DEF Moves

LEMMA IdleMoves ==
    ASSUME TypeOK, NEW c \in Clients, Idle(c)
    PROVE  \E t : /\ Moves(c, t) /\ t.cursor = LargerOf(stream[c].cursor, stream[c].newest)
                  /\ t.newest = stream[c].newest /\ t.pending = <<>> /\ t.pc = "wait"
<1> DEFINE s == stream[c]
           t == [s EXCEPT !.pc = "wait", !.cursor = LargerOf(@, s.newest)]
<1>1. s \in StreamState /\ s.pending = <<>>
  BY DEF TypeOK, StreamState, Idle
<1>2. stream' = [stream EXCEPT ![c] = t]
  BY DEF Idle, TypeOK
<1>3. LargerOf(s.cursor, s.newest) \in Nat
  BY <1>1 DEF StreamState, LargerOf
<1>4. t \in StreamState
  BY <1>1, <1>3 DEF StreamState, Pcs
<1>5. /\ t.cursor = LargerOf(s.cursor, s.newest) /\ t.newest = s.newest
      /\ t.pending = <<>> /\ t.pc = "wait"
  BY <1>1 DEF StreamState
<1> HIDE DEF t
<1>6. QED
  BY <1>2, <1>4, <1>5 DEF Moves

LEMMA DeliverMoves ==
    ASSUME TypeOK, NEW c \in Clients, Deliver(c)
    PROVE  LET s == stream[c]
               e == Head(s.pending) IN
           /\ s.pending # <<>> /\ e \in Event /\ s.pc = "deliver"
           /\ \E t : /\ Moves(c, t) /\ t.newest = s.newest /\ t.pending = Tail(s.pending)
                     /\ \/ t.pc = "deliver" /\ t.cursor = e.seq
                        \/ /\ t.pc = "clear" /\ t.cursor = LargerOf(e.seq, s.newest)
                           /\ Len(s.pending) = 1
           /\ lastId' = [lastId EXCEPT ![c] = e.seq]
           /\ known' = [known EXCEPT ![c] = @ \cup {e.change}]
<1> DEFINE s == stream[c]
           e == Head(s.pending)
           last == Len(s.pending) = 1
           t == [s EXCEPT !.pending = Tail(@),
                          !.cursor = IF last THEN LargerOf(e.seq, s.newest) ELSE e.seq,
                          !.pc = IF last THEN "clear" ELSE "deliver"]
<1>1. s \in StreamState /\ s.pending # <<>> /\ s.pc = "deliver"
  BY DEF TypeOK, StreamState, Deliver
<1>2. s.pending \in Seq(Event)
  BY <1>1 DEF StreamState
<1>3. e \in Event /\ Tail(s.pending) \in Seq(Event)
  BY <1>1, <1>2, HeadTailProperties
<1>4. stream' = [stream EXCEPT ![c] = t]
  BY DEF Deliver, TypeOK
<1>5. e.seq \in Nat /\ LargerOf(e.seq, s.newest) \in Nat
  BY <1>1, <1>3 DEF Event, StreamState, LargerOf
<1>6. /\ t.newest = s.newest /\ t.pending = Tail(s.pending)
      /\ t.cursor = IF last THEN LargerOf(e.seq, s.newest) ELSE e.seq
      /\ t.pc = IF last THEN "clear" ELSE "deliver"
  BY <1>1 DEF StreamState
<1>7. t \in StreamState
  <2>1. t.cursor \in Nat /\ t.pc \in Pcs
    BY <1>5, <1>6 DEF Pcs
  <2>2. QED
    BY <1>1, <1>3, <1>6, <2>1 DEF StreamState
<1>8. /\ lastId' = [lastId EXCEPT ![c] = e.seq]
      /\ known' = [known EXCEPT ![c] = @ \cup {e.change}]
  BY DEF Deliver
<1> HIDE DEF t
<1>9. \/ t.pc = "deliver" /\ t.cursor = e.seq
      \/ t.pc = "clear" /\ t.cursor = LargerOf(e.seq, s.newest) /\ last
  BY <1>6
<1>10. Moves(c, t)
  BY <1>4, <1>7 DEF Moves
<1>11. QED
  BY <1>1, <1>3, <1>6, <1>8, <1>9, <1>10

LEMMA OffState == Off \in StreamState /\ Off.pc = "off" /\ Off.cursor = 0 /\ Off.newest = 0 /\ Off.pending = <<>>
<1>1. <<>> \in Seq(Event)
  OBVIOUS
<1>2. QED
  BY <1>1 DEF Off, StreamState, Pcs

LEMMA Closed ==
    ASSUME TypeOK, NEW C \in SUBSET Clients, Close(C)
    PROVE  /\ stream' \in [Clients -> StreamState]
           /\ \A x \in Clients : stream'[x] = IF x \in C THEN Off ELSE stream[x]
           /\ waiters' \subseteq Clients /\ callbacks' \subseteq Clients
           /\ waking' \in [Publishers -> SUBSET Clients]
  BY OffState DEF Close, TypeOK, StreamState

(* A publication. *)
LEMMA Published ==
    ASSUME TypeOK, NEW p \in Publishers, NEW t \in Topics, Publish(p, t)
    PROVE  \E e \in Event :
             /\ history' = Bounded(Append(history, e)) /\ e.seq = seq + 1
             /\ e.change = Len(made) + 1 /\ seq' = seq + 1 /\ seq' \in Nat
             /\ made' \in Seq(Topics) /\ DOMAIN made' = 1..(Len(made) + 1)
             /\ DOMAIN made = 1..Len(made) /\ Len(made) \in Nat
<1> DEFINE e == [seq |-> seq + 1, topic |-> t, change |-> Len(made) + 1]
<1>1. made \in Seq(Topics) /\ seq \in Nat /\ Len(made) \in Nat /\ DOMAIN made = 1..Len(made)
  BY LenProperties DEF TypeOK
<1>2. e \in Event /\ e.seq = seq + 1 /\ e.change = Len(made) + 1
  BY <1>1 DEF Event
<1>3. history' = Bounded(Append(history, e)) /\ seq' = seq + 1 /\ made' = Append(made, t)
  BY DEF Publish
<1>4. made' \in Seq(Topics) /\ DOMAIN made' = 1..(Len(made) + 1)
  <2>1. Append(made, t) \in Seq(Topics) /\ Len(Append(made, t)) = Len(made) + 1
    BY <1>1, AppendProperties
  <2>2. QED
    BY <1>3, <2>1, LenProperties
<1> HIDE DEF e
<1>5. QED
  BY <1>1, <1>2, <1>3, <1>4

LEMMA InitTypes == Init => TypeOK
<1> SUFFICES ASSUME Init PROVE TypeOK
  OBVIOUS
<1>1. <<>> \in Seq(Event) /\ <<>> \in Seq(Topics) /\ Len(<<>>) = 0
  OBVIOUS
<1>2. stream \in [Clients -> StreamState]
  BY OffState DEF Init
<1>3. history \in Seq(Event) /\ Len(history) <= HistoryLimit /\ made \in Seq(Topics)
  BY <1>1, EventStreamAssumption DEF Init
<1>4. QED
  BY <1>2, <1>3 DEF Init, TypeOK, StreamState

LEMMA NextTypes == TypeOK /\ [Next]_vars => TypeOK'
<1> SUFFICES ASSUME TypeOK, [Next]_vars PROVE TypeOK'
  OBVIOUS
<1>1. ASSUME NEW p \in Publishers, NEW t \in Topics, Publish(p, t) PROVE TypeOK'
  <2>1. PICK e \in Event :
          /\ history' = Bounded(Append(history, e)) /\ seq' \in Nat /\ made' \in Seq(Topics)
    BY <1>1, Published
  <2>2. history' \in Seq(Event) /\ Len(history') <= HistoryLimit
    BY <2>1, OneMoreEvent DEF TypeOK
  <2>3. waking' \in [Publishers -> SUBSET Clients]
    BY <1>1 DEF Publish, TypeOK
  <2>4. QED
    BY <1>1, <2>1, <2>2, <2>3 DEF Publish, TypeOK, client, counts
<1>2. ASSUME NEW p \in Publishers, Wake(p) PROVE TypeOK'
  BY <1>2 DEF Wake, TypeOK, bus, client, counts
<1>3. ASSUME NEW c \in Clients, Connect(c) PROVE TypeOK'
  <2>1. stream' \in [Clients -> StreamState]
    BY <1>3, ConnectMoves, OneMoves
  <2>2. QED
    BY <1>3, <2>1 DEF Connect, TypeOK, client, counts, StreamState
<1>4. ASSUME NEW c \in Clients, Greet(c) PROVE TypeOK'
  <2>1. stream' \in [Clients -> StreamState]
    BY <1>4, StaysMoves, OneMoves
  <2>2. lastId' \in [Clients -> Nat \cup {None}] /\ stale' \in [Clients -> BOOLEAN]
    BY <1>4 DEF Greet, TypeOK
  <2>3. QED
    BY <1>4, <2>1, <2>2 DEF Greet, TypeOK, bus, counts, StreamState
<1>5. ASSUME NEW c \in Clients, Clear(c) \/ Awake(c) \/ TimeOut(c) \/ SetWaiter(c) PROVE TypeOK'
  <2>1. stream' \in [Clients -> StreamState]
    BY <1>5, StaysMoves, OneMoves
  <2>2. /\ UNCHANGED <<bus, waking, client, made, counts>> /\ callbacks' \subseteq callbacks
    BY <1>5 DEF Clear, Awake, TimeOut, SetWaiter
  <2>3. QED
    BY <2>1, <2>2 DEF TypeOK, bus, client, counts, StreamState
<1>6. ASSUME NEW c \in Clients, Capture(c) PROVE TypeOK'
  <2>1. stream' \in [Clients -> StreamState]
    BY <1>6, CaptureMoves, OneMoves
  <2>2. QED
    BY <1>6, <2>1 DEF Capture, TypeOK, bus, client, counts, StreamState
<1>7. ASSUME NEW c \in Clients, Drain(c) PROVE TypeOK'
  <2>1. After(c) \in Seq(Event)
    BY WhatIsTaken DEF After, TypeOK
  <2>2. stream' \in [Clients -> StreamState]
    BY <1>7, <2>1, DrainMoves, OneMoves
  <2>3. QED
    BY <1>7, <2>2 DEF Drain, TypeOK, bus, client, counts, StreamState
<1>8. ASSUME NEW c \in Clients, Deliver(c) PROVE TypeOK'
  <2> DEFINE e == Head(stream[c].pending)
  <2>1. /\ stream' \in [Clients -> StreamState] /\ e \in Event
        /\ lastId' = [lastId EXCEPT ![c] = e.seq]
        /\ known' = [known EXCEPT ![c] = @ \cup {e.change}]
    BY <1>8, DeliverMoves, OneMoves
  <2> HIDE DEF e
  <2>2. e.seq \in Nat /\ e.change \in Nat
    BY <2>1 DEF Event
  <2>3. lastId' \in [Clients -> Nat \cup {None}] /\ known' \in [Clients -> SUBSET Nat]
    BY <2>1, <2>2 DEF TypeOK
  <2>4. QED
    BY <1>8, <2>1, <2>3 DEF Deliver, TypeOK, bus, counts, StreamState
<1>9. ASSUME NEW c \in Clients, Idle(c) PROVE TypeOK'
  <2>1. stream' \in [Clients -> StreamState]
    BY <1>9, IdleMoves, OneMoves
  <2>2. QED
    BY <1>9, <2>1 DEF Idle, TypeOK, bus, client, counts, StreamState
<1>10. ASSUME NEW c \in Clients, Fetch(c) PROVE TypeOK'
  <2>1. DOMAIN made \subseteq Nat
    BY LenProperties DEF TypeOK
  <2>2. known' \in [Clients -> SUBSET Nat] /\ stale' \in [Clients -> BOOLEAN]
    BY <1>10, <2>1 DEF Fetch, TypeOK
  <2>3. QED
    BY <1>10, <2>2 DEF Fetch, TypeOK, bus, counts
<1>11. ASSUME NEW c \in Clients, Drop(c) PROVE TypeOK'
  <2>1. Close({c}) /\ {c} \in SUBSET Clients
    BY <1>11 DEF Drop
  <2>2. /\ stream' \in [Clients -> StreamState]
        /\ waiters' \subseteq Clients /\ callbacks' \subseteq Clients
        /\ waking' \in [Publishers -> SUBSET Clients]
    BY <2>1, Closed
  <2>3. drops' \in Nat /\ UNCHANGED <<seq, history, made, restarts, lastId, known, stale>>
    BY <1>11 DEF Drop, TypeOK, client
  <2>4. QED
    BY <2>2, <2>3 DEF TypeOK, StreamState
<1>12. CASE Restart
  <2>1. history' \in Seq(Event) /\ Len(history') <= HistoryLimit
    BY <1>12, EventStreamAssumption DEF Restart
  <2>2. QED
    BY <1>12, <2>1, Closed DEF Restart, TypeOK, client, StreamState
<1>13. CASE UNCHANGED vars
  BY <1>13 DEF vars, bus, client, counts, TypeOK
<1>14. QED
  BY <1>1, <1>2, <1>3, <1>4, <1>5, <1>6, <1>7, <1>8, <1>9, <1>10, <1>11, <1>12, <1>13
     DEF Next, StreamStep

(* Every variable of the bus, the streams and the clients keeps its type,  *)
(* and the history its bound.                                              *)
THEOREM StreamTypes == Spec => []TypeOK
  BY InitTypes, NextTypes, PTL DEF Spec

-----------------------------------------------------------------------------
(* The invariant. *)

(* A step of others, which leaves the bus as it is. *)
LEMMA Undisturbed ==
    ASSUME NEW x \in Clients, InStep(x), seq' = seq, history' = history,
           stream'[x] = stream[x], lastId'[x] = lastId[x], known'[x] = known[x], stale'[x] = stale[x]
    PROVE  InStep(x)'
  BY DEF InStep, Sending, Behind

LEMMA AfterAMove ==
    ASSUME TypeOK, \A x \in Clients : InStep(x), NEW c \in Clients, NEW t, Moves(c, t),
           seq' = seq, history' = history,
           \A x \in Clients : x # c =>
             lastId'[x] = lastId[x] /\ known'[x] = known[x] /\ stale'[x] = stale[x],
           InStep(c)'
    PROVE  \A x \in Clients : InStep(x)'
  BY OneMoves, Undisturbed

LEMMA NewAndOldEvents ==
    ASSUME TypeOK, NEW p \in Publishers, NEW t \in Topics, Publish(p, t), Numbered,
           \A x \in Clients : InStep(x)
    PROVE  Numbered' /\ \A x \in Clients : InStep(x)'
<1>1. PICK e \in Event :
        /\ history' = Bounded(Append(history, e)) /\ e.seq = seq + 1
        /\ e.change = Len(made) + 1 /\ seq' = seq + 1
        /\ DOMAIN made' = 1..(Len(made) + 1) /\ DOMAIN made = 1..Len(made) /\ Len(made) \in Nat
  BY Published
<1>2. history \in Seq(Event) /\ Len(history) <= HistoryLimit /\ seq \in Nat
  BY DEF TypeOK
<1>3. \A i \in DOMAIN history' : history'[i] = e \/ \E a \in DOMAIN history : history'[i] = history[a]
  BY <1>1, <1>2, OneMoreEvent
<1>4. \A i, j \in DOMAIN history' : i < j =>
        \E a \in DOMAIN history : /\ history'[i] = history[a]
                                  /\ \/ history'[j] = e
                                     \/ \E b \in DOMAIN history : a < b /\ history'[j] = history[b]
  <2> DEFINE n == Bounded(Append(history, e))
  <2>1. \A i, j \in DOMAIN n : i < j =>
          \E a \in DOMAIN history :
             n[i] = history[a] /\ (n[j] = e \/ \E b \in DOMAIN history : a < b /\ n[j] = history[b])
    BY <1>2, OneMoreEvent
  <2>2. history' = n
    BY <1>1
  <2> HIDE DEF n
  <2>3. QED
    BY <2>1, <2>2
<1>5. \A a \in DOMAIN history : history[a] \in Event /\ history[a].seq \in Nat
  BY <1>2, EventsOf
<1>6. Numbered'
  <2>1. \A i, j \in DOMAIN history' : i < j => history'[i].seq < history'[j].seq
    <3> SUFFICES ASSUME NEW i \in DOMAIN history', NEW j \in DOMAIN history', i < j
                 PROVE  history'[i].seq < history'[j].seq
      OBVIOUS
    <3>1. PICK a \in DOMAIN history :
            /\ history'[i] = history[a]
            /\ \/ history'[j] = e
               \/ \E b \in DOMAIN history : a < b /\ history'[j] = history[b]
      BY <1>4
    <3>2. history[a].seq <= seq /\ \A b \in DOMAIN history : a < b => history[a].seq < history[b].seq
      BY DEF Numbered
    <3>3. QED
      BY <1>1, <1>2, <1>5, <3>1, <3>2
  <2>2. \A i \in DOMAIN history' : history'[i].seq <= seq' /\ history'[i].change \in DOMAIN made'
    <3> SUFFICES ASSUME NEW i \in DOMAIN history'
                 PROVE  history'[i].seq <= seq' /\ history'[i].change \in DOMAIN made'
      OBVIOUS
    <3>1. CASE history'[i] = e
      BY <1>1, <1>2, <3>1
    <3>2. CASE \E a \in DOMAIN history : history'[i] = history[a]
      <4>1. PICK a \in DOMAIN history : history'[i] = history[a]
        BY <3>2
      <4>2. history[a].seq <= seq /\ history[a].change \in DOMAIN made /\ history[a].seq \in Nat
        BY <1>5 DEF Numbered
      <4>3. QED
        BY <1>1, <1>2, <4>1, <4>2
    <3>3. QED
      BY <1>3, <3>1, <3>2
  <2>3. QED
    BY <2>1, <2>2 DEF Numbered
<1>7. \A d \in ToSet(history') : d \in ToSet(history) \/ d.seq = seq + 1
  BY <1>1, <1>3 DEF ToSet
<1>8. /\ stream' = stream /\ lastId' = lastId /\ known' = known /\ stale' = stale
  BY DEF Publish, client
<1>9. ASSUME NEW x \in Clients PROVE InStep(x)'
  <2> DEFINE s == stream[x]
  <2>1. InStep(x) /\ s.cursor \in Nat /\ s.newest \in Nat /\ s.pending \in Seq(Event)
    BY TypesOfStream
  <2>2. \A i \in DOMAIN s.pending : s.pending[i] \in Event /\ s.pending[i].seq \in Nat
    BY <2>1, EventsOf
  <2>3. s.cursor <= seq' /\ s.newest <= seq'
    BY <1>1, <1>2, <2>1 DEF InStep
  <2>4. ASSUME Sending(x) PROVE Sending(x)'
    <3>1. /\ \A i \in DOMAIN s.pending : s.pending[i].seq > s.cursor /\ s.pending[i].seq <= seq
          /\ \A i, j \in DOMAIN s.pending : i < j => s.pending[i].seq < s.pending[j].seq
      BY <2>4 DEF Sending
    <3>2. \A i \in DOMAIN s.pending : s.pending[i].seq > s.cursor /\ s.pending[i].seq <= seq'
      BY <1>1, <1>2, <2>2, <3>1
    <3>3. ASSUME NEW d \in ToSet(history'), d.topic \in Follows[x], d.seq > s.cursor,
                 d.seq <= s.newest \/ \E q \in ToSet(s.pending) : d.seq <= q.seq
          PROVE  d \in ToSet(s.pending)
      <4>1. CASE d \in ToSet(history)
        BY <2>4, <3>3, <4>1 DEF Sending
      <4>2. CASE d.seq = seq + 1
        <5>1. \A q \in ToSet(s.pending) : q.seq \in Nat /\ q.seq <= seq
          BY <2>2, <3>1 DEF ToSet
        <5>2. s.newest <= seq
          BY <2>1 DEF InStep
        <5>3. QED
          BY <1>2, <2>1, <3>3, <4>2, <5>1, <5>2
      <4>3. QED
        BY <1>7, <4>1, <4>2
    <3>4. QED
      BY <1>8, <3>1, <3>2, <3>3 DEF Sending
  <2>5. ASSUME Behind(x) PROVE Behind(x)'
    <3>1. ASSUME NEW d \in ToSet(history'), d.seq <= s.cursor PROVE d \in ToSet(history)
      <4>1. d.seq # seq + 1
        BY <1>2, <2>1, <3>1 DEF InStep
      <4>2. QED
        BY <1>7, <4>1
    <3>2. QED
      BY <1>8, <2>5, <3>1 DEF Behind
  <2>6. QED
    BY <1>8, <2>1, <2>3, <2>4, <2>5 DEF InStep
<1>10. QED
  BY <1>6, <1>9

(* A frame: what comes first is the oldest of what the client follows.     *)
LEMMA FirstOfPending ==
    ASSUME TypeOK, NEW c \in Clients, InStep(c), Deliver(c)
    PROVE  LET s == stream[c]
               e == Head(s.pending)
               rest == Tail(s.pending) IN
           /\ e.seq \in Nat /\ e.seq > s.cursor /\ e.seq <= seq /\ rest \in Seq(Event)
           /\ \A d \in ToSet(s.pending) : d = e \/ (d.seq > e.seq /\ d \in ToSet(rest))
           /\ \A i \in DOMAIN rest : rest[i].seq > e.seq /\ rest[i].seq <= seq
           /\ \A i, j \in DOMAIN rest : i < j => rest[i].seq < rest[j].seq
           /\ ToSet(rest) \subseteq ToSet(s.pending)
           /\ Len(s.pending) = 1 => rest = <<>>
           /\ Len(rest) < Len(s.pending)
<1> DEFINE f == stream[c].pending
           rest == Tail(f)
<1>1. f \in Seq(Event) /\ f # <<>> /\ stream[c].pc = "deliver"
  BY TypesOfStream DEF Deliver
<1>2. /\ \A i \in DOMAIN f : f[i].seq > stream[c].cursor /\ f[i].seq <= seq
      /\ \A i, j \in DOMAIN f : i < j => f[i].seq < f[j].seq
  BY <1>1 DEF InStep, Sending
<1> HIDE DEF f
<1>3. /\ Len(f) \in Nat /\ Len(f) # 0 /\ DOMAIN f = 1..Len(f) /\ Head(f) = f[1] /\ Head(f) \in Event
  BY <1>1, EmptySeq, LenProperties, HeadTailProperties
<1>4. /\ rest \in Seq(Event) /\ Len(rest) = Len(f) - 1
      /\ \A i \in 1..Len(rest) : rest[i] = f[i + 1]
  BY <1>1, HeadTailProperties
<1> HIDE DEF rest
<1>5. DOMAIN rest = 1..(Len(f) - 1)
  BY <1>4, LenProperties
<1>6. \A i \in DOMAIN rest : i + 1 \in DOMAIN f /\ 1 < i + 1 /\ rest[i] = f[i + 1]
  BY <1>3, <1>4, <1>5
<1>7. 1 \in DOMAIN f /\ \A k \in DOMAIN f : k = 1 \/ (1 < k /\ k - 1 \in DOMAIN rest /\ rest[k - 1] = f[k])
  <2>1. \A k \in DOMAIN f : k # 1 => 1 < k /\ k - 1 \in DOMAIN rest /\ (k - 1) + 1 = k
    BY <1>3, <1>5
  <2>2. QED
    BY <1>3, <1>6, <2>1
<1>8. \A i, j \in DOMAIN rest : i < j => i + 1 < j + 1
  BY <1>5
<1>9. \A i, j \in DOMAIN rest : i < j => rest[i].seq < rest[j].seq
  BY <1>2, <1>6, <1>8
<1>10. \A i \in DOMAIN rest : rest[i].seq > Head(f).seq /\ rest[i].seq <= seq
  <2>1. \A i \in DOMAIN rest : f[1].seq < f[i + 1].seq /\ f[i + 1].seq <= seq
    BY <1>2, <1>6, <1>7
  <2>2. QED
    BY <1>3, <1>6, <2>1
<1>11. \A d \in ToSet(f) : d = Head(f) \/ (d.seq > Head(f).seq /\ d \in ToSet(rest))
  <2>1. \A k \in DOMAIN f : k # 1 => f[k].seq > f[1].seq /\ f[k] \in ToSet(rest)
    BY <1>2, <1>7 DEF ToSet
  <2>2. QED
    BY <1>3, <2>1 DEF ToSet
<1>12. ToSet(rest) \subseteq ToSet(f)
  BY <1>6 DEF ToSet
<1>13. Len(f) = 1 => rest = <<>>
  BY <1>4, EmptySeq
<1>14. Head(f).seq \in Nat /\ Head(f).seq > stream[c].cursor /\ Head(f).seq <= seq
  BY <1>2, <1>3, <1>7 DEF Event
<1>15. Len(rest) < Len(f)
  BY <1>3, <1>4
<1>16. QED
  BY <1>4, <1>9, <1>10, <1>11, <1>12, <1>13, <1>14, <1>15 DEF f, rest

LEMMA DeliveredInStep ==
    ASSUME TypeOK, NEW c \in Clients, InStep(c), Deliver(c)
    PROVE  InStep(c)' /\ lastId'[c] > lastId[c]
<1> DEFINE s == stream[c]
           e == Head(s.pending)
           rest == Tail(s.pending)
<1>1. /\ s.pc = "deliver" /\ e \in Event
      /\ lastId' = [lastId EXCEPT ![c] = e.seq]
      /\ known' = [known EXCEPT ![c] = @ \cup {e.change}]
  BY DeliverMoves
<1>2. PICK t :
        /\ Moves(c, t) /\ t.newest = s.newest /\ t.pending = rest
        /\ \/ t.pc = "deliver" /\ t.cursor = e.seq
           \/ t.pc = "clear" /\ t.cursor = LargerOf(e.seq, s.newest) /\ Len(s.pending) = 1
  BY DeliverMoves
<1>3. /\ e.seq \in Nat /\ e.seq > s.cursor /\ e.seq <= seq /\ rest \in Seq(Event)
      /\ \A d \in ToSet(s.pending) : d = e \/ (d.seq > e.seq /\ d \in ToSet(rest))
      /\ \A i \in DOMAIN rest : rest[i].seq > e.seq /\ rest[i].seq <= seq
      /\ \A i, j \in DOMAIN rest : i < j => rest[i].seq < rest[j].seq
      /\ ToSet(rest) \subseteq ToSet(s.pending)
      /\ Len(s.pending) = 1 => rest = <<>>
  BY FirstOfPending
<1>4. /\ s.cursor \in Nat /\ s.newest \in Nat /\ seq \in Nat
      /\ \A d \in ToSet(history) : d \in Event /\ d.seq \in Nat
  BY TypesOfStream DEF Event
<1>5. /\ Sending(c) /\ Behind(c) /\ s.newest <= seq
      /\ lastId[c] \in Nat /\ lastId[c] <= s.cursor
  BY <1>1 DEF InStep, TypeOK
<1>6. stream'[c] = t
  BY <1>2, OneMoves
<1>7. /\ lastId'[c] = e.seq /\ known'[c] = known[c] \cup {e.change}
      /\ seq' = seq /\ history' = history /\ stale' = stale
  BY <1>1 DEF TypeOK, Deliver, bus
<1> HIDE DEF s, e, rest
<1>8. t.cursor \in Nat /\ e.seq <= t.cursor /\ t.cursor <= seq
  BY <1>2, <1>3, <1>4, <1>5 DEF LargerOf
<1>9. lastId'[c] > lastId[c] /\ lastId'[c] # None /\ lastId'[c] <= t.cursor
  BY <1>3, <1>4, <1>5, <1>7, <1>8, EventStreamAssumption
<1>10. \A d \in ToSet(history) :
         d.topic \in Follows[c] /\ d.seq > s.cursor /\ (d.seq <= s.newest \/ d.seq <= e.seq) => d \in ToSet(s.pending)
  <2>1. e \in ToSet(s.pending)
    <3>1. s.pending \in Seq(Event) /\ s.pending # <<>>
      BY TypesOfStream, DeliverMoves DEF s
    <3>2. 1 \in DOMAIN s.pending /\ e = s.pending[1]
      BY <3>1, EmptySeq, LenProperties, HeadTailProperties DEF e
    <3>3. QED
      BY <3>2 DEF ToSet
  <2>2. QED
    BY <1>5, <2>1 DEF Sending, s
<1>11. Behind(c)'
  <2> SUFFICES ASSUME ~stale[c], NEW d \in ToSet(history), d.seq <= t.cursor, d.topic \in Follows[c]
               PROVE  d.change \in known'[c]
    BY <1>6, <1>7 DEF Behind
  <2>1. CASE d.seq <= s.cursor
    BY <1>5, <1>7, <2>1 DEF Behind, s
  <2>2. CASE d.seq > s.cursor
    <3>1. d.seq <= e.seq \/ (d.seq <= s.newest /\ rest = <<>>)
      BY <1>2, <1>3, <1>4 DEF LargerOf
    <3>2. d \in ToSet(s.pending)
      BY <1>10, <2>2, <3>1
    <3>3. d = e
      <4>1. CASE d.seq <= e.seq
        BY <1>3, <1>4, <3>2, <4>1
      <4>2. CASE rest = <<>>
        <5>1. ToSet(rest) = {}
          <6>1. DOMAIN <<>> = {}
            OBVIOUS
          <6>2. QED
            BY <4>2, <6>1 DEF ToSet
        <5>2. QED
          BY <1>3, <3>2, <5>1
      <4>3. QED
        BY <3>1, <4>1, <4>2
    <3>4. QED
      BY <1>7, <3>3
  <2>3. QED
    BY <1>4, <2>1, <2>2
<1>12. t.pc = "deliver" => Sending(c)'
  <2> SUFFICES ASSUME t.pc = "deliver" PROVE Sending(c)'
    OBVIOUS
  <2>1. t.cursor = e.seq
    BY <1>2
  <2>2. ASSUME NEW d \in ToSet(history), d.topic \in Follows[c], d.seq > e.seq,
               d.seq <= s.newest \/ \E q \in ToSet(rest) : d.seq <= q.seq
        PROVE  d \in ToSet(rest)
    <3>1. d.seq > s.cursor
      BY <1>3, <1>4, <2>2
    <3>2. d \in ToSet(s.pending)
      BY <1>3, <1>5, <2>2, <3>1 DEF Sending, s
    <3>3. ~(d.seq > d.seq)
      BY <1>4
    <3>4. QED
      BY <1>3, <2>2, <3>2, <3>3
  <2>3. QED
    BY <1>2, <1>3, <1>6, <1>7, <2>1, <2>2 DEF Sending
<1>13. t.pc # "deliver" => t.pending = <<>>
  BY <1>2, <1>3
<1>14. InStep(c)'
  BY <1>2, <1>5, <1>6, <1>7, <1>8, <1>9, <1>11, <1>12, <1>13 DEF InStep
<1>15. QED
  BY <1>9, <1>14

LEMMA IdleInStep ==
    ASSUME TypeOK, NEW c \in Clients, InStep(c), Idle(c)
    PROVE  InStep(c)'
<1> DEFINE s == stream[c]
<1>1. PICK t : /\ Moves(c, t) /\ t.cursor = LargerOf(s.cursor, s.newest)
               /\ t.newest = s.newest /\ t.pending = <<>> /\ t.pc = "wait"
  BY IdleMoves
<1>2. stream'[c] = t
  BY <1>1, OneMoves
<1>3. /\ s.pc = "deliver" /\ s.pending = <<>>
      /\ UNCHANGED <<seq, history, lastId, known, stale>>
  BY DEF Idle, bus, client
<1>4. /\ s.cursor \in Nat /\ s.newest \in Nat /\ seq \in Nat
      /\ \A d \in ToSet(history) : d.seq \in Nat
  BY TypesOfStream DEF Event
<1>5. /\ Sending(c) /\ Behind(c) /\ s.newest <= seq /\ s.cursor <= seq
      /\ lastId[c] # None /\ lastId[c] \in Nat /\ lastId[c] <= s.cursor
  BY <1>3 DEF InStep, TypeOK
<1>6. ToSet(s.pending) = {}
  <2>1. DOMAIN <<>> = {}
    OBVIOUS
  <2>2. QED
    BY <1>3, <2>1 DEF ToSet
<1>7. \A d \in ToSet(history) :
        d.topic \in Follows[c] /\ d.seq <= t.cursor => d.seq <= s.cursor
  <2> SUFFICES ASSUME NEW d \in ToSet(history), d.topic \in Follows[c], d.seq <= t.cursor, d.seq > s.cursor
               PROVE  FALSE
    BY <1>4
  <2>1. d.seq <= s.newest
    BY <1>1, <1>4 DEF LargerOf
  <2>2. QED
    BY <1>5, <1>6, <2>1 DEF Sending
<1> HIDE DEF s
<1>8. Behind(c)'
  BY <1>2, <1>3, <1>5, <1>7 DEF Behind, s
<1>9. t.cursor <= seq /\ lastId[c] <= t.cursor
  BY <1>1, <1>4, <1>5 DEF LargerOf
<1>10. QED
  BY <1>1, <1>2, <1>3, <1>5, <1>8, <1>9 DEF InStep

LEMMA StepsInStep ==
    ASSUME TypeOK, Numbered, NEW c \in Clients, InStep(c),
           \/ Connect(c) \/ Greet(c) \/ Clear(c) \/ Capture(c) \/ Drain(c)
           \/ Awake(c) \/ TimeOut(c) \/ SetWaiter(c)
    PROVE  \E t : /\ Moves(c, t) /\ InStep(c)'
                  /\ Connected(c)' => Len(stream'[c].pending) >= Len(stream[c].pending) \/ stream[c].pending = <<>>
<1> DEFINE s == stream[c]
<1>1. /\ s.cursor \in Nat /\ s.newest \in Nat /\ seq \in Nat /\ seq <= seq
      /\ Len(s.pending) \in Nat
  BY TypesOfStream, LenProperties
<1>2. seq' = seq /\ history' = history
  BY DEF Connect, Greet, Clear, Capture, Drain, Awake, TimeOut, SetWaiter, bus
<1>3. CASE Connect(c)
  <2>1. PICK t : Moves(c, t) /\ t.pc = "hello" /\ t.cursor <= seq /\ t.newest = 0 /\ t.pending = <<>>
    BY <1>3, ConnectMoves
  <2>2. stream'[c] = t /\ s.pending = <<>>
    BY <1>3, <2>1, OneMoves DEF Connect, Connected, InStep
  <2>3. InStep(c)'
    BY <1>1, <1>2, <2>1, <2>2 DEF InStep
  <2>4. QED
    BY <2>1, <2>2, <2>3
<1>4. CASE Greet(c)
  <2>1. PICK t : /\ Moves(c, t) /\ t.cursor = s.cursor /\ t.newest = s.newest
                 /\ t.pending = s.pending /\ t.pc \in {"clear", "capture"}
    BY <1>4, StaysMoves DEF Greet, SetWaiter, Moves
  <2>2. stream'[c] = t
    BY <2>1, OneMoves
  <2>3. /\ s.pc = "hello" /\ lastId'[c] = s.cursor /\ stale'[c] = TRUE
    BY <1>4 DEF Greet, TypeOK
  <2>4. s.pending = <<>> /\ s.cursor <= seq /\ s.newest <= seq
    BY <2>3 DEF InStep
  <2>5. InStep(c)'
    BY <1>1, <1>2, <2>1, <2>2, <2>3, <2>4, EventStreamAssumption DEF InStep, Behind
  <2>6. QED
    BY <2>1, <2>4, <2>5
<1>5. CASE Clear(c) \/ Awake(c) \/ TimeOut(c)
  <2>1. s.pc \in {"clear", "wait"} /\ UNCHANGED <<lastId, known, stale>>
    BY <1>5 DEF Clear, Awake, TimeOut, client
  <2>2. PICK t : /\ Moves(c, t) /\ t.cursor = s.cursor /\ t.newest = s.newest
                 /\ t.pending = s.pending /\ t.pc \in {"clear", "capture"}
    <3>1. CASE SetWaiter(c)
      <4>1. stream'[c].pc = s.pc /\ stream'[c].pc \in {"clear", "capture"}
        BY <1>5, <3>1 DEF SetWaiter, Clear, Awake, TimeOut, Resume, TypeOK
      <4>2. PICK t : /\ Moves(c, t) /\ t.cursor = s.cursor /\ t.newest = s.newest
                     /\ t.pending = s.pending
        BY <3>1, StaysMoves
      <4>3. QED
        BY <4>1, <4>2, OneMoves
    <3>2. CASE ~SetWaiter(c)
      BY <1>5, <3>2, StaysMoves
    <3>3. QED
      BY <3>1, <3>2
  <2>3. stream'[c] = t
    BY <2>2, OneMoves
  <2>4. /\ s.pending = <<>> /\ s.cursor <= seq /\ s.newest <= seq /\ Behind(c)
        /\ lastId[c] # None /\ lastId[c] <= s.cursor
    BY <2>1 DEF InStep
  <2>5. InStep(c)'
    BY <1>2, <2>1, <2>2, <2>3, <2>4 DEF InStep, Behind
  <2>6. QED
    BY <2>2, <2>4, <2>5
<1>6. CASE SetWaiter(c)
  <2>1. PICK t : /\ Moves(c, t) /\ t.cursor = s.cursor /\ t.newest = s.newest
                 /\ t.pending = s.pending /\ t.pc = s.pc
    BY <1>6, StaysMoves
  <2>2. stream'[c] = t /\ UNCHANGED <<lastId, known, stale>>
    BY <1>6, <2>1, OneMoves DEF SetWaiter, client
  <2>3. InStep(c)'
    BY <1>2, <2>1, <2>2 DEF InStep, Behind, Sending
  <2>4. QED
    BY <1>1, <2>1, <2>2, <2>3
<1>7. CASE Capture(c)
  <2>1. PICK t : /\ Moves(c, t) /\ t.cursor = s.cursor /\ t.newest = seq
                 /\ t.pending = s.pending /\ t.pc = "drain"
    BY <1>7, CaptureMoves
  <2>2. stream'[c] = t /\ UNCHANGED <<lastId, known, stale>> /\ s.pc = "capture"
    BY <1>7, <2>1, OneMoves DEF Capture, client
  <2>3. /\ s.pending = <<>> /\ s.cursor <= seq /\ Behind(c)
        /\ lastId[c] # None /\ lastId[c] <= s.cursor
    BY <2>2 DEF InStep
  <2>4. InStep(c)'
    BY <1>1, <1>2, <2>1, <2>2, <2>3 DEF InStep, Behind
  <2>5. QED
    BY <2>1, <2>3, <2>4
<1>8. CASE Drain(c)
  <2>1. /\ After(c) \in Seq(Event)
        /\ \A i \in DOMAIN After(c) : After(c)[i].seq > s.cursor /\ After(c)[i].seq <= seq
        /\ \A i, j \in DOMAIN After(c) : i < j => After(c)[i].seq < After(c)[j].seq
        /\ \A e \in ToSet(history) :
             e.seq > s.cursor /\ e.topic \in Follows[c] => e \in ToSet(After(c))
    BY SinceTheCursor
  <2>2. PICK t : /\ Moves(c, t) /\ t.cursor = s.cursor /\ t.newest = s.newest
                 /\ t.pending = After(c) /\ t.pc = "deliver"
    BY <1>8, <2>1, DrainMoves
  <2>3. stream'[c] = t /\ UNCHANGED <<lastId, known, stale>> /\ s.pc = "drain"
    BY <1>8, <2>2, OneMoves DEF Drain, client
  <2>4. /\ s.pending = <<>> /\ s.cursor <= seq /\ s.newest <= seq /\ Behind(c)
        /\ lastId[c] # None /\ lastId[c] <= s.cursor
    BY <2>3 DEF InStep
  <2>5. Sending(c)'
    BY <1>2, <2>1, <2>2, <2>3 DEF Sending
  <2>6. InStep(c)'
    BY <1>2, <2>2, <2>3, <2>4, <2>5 DEF InStep, Behind
  <2>7. QED
    BY <2>2, <2>4, <2>6
<1>9. QED
  BY <1>3, <1>4, <1>5, <1>6, <1>7, <1>8

(* A step leaves every stream in step, and takes from what one has to send *)
(* only by sending it, unless the stream is over.                          *)
Shortens(c) == Connected(c)' /\ Len(stream'[c].pending) < Len(stream[c].pending)

LEMMA TheOthers ==
    ASSUME TypeOK, NEW c \in Clients, NEW t, Moves(c, t), NEW x \in Clients, x # c
    PROVE  ~Shortens(x)
<1>1. stream'[x] = stream[x] /\ Len(stream[x].pending) \in Nat
  BY OneMoves, TypesOfStream, LenProperties
<1>2. QED
  BY <1>1 DEF Shortens

LEMMA NextInStep ==
    ASSUME StreamInv, [Next]_vars
    PROVE  /\ Numbered' /\ \A x \in Clients : InStep(x)'
           /\ \A x \in Clients : Shortens(x) => lastId'[x] > lastId[x]
<1>1. TypeOK /\ Numbered /\ \A x \in Clients : InStep(x)
  BY DEF StreamInv
<1>2. \A x \in Clients : Len(stream[x].pending) \in Nat
  BY <1>1, TypesOfStream, LenProperties
<1>3. stream' = stream => \A x \in Clients : ~Shortens(x)
  BY <1>2 DEF Shortens
<1>4. history' = history /\ seq' = seq /\ made' = made => Numbered'
  BY <1>1 DEF Numbered
<1>5. ASSUME NEW p \in Publishers, NEW t \in Topics, Publish(p, t)
      PROVE  /\ Numbered' /\ \A x \in Clients : InStep(x)'
             /\ \A x \in Clients : ~Shortens(x)
  BY <1>1, <1>3, <1>5, NewAndOldEvents DEF Publish
<1>6. ASSUME (\E p \in Publishers : Wake(p)) \/ UNCHANGED vars
      PROVE  /\ Numbered' /\ \A x \in Clients : InStep(x)'
             /\ \A x \in Clients : ~Shortens(x)
  <2>1. /\ seq' = seq /\ history' = history /\ made' = made /\ stream' = stream
        /\ UNCHANGED <<lastId, known, stale>>
    BY <1>6 DEF Wake, vars, bus, client
  <2>2. QED
    BY <1>1, <1>3, <1>4, <2>1, Undisturbed
<1>7. ASSUME NEW c \in Clients,
             \/ Connect(c) \/ Greet(c) \/ Clear(c) \/ Capture(c) \/ Drain(c)
             \/ Awake(c) \/ TimeOut(c) \/ SetWaiter(c)
      PROVE  /\ Numbered' /\ \A x \in Clients : InStep(x)'
             /\ \A x \in Clients : ~Shortens(x)
  <2>1. PICK t : /\ Moves(c, t) /\ InStep(c)'
                 /\ \/ ~Connected(c)'
                    \/ Len(stream'[c].pending) >= Len(stream[c].pending)
                    \/ stream[c].pending = <<>>
    BY <1>1, <1>7, StepsInStep
  <2>2. /\ seq' = seq /\ history' = history /\ made' = made
        /\ \A x \in Clients : x # c =>
             lastId'[x] = lastId[x] /\ known'[x] = known[x] /\ stale'[x] = stale[x]
    BY <1>1, <1>7 DEF Connect, Greet, Clear, Capture, Drain, Awake, TimeOut, SetWaiter, bus, client, TypeOK
  <2>3. stream'[c].pending \in Seq(Event) /\ Len(stream'[c].pending) \in Nat
    BY <1>1, <2>1, OneMoves, LenProperties DEF StreamState
  <2>4. ~Shortens(c)
    <3>1. Len(<<>>) = 0
      OBVIOUS
    <3>2. QED
      BY <1>2, <2>1, <2>3, <3>1 DEF Shortens
  <2>5. QED
    BY <1>1, <1>4, <2>1, <2>2, <2>4, AfterAMove, TheOthers
<1>8. ASSUME NEW c \in Clients, Deliver(c)
      PROVE  /\ Numbered' /\ \A x \in Clients : InStep(x)'
             /\ \A x \in Clients : Shortens(x) => lastId'[x] > lastId[x]
  <2>1. InStep(c)' /\ lastId'[c] > lastId[c]
    BY <1>1, <1>8, DeliveredInStep
  <2>2. PICK t : Moves(c, t)
    BY <1>1, <1>8, DeliverMoves
  <2>3. /\ seq' = seq /\ history' = history /\ made' = made
        /\ \A x \in Clients : x # c =>
             lastId'[x] = lastId[x] /\ known'[x] = known[x] /\ stale'[x] = stale[x]
    BY <1>1, <1>8 DEF Deliver, bus, TypeOK
  <2>4. QED
    BY <1>1, <1>4, <2>1, <2>2, <2>3, AfterAMove, TheOthers
<1>9. ASSUME NEW c \in Clients, Idle(c)
      PROVE  /\ Numbered' /\ \A x \in Clients : InStep(x)'
             /\ \A x \in Clients : ~Shortens(x)
  <2>1. PICK t : Moves(c, t) /\ t.pending = <<>>
    BY <1>1, <1>9, IdleMoves
  <2>2. InStep(c)'
    BY <1>1, <1>9, IdleInStep
  <2>3. /\ seq' = seq /\ history' = history /\ made' = made
        /\ UNCHANGED <<lastId, known, stale>> /\ stream[c].pending = <<>>
    BY <1>9 DEF Idle, bus, client
  <2>4. ~Shortens(c)
    <3>1. Len(<<>>) = 0 /\ stream'[c].pending = <<>>
      BY <1>1, <2>1, OneMoves
    <3>2. QED
      BY <2>3, <3>1 DEF Shortens
  <2>5. QED
    BY <1>1, <1>4, <2>1, <2>2, <2>3, <2>4, AfterAMove, TheOthers
<1>10. ASSUME NEW c \in Clients, Fetch(c)
       PROVE  /\ Numbered' /\ \A x \in Clients : InStep(x)'
              /\ \A x \in Clients : ~Shortens(x)
  <2>1. /\ seq' = seq /\ history' = history /\ made' = made /\ stream' = stream /\ lastId' = lastId
        /\ stale'[c] = FALSE /\ known'[c] = known[c] \cup DOMAIN made
        /\ \A x \in Clients : x # c => known'[x] = known[x] /\ stale'[x] = stale[x]
    BY <1>1, <1>10 DEF Fetch, bus, TypeOK
  <2>2. \A d \in ToSet(history) : d.change \in DOMAIN made
    BY <1>1 DEF Numbered, ToSet
  <2>3. InStep(c)'
    BY <1>1, <2>1, <2>2 DEF InStep, Sending, Behind
  <2>4. \A x \in Clients : x # c => InStep(x)'
    BY <1>1, <2>1, Undisturbed
  <2>5. QED
    BY <1>3, <1>4, <2>1, <2>3, <2>4
<1>11. ASSUME NEW x \in Clients, stream'[x] = Off, seq' \in Nat
       PROVE  InStep(x)' /\ ~Shortens(x)
  BY <1>11, OffState DEF InStep, Shortens, Connected
<1>12. ASSUME NEW c \in Clients, Drop(c)
       PROVE  /\ Numbered' /\ \A x \in Clients : InStep(x)'
              /\ \A x \in Clients : ~Shortens(x)
  <2>1. /\ \A x \in Clients : stream'[x] = IF x \in {c} THEN Off ELSE stream[x]
        /\ seq' = seq /\ history' = history /\ made' = made /\ UNCHANGED <<lastId, known, stale>>
    BY <1>1, <1>12, Closed DEF Drop, client
  <2>2. seq' \in Nat
    BY <1>1, <2>1 DEF TypeOK
  <2>3. \A x \in Clients : x # c => InStep(x)' /\ ~Shortens(x)
    BY <1>1, <1>2, <2>1, Undisturbed DEF Shortens
  <2>4. InStep(c)' /\ ~Shortens(c)
    BY <1>11, <2>1, <2>2
  <2>5. QED
    BY <1>4, <2>1, <2>3, <2>4
<1>13. CASE Restart
  <2>1. \A x \in Clients : stream'[x] = Off
    BY <1>1, <1>13, Closed DEF Restart
  <2>2. seq' = 0 /\ history' = <<>>
    BY <1>13 DEF Restart
  <2>3. Numbered'
    <3>1. DOMAIN <<>> = {}
      OBVIOUS
    <3>2. QED
      BY <2>2, <3>1 DEF Numbered
  <2>4. QED
    BY <1>11, <2>1, <2>2, <2>3
<1>14. QED
  BY <1>5, <1>6, <1>7, <1>8, <1>9, <1>10, <1>12, <1>13 DEF Next, StreamStep

LEMMA InitInStep == Init => StreamInv
<1> SUFFICES ASSUME Init PROVE Numbered /\ \A c \in Clients : InStep(c)
  BY InitTypes DEF StreamInv
<1>1. DOMAIN <<>> = {}
  OBVIOUS
<1>2. QED
  BY <1>1, OffState DEF Init, Numbered, InStep

LEMMA StreamInvariant == Spec => []StreamInv
<1>1. StreamInv /\ [Next]_vars => StreamInv'
  BY NextTypes, NextInStep DEF StreamInv
<1>2. QED
  BY <1>1, InitInStep, PTL DEF Spec

(* No change is passed over: what the cursor of a greeted stream has left  *)
(* behind is known to its client, or will be when it fetches, whatever was *)
(* published while the stream read the bus, and whether or not the server  *)
(* restarted (_stream_response: the high-water mark, the order of clear    *)
(* and read, and the clamping of the client's id).                         *)
THEOREM NoChangeIsPassedOver == Spec => []NothingPassedOver
<1>1. StreamInv => NothingPassedOver
  BY DEF StreamInv, InStep, Behind, NothingPassedOver
<1>2. QED
  BY <1>1, StreamInvariant, PTL

(* On one connection a client receives frames with increasing ids.         *)
THEOREM FramesComeInOrder == Spec => FramesInOrder
<1>1. StreamInv /\ [Next]_vars =>
        [\A c \in Clients :
           Connected(c)' /\ Len(stream'[c].pending) < Len(stream[c].pending) =>
             lastId'[c] > lastId[c]]_vars
  BY NextInStep DEF Shortens
<1>2. QED
  BY <1>1, StreamInvariant, PTL DEF Spec, FramesInOrder

=============================================================================

--------------------------- MODULE EventBusProofs ---------------------------
(***************************************************************************)
(* What sessions see of each other's events in EventRouter: no echo, each  *)
(* sender's order, and nothing twice.  And EventRouter implements EventBus:*)
(* every step of the sessions and the worker is a step of the bus or leaves*)
(* the bus as it is.                                                       *)
(***************************************************************************)
EXTENDS EventRouterProofs, SequenceTheorems

(* What Append and Tail do to the places of a queue of events.             *)
LEMMA AppendPlaces ==
  ASSUME NEW q \in Seq(Event), NEW e \in Event
  PROVE  /\ DOMAIN q = 1..Len(q) /\ Len(q) \in Nat
         /\ DOMAIN Append(q, e) = 1..(Len(q) + 1)
         /\ \A i \in DOMAIN q : Append(q, e)[i] = q[i] /\ q[i] \in Event
         /\ Append(q, e)[Len(q) + 1] = e
BY AppendProperties, LenProperties, ElementOfSeq

LEMMA TailPlaces ==
  ASSUME NEW q \in Seq(Event), q # <<>>
  PROVE  /\ Head(q) = q[1] /\ 1 \in DOMAIN q
         /\ \A i \in DOMAIN Tail(q) :
              i \in Nat /\ i >= 1 /\ i + 1 \in DOMAIN q /\ Tail(q)[i] = q[i + 1]
<1>1. DOMAIN q = 1..Len(q) /\ Len(q) \in Nat /\ Len(q) > 0
  BY LenProperties, EmptySeq
<1>2. DOMAIN Tail(q) = 1..(Len(q) - 1)
  BY HeadTailProperties, LenProperties
<1> QED
  BY <1>1, <1>2, HeadTailProperties

-----------------------------------------------------------------------------
(* No echo.                                                                *)

(* The sessions whose obid is set from their own id.                       *)
Marked == Clients \ (Binary \cup Matrix)
Own(e) == e.src \in Marked => e.obid = e.src

(* A marked event keeps its mark on its way, and the worker never heads    *)
(* for the session that the mark names.                                    *)
EchoInv ==
  /\ \A c \in Clients : pending[c] # None => Own(pending[c])
  /\ \A i \in DOMAIN outQueue : Own(outQueue[i])
  /\ current # None => Own(current)
  /\ target # None => target # current.obid
  /\ NoEcho

(* A step that moves no event, or moves it away.                           *)
LEMMA EchoQuiet ==
  ASSUME EchoInv, UNCHANGED <<outQueue, log>>,
         \A x \in Clients : pending'[x] \in {None, pending[x]},
         target' = None \/ UNCHANGED <<target, current>>,
         current' \in {None, current}
  PROVE  EchoInv'
BY DEF EchoInv, NoEcho, NoEchoFrom, Own

(* Every step keeps the marks and leaves the marked session out.           *)
LEMMA EchoStep == TypeInv /\ TypeInv' /\ LockInv /\ EchoInv /\ [Next]_vars => EchoInv'
<1> SUFFICES ASSUME TypeInv, TypeInv', LockInv, EchoInv, [Next]_vars PROVE EchoInv'
  OBVIOUS
<1> USE RouterAssumption, NoneIsNoEvent DEF RouterAssumption
<1>1. CASE WorkerTake
  <2>1. target = None /\ UNCHANGED <<pending, log, target>>
    BY <1>1 DEF WorkerTake, TypeInv, Staged, history
  <2>2. CASE outQueue = <<>>
    BY <1>1, <2>1, <2>2, EchoQuiet DEF WorkerTake
  <2>3. CASE outQueue # <<>>
    <3>1. outQueue' = Tail(outQueue) /\ current' = Head(outQueue)
      BY <1>1, <2>3 DEF WorkerTake
    <3>2. outQueue \in Seq(Event)
      BY DEF TypeInv, TypeOK
    <3>3. /\ Head(outQueue) = outQueue[1] /\ 1 \in DOMAIN outQueue
          /\ \A i \in DOMAIN Tail(outQueue) :
               i + 1 \in DOMAIN outQueue /\ Tail(outQueue)[i] = outQueue[i + 1]
      BY <2>3, <3>2, TailPlaces
    <3>4. Own(current') /\ \A i \in DOMAIN outQueue' : Own(outQueue'[i])
      BY <3>1, <3>3 DEF EchoInv
    <3> QED
      BY <2>1, <3>4 DEF EchoInv, NoEcho, NoEchoFrom, Own
  <2> QED
    BY <2>2, <2>3
<1>2. CASE WorkerLock
  BY <1>2, EchoQuiet DEF WorkerLock, queues, history
<1>3. CASE WorkerPut
  <2>1. /\ target \in Clients /\ current \in Event
        /\ log' = [log EXCEPT ![target] = Append(@, current)]
        /\ UNCHANGED <<outQueue, pending, current>> /\ target' = None
    BY <1>3 DEF WorkerPut, TypeInv, TypeOK, Staged
  <2>2. log[target] \in Seq(Event)
    BY <2>1 DEF TypeInv, TypeOK
  <2>3. target \in Marked => current.src # target
    BY <1>3, <2>1 DEF EchoInv, Own, WorkerPut
  <2>4. ASSUME NEW c \in Marked, NEW i \in DOMAIN log'[c] PROVE log'[c][i].src # c
    <3>1. CASE c = target
      <4>1. log'[c] = Append(log[c], current)
        BY <2>1, <3>1 DEF TypeInv, TypeOK
      <4> QED
        BY <2>1, <2>2, <2>3, <3>1, <4>1, AppendPlaces DEF EchoInv, NoEcho, NoEchoFrom, Marked
    <3>2. CASE c # target
      BY <2>1, <3>2 DEF EchoInv, NoEcho, NoEchoFrom, Marked, TypeInv, TypeOK
    <3> QED
      BY <3>1, <3>2
  <2>5. NoEcho'
    BY <2>4 DEF NoEcho, NoEchoFrom, Marked
  <2> QED
    BY <2>1, <2>5 DEF EchoInv, Own
<1>4. CASE WorkerUnlock
  BY <1>4, EchoQuiet DEF WorkerUnlock, queues, history
<1>5. ASSUME NEW c \in Clients, WorkerVisit(c) PROVE EchoInv'
  <2>1. UNCHANGED <<outQueue, pending, log, current>>
    BY <1>5 DEF WorkerVisit, queues, history
  <2>2. target' # None => target' # current.obid
    BY <1>5 DEF WorkerVisit, Wanted
  <2> QED
    BY <2>1, <2>2 DEF EchoInv, NoEcho, NoEchoFrom, Own
<1>6. ASSUME NEW c \in Clients, Producer(c) PROVE EchoInv'
  <2>1. ASSUME NEW e \in Event, SubmitText(c, e) \/ SubmitMarked(c, e) \/ SubmitUnmarked(c, e)
        PROVE EchoInv'
    <3>1. UNCHANGED <<outQueue, log, target, current>>
          /\ pending' = [pending EXCEPT ![c] = e] /\ e.src = c
      BY <2>1 DEF SubmitText, SubmitMarked, SubmitUnmarked, Submit, queues, worker, history
    <3>2. Own(e)
      BY <2>1, <3>1 DEF SubmitText, SubmitMarked, SubmitUnmarked, Own, Marked, Text
    <3> QED
      BY <3>1, <3>2 DEF EchoInv, NoEcho, NoEchoFrom, Own, TypeInv, TypeOK
  <2>2. CASE DirectMiss(c) \/ DirectFull(c) \/ DirectFound(c) \/ DirectPut(c)
             \/ CheckRoom(c) \/ DropFull(c)
    <3>1. UNCHANGED <<outQueue, log, target, current>>
      BY <2>2 DEF DirectMiss, DirectFull, DirectFound, DirectPut, CheckRoom, DropFull,
         queues, worker, history
    <3>2. pending' = pending \/ pending' = [pending EXCEPT ![c] = None]
      <4>1. CASE DirectMiss(c) \/ DirectFound(c) \/ CheckRoom(c)
        BY <4>1 DEF DirectMiss, DirectFound, CheckRoom
      <4>2. CASE DirectFull(c) \/ DirectPut(c) \/ DropFull(c)
        BY <4>2 DEF DirectFull, DirectPut, DropFull, Finish
      <4> QED
        BY <2>2, <4>1, <4>2
    <3>3. \A x \in Clients : pending'[x] \in {None, pending[x]}
      <4>1. pending \in [Clients -> Event \cup {None}]
        BY DEF TypeInv, TypeOK
      <4> QED
        BY <3>2, <4>1
    <3> QED
      BY <3>1, <3>3, EchoQuiet
  <2>3. CASE AppendOut(c)
    <3>1. /\ outQueue' = Append(outQueue, pending[c]) /\ pending[c] \in Event
          /\ pending' = [pending EXCEPT ![c] = None] /\ UNCHANGED <<log, target, current>>
      BY <2>3 DEF AppendOut, Finish, worker, history, TypeInv, Staged
    <3>2. \A i \in DOMAIN outQueue' : Own(outQueue'[i])
      <4>1. outQueue \in Seq(Event) /\ pending[c] # None
        BY <3>1 DEF TypeInv, TypeOK
      <4> QED
        BY <3>1, <4>1, AppendPlaces DEF EchoInv
    <3> QED
      BY <3>1, <3>2 DEF EchoInv, NoEcho, NoEchoFrom, Own, TypeInv, TypeOK
  <2> QED
    BY <1>6, <2>1, <2>2, <2>3 DEF Producer
<1>7. ASSUME NEW c \in Clients, Consumer(c) PROVE EchoInv'
  BY <1>7, EchoQuiet DEF Consumer, EnterLoop, WaitAndTake, Retrieve, ReadHangs,
     ClearInputQueue, DeviceSent, DeviceSendFails, queues, worker, history
<1>8. ASSUME NEW c \in Clients, Session(c) PROVE EchoInv'
  BY <1>8, EchoQuiet DEF Session, Join, Leave, SetFilter, ListBegin, ListEnd, queues,
     worker, history
<1>9. CASE UNCHANGED vars
  BY <1>9, EchoQuiet DEF vars, queues, worker, history
<1> QED
  BY <1>1, <1>2, <1>3, <1>4, <1>5, <1>6, <1>7, <1>8, <1>9 DEF Next, WorkerStep

(* No session that marks its events ever gets one of them back.            *)
THEOREM NothingEchoed == Spec => []NoEcho
<1>1. Init => EchoInv
  BY DEF Init, EchoInv, NoEcho, NoEchoFrom
<1>2. TypeInv /\ TypeInv' /\ LockInv /\ EchoInv /\ [Next]_vars => EchoInv'
  BY EchoStep
<1>3. EchoInv => NoEcho
  BY DEF EchoInv
<1> QED
  BY <1>1, <1>2, <1>3, TypeInvariant, LockInvariant, PTL DEF Spec

-----------------------------------------------------------------------------
(* Order.                                                                  *)

(* The serial number of the last event that a session is done with, and    *)
(* what is at most that old.                                               *)
Done(s) == IF pending[s] = None THEN num[s] ELSE num[s] - 1
Settled(e) == e.num <= Done(e.src)

(* Of two events of one sender, e was submitted first.                     *)
Older(e, f) == e.src = f.src => e.num < f.num

Submitting == {"lookup", "put", "check", "append"}

(* The sessions that the worker's event has not yet been appended to.      *)
Ahead(c) == mutex # Worker \/ c \in todo \/ c = target

(* A pending event is its session's latest; everything else on its way, or *)
(* delivered, is settled.                                                  *)
Latest ==
  \A c \in Clients :
    /\ pending[c] # None <=> pc[c] \in Submitting
    /\ pending[c] # None => pending[c].src = c /\ pending[c].num = num[c]

AllSettled ==
  /\ \A i \in DOMAIN outQueue : Settled(outQueue[i])
  /\ current # None => Settled(current)
  /\ \A c \in Clients : \A i \in DOMAIN log[c] : Settled(log[c][i])
  /\ \A e \in direct : Settled(e)

(* Logs, the worker's event, and the output queue, in this order.          *)
Line ==
  /\ \A i, j \in DOMAIN outQueue : i < j => Older(outQueue[i], outQueue[j])
  /\ current # None => \A i \in DOMAIN outQueue : Older(current, outQueue[i])
  /\ \A c \in Clients : \A i \in DOMAIN log[c] :
       /\ \A j \in DOMAIN outQueue : Older(log[c][i], outQueue[j])
       /\ current # None /\ Ahead(c) => Older(log[c][i], current)
       /\ \A j \in DOMAIN log[c] : i < j => Older(log[c][i], log[c][j])

OrderInv ==
  /\ Latest
  /\ AllSettled
  /\ Line
  /\ target # None => target \notin todo
  /\ AddressedOnce

(* Every event on its way or delivered is an event.                        *)
LEMMA OnTheWay ==
  ASSUME TypeInv
  PROVE  /\ outQueue \in Seq(Event) /\ \A i \in DOMAIN outQueue : outQueue[i] \in Event
         /\ \A c \in Clients :
              log[c] \in Seq(Event) /\ \A i \in DOMAIN log[c] : log[c][i] \in Event
         /\ direct \subseteq Event
         /\ current # None => current \in Event
         /\ \A c \in Clients : num[c] \in Nat /\ pending[c] \in Event \cup {None}
<1>1. /\ outQueue \in Seq(Event) /\ log \in [Clients -> Seq(Event)] /\ direct \subseteq Event
      /\ current \in Event \cup {None} /\ num \in [Clients -> 0..MaxSend]
      /\ pending \in [Clients -> Event \cup {None}]
  BY DEF TypeInv, TypeOK
<1>2. \A q \in Seq(Event) : \A i \in DOMAIN q : q[i] \in Event
  BY ElementOfSeq, LenProperties
<1>3. num \in [Clients -> Nat]
  BY <1>1, RouterAssumption DEF RouterAssumption
<1> QED
  BY <1>1, <1>2, <1>3

(* What is settled stays so, since no session goes back.                   *)
LEMMA SettledStays ==
  ASSUME TypeInv, TypeInv', \A s \in Clients : Done(s) <= Done(s)',
         NEW e \in Event, Settled(e)
  PROVE  Settled(e)'
<1>1. e.src \in Clients /\ e.num \in Nat
  BY RouterAssumption DEF Event, RouterAssumption
<1>2. num[e.src] \in Nat /\ num'[e.src] \in Nat
  <2>1. num \in [Clients -> 0..MaxSend] /\ num' \in [Clients -> 0..MaxSend]
    BY DEF TypeInv, TypeOK
  <2> QED
    BY <1>1, <2>1, RouterAssumption DEF RouterAssumption
<1>3. Done(e.src) \in Int /\ Done(e.src)' \in Int
  BY <1>2 DEF Done
<1> QED
  BY <1>1, <1>3 DEF Settled

(* A step that moves no event, unless the worker is done with one.         *)
LEMMA OrderQuiet ==
  ASSUME TypeInv, TypeInv', OrderInv, Latest', UNCHANGED <<outQueue, log, direct>>,
         current' \in {None, current},
         \A s \in Clients : Done(s) <= Done(s)',
         \A c \in Clients : current' # None /\ Ahead(c)' => Ahead(c),
         target' # None => target' \notin todo'
  PROVE  OrderInv'
<1>1. AllSettled'
  BY OnTheWay, SettledStays DEF OrderInv, AllSettled
<1>2. Line'
  <2>1. current' # None => current' = current
    OBVIOUS
  <2>2. \A e \in Event, f \in Event : Older(e, f) => Older(e, f)'
    BY DEF Older
  <2> QED
    BY <2>1, <2>2 DEF OrderInv, Line, Older
<1>3. AddressedOnce'
  <2>1. None \notin direct
    BY OnTheWay, NoneIsNoEvent
  <2> QED
    BY <2>1 DEF OrderInv, AddressedOnce
<1> QED
  BY <1>1, <1>2, <1>3 DEF OrderInv

(* A step that leaves the events, the threads' stages and the worker       *)
(* alone.                                                                  *)
LEMMA OrderSame ==
  ASSUME TypeInv, TypeInv', OrderInv,
         UNCHANGED <<outQueue, log, direct, current, todo, target, pending, num>>,
         \A x \in Clients : pc'[x] \in Submitting <=> pc[x] \in Submitting,
         mutex = Worker => mutex' = Worker
  PROVE  OrderInv'
<1>1. Latest'
  BY DEF OrderInv, Latest
<1>2. \A s \in Clients : Done(s) <= Done(s)'
  BY OnTheWay DEF Done
<1>3. \A c \in Clients : Ahead(c)' => Ahead(c)
  BY DEF Ahead
<1>4. target' # None => target' \notin todo'
  BY DEF OrderInv
<1> QED
  BY <1>1, <1>2, <1>3, <1>4, OrderQuiet

(* A session gets done with its event: nobody's settled events change.     *)
LEMMA FinishLatest ==
  ASSUME TypeInv, TypeInv', OrderInv, NEW c \in Clients, Finish(c), UNCHANGED num
  PROVE  /\ Latest'
         /\ \A s \in Clients : Done(s) <= Done(s)'
         /\ Done(c)' = num[c]
<1>1. pc \in [Clients -> PcStates] /\ pending \in [Clients -> Event \cup {None}]
  BY DEF TypeInv, TypeOK
<1>2. /\ pc'[c] = "idle" /\ pending'[c] = None
      /\ \A x \in Clients \ {c} : pc'[x] = pc[x] /\ pending'[x] = pending[x]
  BY <1>1 DEF Finish, Goto
<1>3. Latest'
  BY <1>2 DEF OrderInv, Latest, Submitting
<1>4. \A s \in Clients : Done(s) <= Done(s)'
  BY <1>2, OnTheWay DEF Done
<1> QED
  BY <1>2, <1>3, <1>4 DEF Done

(* An event that is pending is newer than all that is settled.             *)
LEMMA PendingIsNew ==
  ASSUME TypeInv, OrderInv, NEW c \in Clients, pending[c] # None,
         NEW e \in Event, Settled(e)
  PROVE  Older(e, pending[c]) /\ e # pending[c]
<1>1. pending[c].src = c /\ pending[c].num = num[c] /\ num[c] \in Nat
  BY OnTheWay DEF OrderInv, Latest
<1>2. e.src \in Clients /\ e.num \in Nat
  BY RouterAssumption DEF Event, RouterAssumption
<1>3. e.src = c => e.num <= num[c] - 1
  BY DEF Settled, Done
<1> QED
  BY <1>1, <1>2, <1>3 DEF Older

(* The worker takes the oldest event of the queue.                         *)
LEMMA OrderTake ==
  ASSUME TypeInv, TypeInv', OrderInv, WorkerTake
  PROVE  OrderInv'
<1>1. /\ current = None /\ target = None /\ mutex # Worker
      /\ UNCHANGED <<pc, pending, num, log, direct, todo, target, mutex>>
  BY DEF WorkerTake, TypeInv, Staged, history
<1>2. Latest' /\ \A s \in Clients : Done(s) <= Done(s)'
  BY <1>1, OnTheWay DEF OrderInv, Latest, Done
<1>3. CASE outQueue = <<>>
  <2>1. UNCHANGED <<outQueue, current>>
    BY <1>3 DEF WorkerTake
  <2> QED
    BY <1>1, <1>2, <2>1, OrderQuiet DEF Ahead
<1>4. CASE outQueue # <<>>
  <2>1. outQueue' = Tail(outQueue) /\ current' = Head(outQueue)
    BY <1>4 DEF WorkerTake
  <2>2. /\ current' = outQueue[1] /\ 1 \in DOMAIN outQueue
        /\ \A i \in DOMAIN outQueue' :
             i \in Nat /\ i >= 1 /\ i + 1 \in DOMAIN outQueue
             /\ outQueue'[i] = outQueue[i + 1]
    BY <1>4, <2>1, TailPlaces, OnTheWay
  <2>3. \A e \in Event : Settled(e) => Settled(e)'
    BY <1>2, SettledStays
  <2>4. AllSettled'
    BY <1>1, <2>2, <2>3, OnTheWay DEF OrderInv, AllSettled
  <2>5. Line'
    <3>1. \A i, j \in DOMAIN outQueue' : i < j => Older(outQueue'[i], outQueue'[j])
      BY <2>2 DEF OrderInv, Line
    <3>2. \A i \in DOMAIN outQueue' : Older(current', outQueue'[i])
      BY <2>2 DEF OrderInv, Line
    <3>3. ASSUME NEW c \in Clients, NEW i \in DOMAIN log[c]
          PROVE  /\ \A j \in DOMAIN outQueue' : Older(log[c][i], outQueue'[j])
                 /\ Older(log[c][i], current')
                 /\ \A j \in DOMAIN log[c] : i < j => Older(log[c][i], log[c][j])
      BY <2>2 DEF OrderInv, Line
    <3> QED
      BY <1>1, <3>1, <3>2, <3>3 DEF Line, Older
  <2>6. AddressedOnce'
    BY <1>1, <2>2 DEF OrderInv, AddressedOnce
  <2> QED
    BY <1>1, <1>2, <2>4, <2>5, <2>6 DEF OrderInv
<1> QED
  BY <1>3, <1>4

(* The worker appends its event to a session's queue.                      *)
LEMMA OrderPut ==
  ASSUME TypeInv, TypeInv', LockInv, OrderInv, WorkerPut
  PROVE  OrderInv'
<1>1. /\ target \in Clients /\ current \in Event /\ current # None /\ mutex = Worker
      /\ log' = [log EXCEPT ![target] = Append(@, current)]
      /\ UNCHANGED <<outQueue, pc, pending, num, current, todo, direct, mutex>>
      /\ target' = None
  BY NoneIsNoEvent DEF WorkerPut, TypeInv, TypeOK, Staged, LockInv, Owners
<1>2. Latest' /\ \A s \in Clients : Done(s) <= Done(s)'
  BY <1>1, OnTheWay DEF OrderInv, Latest, Done
<1>3. \A e \in Event : Settled(e) => Settled(e)'
  BY <1>2, SettledStays
<1>4. /\ \A c \in Clients \ {target} : log'[c] = log[c]
      /\ log'[target] = Append(log[target], current)
  BY <1>1 DEF TypeInv, TypeOK
<1>5. /\ DOMAIN log[target] = 1..Len(log[target]) /\ Len(log[target]) \in Nat
      /\ DOMAIN log'[target] = 1..(Len(log[target]) + 1)
      /\ \A i \in DOMAIN log[target] : log'[target][i] = log[target][i]
      /\ log'[target][Len(log[target]) + 1] = current
  BY <1>1, <1>4, AppendPlaces, OnTheWay
<1>6. AllSettled'
  <2>1. ASSUME NEW c \in Clients, NEW i \in DOMAIN log'[c] PROVE Settled(log[c][i])'
    <3>1. \E e \in Event : e = log'[c][i] /\ Settled(e)
      <4>1. CASE c = target
        BY <1>1, <1>5, <4>1, OnTheWay DEF OrderInv, AllSettled
      <4>2. CASE c # target
        BY <1>4, <4>2, OnTheWay DEF OrderInv, AllSettled
      <4> QED
        BY <4>1, <4>2
    <3> QED
      BY <1>3, <3>1 DEF Settled
  <2>2. current # None => Settled(current)'
    BY <1>1, <1>3 DEF OrderInv, AllSettled, Settled
  <2> QED
    BY <1>1, <1>3, <2>1, <2>2, OnTheWay DEF OrderInv, AllSettled
<1>7. Line'
  <2>1. ASSUME NEW c \in Clients, NEW i \in DOMAIN log'[c]
        PROVE  /\ \A j \in DOMAIN outQueue : Older(log'[c][i], outQueue[j])
               /\ Ahead(c)' => Older(log'[c][i], current)
               /\ \A j \in DOMAIN log'[c] : i < j => Older(log'[c][i], log'[c][j])
    <3>1. CASE c # target
      <4>1. log'[c] = log[c]
        BY <1>4, <3>1
      <4>2. Ahead(c)' => Ahead(c)
        BY <1>1, <3>1, RouterAssumption DEF Ahead, RouterAssumption
      <4> QED
        BY <1>1, <4>1, <4>2 DEF OrderInv, Line
    <3>2. CASE c = target
      <4>1. ~Ahead(c)'
        BY <1>1, <3>2, RouterAssumption DEF OrderInv, Ahead, RouterAssumption
      <4>2. \A j \in DOMAIN log[c] : Older(log[c][j], current)
        BY <1>1, <3>2 DEF OrderInv, Line, Ahead
      <4>3. \A j \in DOMAIN outQueue : Older(log'[c][i], outQueue[j])
        BY <1>1, <1>5, <3>2 DEF OrderInv, Line
      <4>4. \A j \in DOMAIN log'[c] : i < j => Older(log'[c][i], log'[c][j])
        BY <1>5, <3>2, <4>2 DEF OrderInv, Line
      <4> QED
        BY <4>1, <4>3, <4>4
    <3> QED
      BY <3>1, <3>2
  <2> QED
    BY <1>1, <2>1 DEF OrderInv, Line, Older
<1>8. AddressedOnce'
  <2>1. \A c \in Clients : \A i \in DOMAIN log'[c] :
          log'[c][i] = current \/ (i \in DOMAIN log[c] /\ log'[c][i] = log[c][i])
    BY <1>4, <1>5
  <2> QED
    BY <1>1, <2>1 DEF OrderInv, AddressedOnce
<1> QED
  BY <1>1, <1>2, <1>6, <1>7, <1>8 DEF OrderInv

(* A producer appends its event to the output queue.                       *)
LEMMA OrderAppend ==
  ASSUME TypeInv, TypeInv', OrderInv, NEW c \in Clients, AppendOut(c)
  PROVE  OrderInv'
<1>1. /\ outQueue' = Append(outQueue, pending[c]) /\ Finish(c) /\ pc[c] = "append"
      /\ UNCHANGED <<num, log, direct, current, todo, target, mutex>>
  BY DEF AppendOut, worker, history
<1>2. pending[c] # None /\ pending[c] \in Event
  BY <1>1, OnTheWay DEF OrderInv, Latest, Submitting
<1>3. /\ Latest' /\ \A s \in Clients : Done(s) <= Done(s)'
      /\ Done(c)' = num[c]
  BY <1>1, FinishLatest
<1>4. \A e \in Event : Settled(e) => Settled(e)' /\ Older(e, pending[c]) /\ e # pending[c]
  BY <1>2, <1>3, SettledStays, PendingIsNew
<1>5. \A e \in Event : e = pending[c] => Settled(e)'
  <2>1. pending[c].src = c /\ pending[c].num = num[c] /\ num[c] \in Nat
    BY <1>2, OnTheWay DEF OrderInv, Latest
  <2> QED
    BY <1>3, <2>1 DEF Settled
<1>6. /\ DOMAIN outQueue = 1..Len(outQueue) /\ Len(outQueue) \in Nat
      /\ DOMAIN outQueue' = 1..(Len(outQueue) + 1)
      /\ \A i \in DOMAIN outQueue : outQueue'[i] = outQueue[i]
      /\ outQueue'[Len(outQueue) + 1] = pending[c]
  BY <1>1, <1>2, AppendPlaces, OnTheWay
<1>7. AllSettled'
  <2>1. ASSUME NEW i \in DOMAIN outQueue' PROVE Settled(outQueue[i])'
    <3>1. \E e \in Event : e = outQueue'[i] /\ (e = pending[c] \/ Settled(e))
      BY <1>2, <1>6, OnTheWay DEF OrderInv, AllSettled
    <3> QED
      BY <1>4, <1>5, <3>1 DEF Settled
  <2>2. current' # None => Settled(current)'
    BY <1>1, <1>4, OnTheWay DEF OrderInv, AllSettled, Settled
  <2>3. \A d \in Clients : \A i \in DOMAIN log'[d] : Settled(log[d][i])'
    BY <1>1, <1>4, OnTheWay DEF OrderInv, AllSettled, Settled
  <2>4. \A e \in direct' : Settled(e)'
    BY <1>1, <1>4, OnTheWay DEF OrderInv, AllSettled
  <2> QED
    BY <2>1, <2>2, <2>3, <2>4 DEF AllSettled
<1>8. Line'
  <2>1. \A i, j \in DOMAIN outQueue' : i < j => Older(outQueue'[i], outQueue'[j])
    <3>1. \A i \in DOMAIN outQueue : Older(outQueue[i], pending[c])
      BY <1>4, OnTheWay DEF OrderInv, AllSettled
    <3> QED
      BY <1>6, <3>1 DEF OrderInv, Line
  <2>2. current # None => \A i \in DOMAIN outQueue' : Older(current, outQueue'[i])
    <3>1. current # None => Older(current, pending[c])
      BY <1>4, OnTheWay DEF OrderInv, AllSettled
    <3> QED
      BY <1>6, <3>1 DEF OrderInv, Line
  <2>3. ASSUME NEW d \in Clients, NEW i \in DOMAIN log[d]
        PROVE  /\ \A j \in DOMAIN outQueue' : Older(log[d][i], outQueue'[j])
               /\ current # None /\ Ahead(d)' => Older(log[d][i], current)
               /\ \A j \in DOMAIN log[d] : i < j => Older(log[d][i], log[d][j])
    <3>1. Older(log[d][i], pending[c])
      BY <1>4, OnTheWay DEF OrderInv, AllSettled
    <3>2. Ahead(d)' => Ahead(d)
      BY <1>1 DEF Ahead
    <3> QED
      BY <1>6, <3>1, <3>2 DEF OrderInv, Line
  <2> QED
    BY <1>1, <2>1, <2>2, <2>3 DEF Line, Older
<1>9. AddressedOnce'
  <2>1. \A e \in direct : e # pending[c]
    BY <1>4, OnTheWay DEF OrderInv, AllSettled
  <2> QED
    BY <1>1, <1>6, <2>1 DEF OrderInv, AddressedOnce
<1> QED
  BY <1>1, <1>3, <1>7, <1>8, <1>9 DEF OrderInv

(* A sender puts an event straight into its addressee's queue.             *)
LEMMA OrderDirect ==
  ASSUME TypeInv, TypeInv', OrderInv, NEW c \in Clients, DirectPut(c), mutex # Worker
  PROVE  OrderInv'
<1>1. /\ direct' = direct \cup {pending[c]} /\ Finish(c) /\ pc[c] = "put"
      /\ UNCHANGED <<num, outQueue, log, current, todo, target>> /\ mutex' = None
  BY DEF DirectPut, worker
<1>2. pending[c] # None /\ pending[c] \in Event
  BY <1>1, OnTheWay DEF OrderInv, Latest, Submitting
<1>3. /\ Latest' /\ \A s \in Clients : Done(s) <= Done(s)'
      /\ Done(c)' = num[c]
  BY <1>1, FinishLatest
<1>4. \A e \in Event : Settled(e) => Settled(e)' /\ e # pending[c]
  BY <1>2, <1>3, SettledStays, PendingIsNew
<1>5. \A e \in Event : e = pending[c] => Settled(e)'
  <2>1. pending[c].src = c /\ pending[c].num = num[c] /\ num[c] \in Nat
    BY <1>2, OnTheWay DEF OrderInv, Latest
  <2> QED
    BY <1>3, <2>1 DEF Settled
<1>6. AllSettled'
  <2>1. \A i \in DOMAIN outQueue' : Settled(outQueue[i])'
    BY <1>1, <1>4, OnTheWay DEF OrderInv, AllSettled, Settled
  <2>2. current' # None => Settled(current)'
    BY <1>1, <1>4, OnTheWay DEF OrderInv, AllSettled, Settled
  <2>3. \A d \in Clients : \A i \in DOMAIN log'[d] : Settled(log[d][i])'
    BY <1>1, <1>4, OnTheWay DEF OrderInv, AllSettled, Settled
  <2>4. \A e \in direct' : Settled(e)'
    BY <1>1, <1>2, <1>4, <1>5, OnTheWay DEF OrderInv, AllSettled
  <2> QED
    BY <2>1, <2>2, <2>3, <2>4 DEF AllSettled
<1>7. Line'
  <2>1. \A d \in Clients : Ahead(d)
    BY DEF Ahead
  <2> QED
    BY <1>1, <2>1 DEF OrderInv, Line, Older
<1>8. AddressedOnce'
  <2>1. pending[c] # current
    BY <1>2, <1>4, OnTheWay, NoneIsNoEvent DEF OrderInv, AllSettled
  <2>2. \A i \in DOMAIN outQueue : outQueue[i] # pending[c]
    BY <1>4, OnTheWay DEF OrderInv, AllSettled
  <2>3. \A d \in Clients : \A i \in DOMAIN log[d] : log[d][i] # pending[c]
    BY <1>4, OnTheWay DEF OrderInv, AllSettled
  <2> QED
    BY <1>1, <2>1, <2>2, <2>3 DEF OrderInv, AddressedOnce
<1> QED
  BY <1>1, <1>3, <1>6, <1>7, <1>8 DEF OrderInv

(* A session begins to submit its next event.                              *)
LEMMA OrderSubmit ==
  ASSUME TypeInv, TypeInv', OrderInv, NEW c \in Clients, NEW e \in Event, Submit(c, e)
  PROVE  OrderInv'
<1>1. /\ pc \in [Clients -> PcStates] /\ pending \in [Clients -> Event \cup {None}]
      /\ num \in [Clients -> 0..MaxSend]
  BY DEF TypeInv, TypeOK
<1>2. /\ pc[c] = "idle" /\ pc'[c] \in Submitting /\ pending'[c] = e
      /\ e.src = c /\ e.num = num'[c] /\ num'[c] = num[c] + 1
      /\ \A x \in Clients \ {c} :
           pc'[x] = pc[x] /\ pending'[x] = pending[x] /\ num'[x] = num[x]
      /\ UNCHANGED <<outQueue, log, direct, current, todo, target, mutex>>
  BY <1>1 DEF Submit, Goto, Submitting, queues, worker, history
<1>3. pending[c] = None
  BY <1>2 DEF OrderInv, Latest, Submitting
<1>4. Latest'
  BY <1>2, NoneIsNoEvent DEF OrderInv, Latest
<1>5. \A s \in Clients : Done(s) <= Done(s)'
  <2>1. Done(c)' = num[c] /\ Done(c) = num[c]
    BY <1>2, <1>3, OnTheWay, NoneIsNoEvent DEF Done
  <2> QED
    BY <1>2, <2>1, OnTheWay DEF Done
<1> QED
  BY <1>2, <1>4, <1>5, OrderQuiet DEF OrderInv, Ahead

(* Every step keeps the line.                                              *)
LEMMA OrderStep == TypeInv /\ TypeInv' /\ LockInv /\ OrderInv /\ [Next]_vars => OrderInv'
<1> SUFFICES ASSUME TypeInv, TypeInv', LockInv, OrderInv, [Next]_vars PROVE OrderInv'
  OBVIOUS
<1>0. pc \in [Clients -> PcStates]
  BY DEF TypeInv, TypeOK
<1>1. CASE WorkerTake
  BY <1>1, OrderTake
<1>2. CASE WorkerLock
  <2>1. /\ mutex = None /\ target = None
        /\ UNCHANGED <<outQueue, log, direct, current, target, pc, pending, num>>
    BY <1>2, RouterAssumption
    DEF WorkerLock, queues, history, LockInv, Owners, RouterAssumption
  <2>2. Latest' /\ \A s \in Clients : Done(s) <= Done(s)'
    BY <2>1, OnTheWay DEF OrderInv, Latest, Done
  <2>3. \A c \in Clients : Ahead(c)
    BY <2>1, RouterAssumption DEF Ahead, RouterAssumption
  <2> QED
    BY <2>1, <2>2, <2>3, OrderQuiet
<1>3. CASE WorkerPut
  BY <1>3, OrderPut
<1>4. CASE WorkerUnlock
  <2>1. /\ target = None /\ current' = None
        /\ UNCHANGED <<outQueue, log, direct, target, pc, pending, num>>
    BY <1>4 DEF WorkerUnlock, queues, history
  <2>2. Latest' /\ \A s \in Clients : Done(s) <= Done(s)'
    BY <2>1, OnTheWay DEF OrderInv, Latest, Done
  <2> QED
    BY <2>1, <2>2, OrderQuiet
<1>5. ASSUME NEW c \in Clients, WorkerVisit(c) PROVE OrderInv'
  <2>1. /\ c \in todo /\ todo' = todo \ {c} /\ target' \in {c, None} /\ mutex' = mutex
        /\ UNCHANGED <<outQueue, log, direct, current, pc, pending, num>>
    BY <1>5 DEF WorkerVisit, queues, history
  <2>2. Latest' /\ \A s \in Clients : Done(s) <= Done(s)'
    BY <2>1, OnTheWay DEF OrderInv, Latest, Done
  <2>3. \A x \in Clients : Ahead(x)' => Ahead(x)
    BY <2>1, RouterAssumption DEF Ahead, RouterAssumption
  <2> QED
    BY <2>1, <2>2, <2>3, OrderQuiet
<1>6. ASSUME NEW c \in Clients, Producer(c) PROVE OrderInv'
  <2>1. ASSUME NEW e \in Event, SubmitText(c, e) \/ SubmitMarked(c, e) \/ SubmitUnmarked(c, e)
        PROVE OrderInv'
    <3>1. Submit(c, e)
      BY <2>1 DEF SubmitText, SubmitMarked, SubmitUnmarked
    <3> QED
      BY <3>1, OrderSubmit
  <2>2. CASE DirectMiss(c) \/ DirectFound(c) \/ CheckRoom(c)
    <3>1. UNCHANGED <<outQueue, log, direct, current, todo, target, pending, num>>
      BY <2>2 DEF DirectMiss, DirectFound, CheckRoom, queues, worker, history
    <3>2. \A x \in Clients : pc'[x] \in Submitting <=> pc[x] \in Submitting
      BY <1>0, <2>2 DEF DirectMiss, DirectFound, CheckRoom, Goto, Submitting
    <3>3. mutex = Worker => mutex' = Worker
      BY <2>2, RouterAssumption DEF DirectMiss, DirectFound, CheckRoom, RouterAssumption
    <3> QED
      BY <3>1, <3>2, <3>3, OrderSame
  <2>3. CASE DirectFull(c) \/ DropFull(c)
    <3>1. /\ UNCHANGED <<outQueue, log, direct, current, todo, target, mutex, num>>
          /\ Finish(c)
      BY <2>3 DEF DirectFull, DropFull, queues, worker, history
    <3>2. Latest' /\ \A s \in Clients : Done(s) <= Done(s)'
      BY <3>1, FinishLatest
    <3> QED
      BY <3>1, <3>2, OrderQuiet DEF OrderInv, Ahead
  <2>4. CASE DirectPut(c)
    <3>1. mutex # Worker
      BY <2>4, RouterAssumption DEF DirectPut, LockInv, Owners, RouterAssumption
    <3> QED
      BY <2>4, <3>1, OrderDirect
  <2>5. CASE AppendOut(c)
    BY <2>5, OrderAppend
  <2> QED
    BY <1>6, <2>1, <2>2, <2>3, <2>4, <2>5 DEF Producer
<1>7. ASSUME NEW c \in Clients, Consumer(c) PROVE OrderInv'
  <2>1. UNCHANGED <<outQueue, log, direct, current, todo, target, pending, num, mutex>>
    BY <1>7 DEF Consumer, EnterLoop, WaitAndTake, Retrieve, ReadHangs, ClearInputQueue,
       DeviceSent, DeviceSendFails, queues, worker, history
  <2>2. \A x \in Clients : pc'[x] \in Submitting <=> pc[x] \in Submitting
    BY <1>0, <1>7 DEF Consumer, EnterLoop, WaitAndTake, Retrieve, ReadHangs,
       ClearInputQueue, DeviceSent, DeviceSendFails, Goto, Submitting, queues
  <2> QED
    BY <2>1, <2>2, OrderSame
<1>8. ASSUME NEW c \in Clients, Session(c) PROVE OrderInv'
  <2>1. UNCHANGED <<outQueue, log, direct, current, todo, target, pending, num>>
    BY <1>8 DEF Session, Join, Leave, SetFilter, ListBegin, ListEnd, queues, worker, history
  <2>2. \A x \in Clients : pc'[x] \in Submitting <=> pc[x] \in Submitting
    BY <1>0, <1>8 DEF Session, Join, Leave, SetFilter, ListBegin, ListEnd, Goto,
       Submitting
  <2>3. mutex = Worker => mutex' = Worker
    BY <1>8, RouterAssumption DEF Session, Join, Leave, SetFilter, ListBegin, ListEnd,
       LockInv, Owners, RouterAssumption
  <2> QED
    BY <2>1, <2>2, <2>3, OrderSame
<1>9. CASE UNCHANGED vars
  BY <1>9, OrderSame DEF vars, queues, worker, history
<1> QED
  BY <1>1, <1>2, <1>3, <1>4, <1>5, <1>6, <1>7, <1>8, <1>9 DEF Next, WorkerStep

(* The line of events holds throughout: what a session has been given is   *)
(* older than what the worker holds for it, and that older than what waits.*)
THEOREM OrderInvariant == Spec => []OrderInv
<1>1. Init => OrderInv
  BY NoneIsNoEvent DEF Init, OrderInv, Latest, AllSettled, Line, AddressedOnce, Submitting
<1>2. TypeInv /\ TypeInv' /\ LockInv /\ OrderInv /\ [Next]_vars => OrderInv'
  BY OrderStep
<1> QED
  BY <1>1, <1>2, TypeInvariant, LockInvariant, PTL DEF Spec

(* Every session sees another's broadcast events in the order in which     *)
(* they were submitted, and none of them twice.                            *)
THEOREM SenderOrderKept == Spec => []PerSenderOrder
<1>1. OrderInv => PerSenderOrder
  BY DEF OrderInv, Line, Older, PerSenderOrder
<1> QED
  BY <1>1, OrderInvariant, PTL

(* An event that its addressee got from the sender is never broadcast too. *)
THEOREM AddressedNotBroadcast == Spec => []AddressedOnce
<1>1. OrderInv => AddressedOnce
  BY DEF OrderInv
<1> QED
  BY <1>1, OrderInvariant, PTL

-----------------------------------------------------------------------------
(* The refinement.                                                         *)

(* A session is in the client list from addClient to removeClient.         *)
Attached == \A c \in Clients : c \in members <=> pc[c] \notin {"new", "gone"}

(* Every step keeps the client list in line with the threads.              *)
LEMMA AttachedStep == TypeInv /\ Attached /\ [Next]_vars => Attached'
<1> SUFFICES ASSUME TypeInv, Attached, [Next]_vars PROVE Attached'
  OBVIOUS
<1>0. pc \in [Clients -> PcStates] /\ members \subseteq Clients
  BY DEF TypeInv, TypeOK
<1>1. CASE WorkerTake \/ WorkerLock \/ WorkerPut \/ WorkerUnlock
  BY <1>1 DEF WorkerTake, WorkerLock, WorkerPut, WorkerUnlock, Attached
<1>2. ASSUME NEW c \in Clients, WorkerVisit(c) PROVE Attached'
  BY <1>2 DEF WorkerVisit, Attached
<1>3. ASSUME NEW c \in Clients, Producer(c) PROVE Attached'
  <2>1. members' = members
    BY <1>3 DEF Producer, SubmitText, SubmitMarked, SubmitUnmarked, Submit, DirectMiss,
       DirectFull, DirectFound, DirectPut, CheckRoom, DropFull, AppendOut
  <2>2. \E l \in PcStates \ {"new", "gone"} : pc' = [pc EXCEPT ![c] = l]
    <3> USE DEF Goto, PcStates
    <3>1. ASSUME NEW e \in Event, SubmitText(c, e) \/ SubmitMarked(c, e) \/ SubmitUnmarked(c, e)
          PROVE \E l \in PcStates \ {"new", "gone"} : pc' = [pc EXCEPT ![c] = l]
      BY <3>1 DEF SubmitText, SubmitMarked, SubmitUnmarked, Submit
    <3>2. CASE DirectMiss(c) \/ DirectFound(c) \/ CheckRoom(c)
      BY <3>2 DEF DirectMiss, DirectFound, CheckRoom
    <3>3. CASE DirectFull(c) \/ DirectPut(c) \/ DropFull(c) \/ AppendOut(c)
      BY <3>3 DEF DirectFull, DirectPut, DropFull, AppendOut, Finish
    <3> QED
      BY <1>3, <3>1, <3>2, <3>3 DEF Producer
  <2>3. pc[c] \notin {"new", "gone"}
    BY <1>3 DEF Producer, SubmitText, SubmitMarked, SubmitUnmarked, Submit, DirectMiss,
       DirectFull, DirectFound, DirectPut, CheckRoom, DropFull, AppendOut
  <2> QED
    BY <1>0, <2>1, <2>2, <2>3 DEF Attached
<1>4. ASSUME NEW c \in Clients, Consumer(c) PROVE Attached'
  <2>1. members' = members
    BY <1>4 DEF Consumer, EnterLoop, WaitAndTake, Retrieve, ReadHangs, ClearInputQueue,
       DeviceSent, DeviceSendFails
  <2>2. pc' = pc \/ (pc[c] = "idle" /\ \E l \in {"loop", "stuck"} : pc' = [pc EXCEPT ![c] = l])
    BY <1>4 DEF Consumer, EnterLoop, WaitAndTake, Retrieve, ReadHangs, ClearInputQueue,
       DeviceSent, DeviceSendFails, Goto
  <2> QED
    BY <1>0, <2>1, <2>2 DEF Attached
<1>5. ASSUME NEW c \in Clients, Session(c) PROVE Attached'
  BY <1>0, <1>5 DEF Session, Join, Leave, SetFilter, ListBegin, ListEnd, Goto, Attached
<1>6. CASE UNCHANGED vars
  BY <1>6 DEF vars, Attached
<1> QED
  BY <1>1, <1>2, <1>3, <1>4, <1>5, <1>6 DEF Next, WorkerStep

(* The oldest event of a queue with one more in front.                     *)
LEMMA InFront ==
  ASSUME NEW q \in Seq(Event), NEW e \in Event
  PROVE  /\ <<e>> \o q \in Seq(Event) /\ <<e>> \o q # <<>>
         /\ Head(<<e>> \o q) = e /\ Tail(<<e>> \o q) = q
<1>1. <<e>> \in Seq(Event) /\ Len(<<e>>) = 1
  OBVIOUS
<1>2. /\ <<e>> \o q \in Seq(Event) /\ Len(<<e>> \o q) = 1 + Len(q)
      /\ \A i \in 1..(1 + Len(q)) : (<<e>> \o q)[i] = IF i <= 1 THEN <<e>>[i] ELSE q[i - 1]
  BY <1>1, ConcatProperties
<1>3. Len(q) \in Nat
  BY LenProperties
<1>4. <<e>> \o q # <<>>
  BY <1>2, <1>3, EmptySeq
<1>5. /\ Head(<<e>> \o q) = (<<e>> \o q)[1]
      /\ Tail(<<e>> \o q) \in Seq(Event) /\ Len(Tail(<<e>> \o q)) = Len(q)
      /\ \A i \in 1..Len(q) : Tail(<<e>> \o q)[i] = (<<e>> \o q)[i + 1]
  BY <1>2, <1>3, <1>4, HeadTailProperties
<1>6. Head(<<e>> \o q) = e
  BY <1>2, <1>3, <1>5
<1>7. \A i \in 1..Len(q) : Tail(<<e>> \o q)[i] = q[i]
  BY <1>2, <1>3, <1>5
<1>8. Tail(<<e>> \o q) = q
  BY <1>5, <1>7, SeqEqual
<1> QED
  BY <1>2, <1>4, <1>6, <1>8

(* A queue is its head in front of its tail.                               *)
LEMMA HeadTailEqual ==
  ASSUME NEW q \in Seq(Event), q # <<>>
  PROVE  q = <<Head(q)>> \o Tail(q)
<1>1. /\ Head(q) \in Event /\ Tail(q) \in Seq(Event) /\ Len(Tail(q)) = Len(q) - 1
      /\ \A i \in 1..Len(Tail(q)) : Tail(q)[i] = q[i + 1]
  BY HeadTailProperties
<1>2. Head(q) = q[1] /\ Len(q) \in Nat /\ Len(q) > 0
  BY TailPlaces, LenProperties, EmptySeq
<1>3. <<Head(q)>> \in Seq(Event) /\ Len(<<Head(q)>>) = 1 /\ <<Head(q)>>[1] = Head(q)
  BY <1>1
<1>4. /\ <<Head(q)>> \o Tail(q) \in Seq(Event)
      /\ Len(<<Head(q)>> \o Tail(q)) = Len(q)
      /\ \A i \in 1..Len(q) :
           (<<Head(q)>> \o Tail(q))[i] = IF i <= 1 THEN <<Head(q)>>[i] ELSE Tail(q)[i - 1]
  BY <1>1, <1>2, <1>3, ConcatProperties
<1>5. \A i \in 1..Len(q) : (<<Head(q)>> \o Tail(q))[i] = q[i]
  BY <1>1, <1>2, <1>3, <1>4
<1> QED
  BY <1>4, <1>5, SeqEqual

(* What the bus holds, with and without an event in the worker's hands.    *)
LEMMA BusFacts ==
  ASSUME TypeInv
  PROVE  /\ OnBus \in Seq(Event)
         /\ current = None => OnBus = outQueue
         /\ current # None => OnBus # <<>> /\ Head(OnBus) = current /\ Tail(OnBus) = outQueue
<1>1. outQueue \in Seq(Event) /\ (current # None => current \in Event)
  BY OnTheWay
<1>2. CASE current = None
  BY <1>1, <1>2, ConcatEmptySeq DEF OnBus
<1>3. CASE current # None
  BY <1>1, <1>3, InFront DEF OnBus
<1> QED
  BY <1>2, <1>3

(* A step that leaves the bus's view alone.                                *)
LEMMA BusStutter ==
  ASSUME UNCHANGED <<outQueue, current, members, filter, inQueue>>, Considered' = Considered
  PROVE  UNCHANGED Bus!vars
BY DEF Bus!vars, OnBus

(* All that a step of the bus needs to know of the router.                 *)
BusInv == TypeInv /\ LockInv /\ RoomInv /\ EchoInv /\ OrderInv /\ Attached

(* Outside the worker's round nobody has been considered.                  *)
LEMMA OutsideRound ==
  ASSUME BusInv
  PROVE  /\ mutex \in Clients \cup {None} => Considered = {}
         /\ None \notin members /\ members \subseteq Clients
BY RouterAssumption DEF RouterAssumption, Considered, BusInv, TypeInv, TypeOK

(* The worker's steps.                                                     *)
LEMMA WorkerOnBus ==
  ASSUME BusInv, BusInv', WorkerStep
  PROVE  [Bus!Next]_Bus!vars
<1> USE RouterAssumption DEF RouterAssumption
<1>0. TypeInv /\ TypeInv' /\ members \subseteq Clients /\ None \notin members
  BY OutsideRound DEF BusInv
<1>1. CASE WorkerTake
  <2>1. /\ current = None /\ mutex # Worker
        /\ UNCHANGED <<members, filter, inQueue, mutex>>
    BY <1>0, <1>1 DEF WorkerTake, TypeInv, Staged
  <2>2. OnBus' = OnBus
    <3>1. CASE outQueue = <<>>
      BY <1>1, <3>1 DEF WorkerTake, OnBus
    <3>2. CASE outQueue # <<>>
      <4>1. outQueue' = Tail(outQueue) /\ current' = Head(outQueue)
        BY <1>1, <3>2 DEF WorkerTake
      <4>2. outQueue \in Seq(Event) /\ Head(outQueue) \in Event /\ Tail(outQueue) \in Seq(Event)
        BY <1>0, <3>2, OnTheWay, HeadTailProperties
      <4>3. outQueue = <<Head(outQueue)>> \o Tail(outQueue)
        BY <3>2, <4>2, InFront, HeadTailEqual
      <4>4. current' # None
        BY <4>1, <4>2, NoneIsNoEvent
      <4>5. OnBus' = <<Head(outQueue)>> \o Tail(outQueue)
        BY <4>1, <4>4 DEF OnBus
      <4>6. OnBus = outQueue
        BY <1>0, <2>1, BusFacts
      <4> QED
        BY <4>3, <4>5, <4>6
    <3> QED
      BY <3>1, <3>2
  <2>3. Considered' = Considered
    BY <2>1 DEF Considered
  <2> QED
    BY <2>1, <2>2, <2>3 DEF Bus!vars
<1>2. CASE WorkerLock
  <2>1. /\ mutex = None /\ todo' = members
        /\ UNCHANGED <<outQueue, current, members, filter, inQueue>>
    BY <1>2 DEF WorkerLock, queues
  <2>2. Considered = {}
    BY <2>1, OutsideRound
  <2>3. Considered' = {}
    BY <2>1 DEF Considered
  <2> QED
    BY <2>1, <2>2, <2>3, BusStutter
<1>3. CASE WorkerPut
  <2>1. /\ target # None /\ target \in members \ todo /\ mutex = Worker /\ current # None
        /\ current \in Event /\ target # current.obid /\ RoomInInput(target)
    BY <1>0, <1>3, OnTheWay DEF WorkerPut, BusInv, LockInv, NoUseAfterRemove, TypeInv, Staged,
       EchoInv, OrderInv, RoomInv
  <2>2. /\ inQueue' = [inQueue EXCEPT ![target] = Append(@, current)]
        /\ UNCHANGED <<outQueue, current, members, filter, mutex, todo>> /\ target' = None
    BY <1>3 DEF WorkerPut, Enqueue
  <2>3. OnBus # <<>> /\ Head(OnBus) = current /\ OnBus' = OnBus
    BY <1>0, <2>1, <2>2, BusFacts DEF OnBus
  <2>4. Considered' = Considered \cup {target} /\ target \notin Considered
    BY <1>0, <2>1, <2>2 DEF Considered
  <2>5. Bus!Hand(target)
    BY <2>1, <2>2, <2>3, <2>4 DEF Bus!Hand, RoomInInput
  <2> QED
    BY <1>0, <2>1, <2>5 DEF Bus!Next
<1>4. CASE WorkerUnlock
  <2>1. /\ mutex = Worker /\ todo = {} /\ target = None /\ mutex' = None /\ current' = None
        /\ UNCHANGED <<outQueue, members, filter, inQueue>>
    BY <1>4 DEF WorkerUnlock, queues
  <2>2. current # None
    BY <1>0, <2>1 DEF TypeInv, Staged
  <2>3. OnBus # <<>> /\ Tail(OnBus) = outQueue /\ OnBus' = outQueue
    <3>1. OnBus' = <<>> \o outQueue
      BY <2>1 DEF OnBus
    <3>2. <<>> \o outQueue = outQueue
      BY <1>0, OnTheWay, ConcatEmptySeq
    <3> QED
      BY <1>0, <2>2, <3>1, <3>2, BusFacts
  <2>4. members \subseteq Considered /\ Considered' = {}
    BY <1>0, <2>1 DEF Considered
  <2>5. Bus!Retire
    BY <2>1, <2>3, <2>4 DEF Bus!Retire
  <2> QED
    BY <2>5 DEF Bus!Next
<1>5. ASSUME NEW c \in Clients, WorkerVisit(c) PROVE [Bus!Next]_Bus!vars
  <2>1. /\ mutex = Worker /\ target = None /\ c \in todo /\ todo' = todo \ {c}
        /\ target' = IF Wanted(c) THEN c ELSE None
        /\ UNCHANGED <<outQueue, current, members, filter, inQueue, mutex>>
    BY <1>5 DEF WorkerVisit, queues
  <2>2. c \in members /\ current # None
    BY <1>0, <2>1 DEF BusInv, LockInv, NoUseAfterRemove, TypeInv, Staged
  <2>3. CASE Wanted(c)
    <3>1. Considered' = Considered
      BY <1>0, <2>1, <2>3 DEF Considered
    <3> QED
      BY <2>1, <3>1, BusStutter
  <2>4. CASE ~Wanted(c)
    <3>1. Considered' = Considered \cup {c} /\ c \notin Considered
      BY <1>0, <2>1, <2>2, <2>4 DEF Considered
    <3>2. OnBus # <<>> /\ Head(OnBus) = current /\ OnBus' = OnBus
      BY <1>0, <2>1, <2>2, BusFacts DEF OnBus
    <3>3. Len(inQueue[c]) \in Nat
      BY <1>0 DEF TypeInv, TypeOK
    <3>4. Bus!Excused(c)
      BY <2>4, <3>2, <3>3 DEF Bus!Excused, Wanted, Passes, RoomInInput
    <3>5. Bus!Skip(c)
      BY <2>1, <2>2, <3>1, <3>2, <3>4 DEF Bus!Skip
    <3> QED
      BY <3>5 DEF Bus!Next
  <2> QED
    BY <2>3, <2>4
<1> QED
  BY <1>1, <1>2, <1>3, <1>4, <1>5 DEF WorkerStep

(* The steps of a session that submits.                                    *)
LEMMA ProducerOnBus ==
  ASSUME BusInv, BusInv', NEW c \in Clients, Producer(c)
  PROVE  [Bus!Next]_Bus!vars
<1> USE RouterAssumption DEF RouterAssumption
<1>0. TypeInv /\ TypeInv' /\ OrderInv /\ LockInv
  BY DEF BusInv
<1>1. ASSUME NEW e \in Event, SubmitText(c, e) \/ SubmitMarked(c, e) \/ SubmitUnmarked(c, e)
      PROVE UNCHANGED Bus!vars
  <2>1. UNCHANGED <<outQueue, current, members, filter, inQueue, mutex, todo, target>>
    BY <1>1 DEF SubmitText, SubmitMarked, SubmitUnmarked, Submit, queues, worker
  <2> QED
    BY <2>1, BusStutter DEF Considered
<1>2. CASE DirectMiss(c) \/ DirectFull(c) \/ CheckRoom(c) \/ DropFull(c)
  <2>1. UNCHANGED <<outQueue, current, members, filter, inQueue, mutex, todo, target>>
    BY <1>2 DEF DirectMiss, DirectFull, CheckRoom, DropFull, queues, worker
  <2> QED
    BY <2>1, BusStutter DEF Considered
<1>3. CASE DirectFound(c)
  <2>1. /\ UNCHANGED <<outQueue, current, members, filter, inQueue>>
        /\ mutex # Worker /\ mutex' # Worker
    BY <1>3 DEF DirectFound, queues, worker
  <2> QED
    BY <2>1, BusStutter DEF Considered
<1>4. CASE DirectPut(c)
  <2>1. /\ UNCHANGED <<outQueue, current, members, filter>> /\ pc[c] = "put"
        /\ inQueue' = [inQueue EXCEPT ![pending[c].dest] = Append(@, pending[c])]
        /\ mutex' = None
    BY <1>4 DEF DirectPut, Enqueue, worker
  <2>2. mutex # Worker
    BY <1>0, <2>1 DEF LockInv, Owners
  <2>3. pending[c] \in Event
    BY <1>0, <2>1 DEF TypeInv, Staged
  <2>4. pending[c].dest \in members /\ Len(inQueue[pending[c].dest]) <= MaxItems
    BY <2>1 DEF BusInv, LockInv, NoUseAfterRemove, RoomInv, RoomInInput
  <2>5. Considered' = Considered /\ OnBus' = OnBus
    BY <2>1, <2>2 DEF Considered, OnBus
  <2>6. Bus!Direct(pending[c])
    BY <2>1, <2>4, <2>5 DEF Bus!Direct
  <2> QED
    BY <2>3, <2>6 DEF Bus!Next
<1>5. CASE AppendOut(c)
  <2>1. /\ outQueue' = Append(outQueue, pending[c]) /\ pc[c] = "append"
        /\ UNCHANGED <<current, members, filter, inQueue, mutex, todo, target>>
    BY <1>5 DEF AppendOut, worker
  <2>2. /\ pending[c] \in Event /\ outQueue \in Seq(Event)
        /\ current # None => current \in Event
    BY <1>0, <2>1, OnTheWay DEF TypeInv, Staged
  <2>3. OnBus' = Append(OnBus, pending[c])
    <3> DEFINE front == IF current = None THEN <<>> ELSE <<current>>
    <3>1. front \in Seq(Event) /\ <<pending[c]>> \in Seq(Event)
      BY <2>2
    <3>2. OnBus = front \o outQueue /\ OnBus' = front \o Append(outQueue, pending[c])
      BY <2>1 DEF OnBus
    <3>3. Append(outQueue, pending[c]) = outQueue \o <<pending[c]>>
      BY <2>2, AppendIsConcat
    <3>4. OnBus \in Seq(Event)
      BY <1>0, BusFacts
    <3>5. Append(OnBus, pending[c]) = OnBus \o <<pending[c]>>
      BY <2>2, <3>4, AppendIsConcat
    <3>6. (front \o outQueue) \o <<pending[c]>> = front \o (outQueue \o <<pending[c]>>)
      BY <2>2, <3>1, ConcatAssociative
    <3> HIDE DEF front
    <3> QED
      BY <3>2, <3>3, <3>5, <3>6
  <2>4. Bus!Accept(pending[c])
    BY <2>1, <2>3 DEF Bus!Accept, Considered
  <2> QED
    BY <2>2, <2>4 DEF Bus!Next
<1> QED
  BY <1>1, <1>2, <1>3, <1>4, <1>5 DEF Producer, BusInv

(* The steps of a session that reads its queue.                            *)
LEMMA ConsumerOnBus ==
  ASSUME BusInv, BusInv', NEW c \in Clients, Consumer(c)
  PROVE  [Bus!Next]_Bus!vars
<1>1. UNCHANGED <<outQueue, current, members, filter, mutex, todo, target>>
  BY DEF Consumer, EnterLoop, WaitAndTake, Retrieve, ReadHangs, ClearInputQueue,
     DeviceSent, DeviceSendFails, queues, worker
<1>2. OnBus' = OnBus /\ Considered' = Considered
  BY <1>1 DEF OnBus, Considered
<1>3. \/ inQueue' = inQueue
      \/ inQueue[c] # <<>> /\ inQueue' = [inQueue EXCEPT ![c] = Tail(@)]
      \/ inQueue' = [inQueue EXCEPT ![c] = <<>>]
  BY DEF Consumer, EnterLoop, WaitAndTake, Retrieve, ReadHangs, ClearInputQueue,
     DeviceSent, DeviceSendFails, queues
<1>4. CASE inQueue' = inQueue
  BY <1>1, <1>2, <1>4 DEF Bus!vars
<1>5. CASE inQueue[c] # <<>> /\ inQueue' = [inQueue EXCEPT ![c] = Tail(@)]
  <2>1. Bus!Read(c)
    BY <1>1, <1>2, <1>5 DEF Bus!Read
  <2> QED
    BY <2>1 DEF Bus!Next
<1>6. CASE inQueue' = [inQueue EXCEPT ![c] = <<>>]
  <2>1. Bus!Discard(c)
    BY <1>1, <1>2, <1>6 DEF Bus!Discard
  <2> QED
    BY <2>1 DEF Bus!Next
<1> QED
  BY <1>3, <1>4, <1>5, <1>6

(* The steps of a session that attaches, leaves, sets its filter or lists. *)
LEMMA SessionOnBus ==
  ASSUME BusInv, BusInv', NEW c \in Clients, Session(c)
  PROVE  [Bus!Next]_Bus!vars
<1> USE RouterAssumption DEF RouterAssumption
<1>0. mutex \in {None} \cup Clients => Considered = {}
  BY OutsideRound
<1>1. CASE Join(c)
  <2>1. /\ UNCHANGED <<outQueue, current, filter, inQueue, mutex>> /\ mutex = None
        /\ members' = members \cup {c} /\ c \notin members
    BY <1>1 DEF Join, queues, worker, BusInv, Attached
  <2>2. OnBus' = OnBus /\ Considered = {} /\ Considered' = {}
    BY <2>1 DEF OnBus, Considered
  <2>3. Bus!Attach(c)
    BY <2>1, <2>2 DEF Bus!Attach
  <2> QED
    BY <2>3 DEF Bus!Next
<1>2. CASE Leave(c)
  <2>1. /\ UNCHANGED <<outQueue, current, filter, mutex>> /\ mutex = None
        /\ members' = members \ {c} /\ c \in members
        /\ inQueue' = [inQueue EXCEPT ![c] = <<>>]
    BY <1>2 DEF Leave, worker, BusInv, Attached
  <2>2. OnBus' = OnBus /\ Considered = {} /\ Considered' = {}
    BY <2>1 DEF OnBus, Considered
  <2>3. Bus!Detach(c)
    BY <2>1, <2>2 DEF Bus!Detach
  <2> QED
    BY <2>3 DEF Bus!Next
<1>3. CASE SetFilter(c)
  <2>1. /\ UNCHANGED <<outQueue, current, members, inQueue, mutex, todo, target>>
        /\ \E F \in Filters : filter' = [filter EXCEPT ![c] = F]
    BY <1>3 DEF SetFilter, queues, worker
  <2>2. OnBus' = OnBus /\ Considered' = Considered
    BY <2>1 DEF OnBus, Considered
  <2>3. Bus!SetFilter(c)
    BY <2>1, <2>2 DEF Bus!SetFilter
  <2> QED
    BY <2>3 DEF Bus!Next
<1>4. CASE ListBegin(c) \/ ListEnd(c)
  <2>1. UNCHANGED <<outQueue, current, members, filter, inQueue>>
    BY <1>4 DEF ListBegin, ListEnd, queues, worker
  <2>2. mutex # Worker /\ mutex' # Worker
    BY <1>4 DEF ListBegin, ListEnd, BusInv, LockInv, Owners
  <2> QED
    BY <2>1, <2>2, BusStutter DEF Considered
<1> QED
  BY <1>1, <1>2, <1>3, <1>4 DEF Session

(* The daemon's sessions and worker keep every promise of EventBus.        *)
THEOREM RouterImplementsBus == Spec => BusSpec
<1>1. Init => Bus!Init /\ RoomInv /\ EchoInv /\ Attached
  <2> SUFFICES ASSUME Init PROVE Bus!Init /\ RoomInv /\ EchoInv /\ Attached
    OBVIOUS
  <2>1. OnBus = <<>> /\ Considered = {}
    BY ConcatEmptySeq, EmptySeq, RouterAssumption DEF Init, OnBus, Considered, RouterAssumption
  <2> QED
    BY <2>1, RoomInit DEF Init, Bus!Init, EchoInv, NoEcho, NoEchoFrom, Attached
<1>2. TypeInv /\ TypeInv' /\ LockInv /\ RoomInv /\ EchoInv /\ Attached /\ [Next]_vars
        => RoomInv' /\ EchoInv' /\ Attached'
  BY RoomStep, EchoStep, AttachedStep
<1>3. ASSUME BusInv, BusInv', [Next]_vars PROVE [Bus!Next]_Bus!vars
  <2>1. CASE WorkerStep
    BY <1>3, <2>1, WorkerOnBus
  <2>2. ASSUME NEW c \in Clients, Producer(c) \/ Consumer(c) \/ Session(c)
        PROVE [Bus!Next]_Bus!vars
    BY <1>3, <2>2, ProducerOnBus, ConsumerOnBus, SessionOnBus
  <2>3. CASE UNCHANGED vars
    BY <2>3, BusStutter DEF vars, queues, worker, Considered
  <2> QED
    BY <1>3, <2>1, <2>2, <2>3 DEF Next
<1>4. TypeInv /\ LockInv /\ RoomInv /\ EchoInv /\ OrderInv /\ Attached <=> BusInv
  BY DEF BusInv
<1>5. Spec => []BusInv
  BY <1>1, <1>2, <1>4, TypeInvariant, LockInvariant, OrderInvariant, PTL DEF Spec
<1> QED
  BY <1>1, <1>3, <1>5, PTL DEF Spec, BusSpec, Bus!Spec
=============================================================================

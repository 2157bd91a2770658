------------------------ MODULE EventRouterProofs ------------------------
(***************************************************************************)
(* Theorems about EventRouter, for any finite set of sessions and any      *)
(* values of the bounds.                                                   *)
(*                                                                         *)
(* TypeInv types the state and says in which stage an event is pending;    *)
(* LockInv says who holds m_wxClientMutex at which step.  Every other      *)
(* theorem rests on these two.                                             *)
(***************************************************************************)
EXTENDS EventRouter, FiniteSetTheorems, TLAPS

(* A session that is submitting has an event, and one that is looking for  *)
(* the addressee has an event with an addressee.  The worker that is about *)
(* to append has an event to append.                                       *)
Staged ==
  /\ \A c \in Clients :
       /\ pc[c] \in {"lookup", "put", "check", "append"} => pending[c] \in Event
       /\ pc[c] \in {"lookup", "put"} => pending[c].dest \in Clients
  /\ mutex = Worker => current # None
  /\ target # None => current # None

TypeInv == TypeOK /\ Staged

-----------------------------------------------------------------------------
(* Helpers.                                                                *)

(* What Append, Head and Tail do to a queue.                               *)
LEMMA SeqFacts ==
  ASSUME NEW S, NEW q \in Seq(S), NEW e \in S
  PROVE  /\ Append(q, e) \in Seq(S)
         /\ Len(Append(q, e)) = Len(q) + 1
         /\ q # <<>> => Tail(q) \in Seq(S) /\ Head(q) \in S
                         /\ Len(Tail(q)) = Len(q) - 1
OBVIOUS

(* The same for taking the head of a queue that is not empty.              *)
LEMMA TailFacts ==
  ASSUME NEW S, NEW q \in Seq(S), q # <<>>
  PROVE  Tail(q) \in Seq(S) /\ Head(q) \in S /\ Len(Tail(q)) = Len(q) - 1
         /\ Len(q) > 0
OBVIOUS

(* Enqueue adds one event and one post, and only to the one session.       *)
LEMMA EnqueueType ==
  ASSUME TypeOK, NEW c \in Clients, NEW e \in Event, Enqueue(c, e)
  PROVE  /\ inQueue' \in [Clients -> Seq(Event)]
         /\ inSem' \in [Clients -> Nat]
         /\ Len(inQueue'[c]) = Len(inQueue[c]) + 1
         /\ inSem'[c] = inSem[c] + 1
         /\ \A x \in Clients \ {c} : inQueue'[x] = inQueue[x] /\ inSem'[x] = inSem[x]
<1>1. Append(inQueue[c], e) \in Seq(Event)
      /\ Len(Append(inQueue[c], e)) = Len(inQueue[c]) + 1
  BY SeqFacts DEF TypeOK
<1>2. inSem[c] + 1 \in Nat
  BY DEF TypeOK
<1> QED
  BY <1>1, <1>2 DEF Enqueue, TypeOK

-----------------------------------------------------------------------------
(* Type correctness.                                                       *)

(* The daemon starts well typed.                                           *)
LEMMA TypeInit == Init => TypeInv
BY RouterAssumption DEF Init, TypeInv, TypeOK, Staged, PcStates, RouterAssumption

(* Submitting an event, in any of the three ways.                          *)
LEMMA TypeSubmit ==
  ASSUME TypeInv, NEW c \in Clients, NEW e \in Event, Submit(c, e)
  PROVE  TypeInv'
<1>1. num' \in [Clients -> 0..MaxSend]
  <2>1. num[c] + 1 \in 0..MaxSend
    BY RouterAssumption DEF TypeInv, TypeOK, Submit, RouterAssumption
  <2> QED
    BY <2>1 DEF TypeInv, TypeOK, Submit
<1>2. /\ pc' \in [Clients -> PcStates]
      /\ pending' \in [Clients -> Event \cup {None}]
  BY DEF TypeInv, TypeOK, Submit, Goto, PcStates
<1>3. TypeOK'
  BY <1>1, <1>2 DEF TypeInv, TypeOK, Submit, queues, worker, history
<1>4. e.dest \in Clients \cup {None}
  BY DEF Event
<1>5. Staged'
  BY <1>4 DEF TypeInv, TypeOK, Staged, Submit, Goto, queues, worker, history
<1> QED
  BY <1>3, <1>5 DEF TypeInv

(* Every step keeps the types and the stages.                              *)
LEMMA TypeStep == TypeInv /\ [Next]_vars => TypeInv'
<1> SUFFICES ASSUME TypeInv, [Next]_vars PROVE TypeInv'
  OBVIOUS
<1> USE RouterAssumption, NoneIsNoEvent DEF RouterAssumption, TypeInv
<1>1. CASE WorkerTake
  <2>1. outQueue' \in Seq(Event) /\ current' \in Event \cup {None}
    <3>1. CASE outQueue = <<>>
      BY <1>1, <3>1 DEF WorkerTake, TypeOK
    <3>2. CASE outQueue # <<>>
      <4>1. Tail(outQueue) \in Seq(Event) /\ Head(outQueue) \in Event
        BY <3>2, TailFacts DEF TypeOK
      <4> QED
        BY <1>1, <3>2, <4>1 DEF WorkerTake
    <3> QED
      BY <3>1, <3>2
  <2>2. outSem' \in Nat
    BY <1>1 DEF WorkerTake, TypeOK
  <2>3. current' = None => mutex # Worker /\ target = None
    BY <1>1 DEF WorkerTake, Staged
  <2> QED
    BY <1>1, <2>1, <2>2, <2>3 DEF WorkerTake, TypeOK, Staged, history
<1>2. CASE WorkerLock
  BY <1>2 DEF WorkerLock, TypeOK, Staged, queues, history
<1>3. CASE WorkerPut
  <2>1. current \in Event /\ target \in Clients
    BY <1>3 DEF WorkerPut, TypeOK, Staged
  <2>2. inQueue' \in [Clients -> Seq(Event)] /\ inSem' \in [Clients -> Nat]
    BY <1>3, <2>1, EnqueueType DEF WorkerPut
  <2>3. Append(log[target], current) \in Seq(Event)
    BY <2>1, SeqFacts DEF TypeOK
  <2> QED
    BY <1>3, <2>1, <2>2, <2>3 DEF WorkerPut, TypeOK, Staged
<1>4. CASE WorkerUnlock
  BY <1>4 DEF WorkerUnlock, TypeOK, Staged, queues, history
<1>5. ASSUME NEW c \in Clients, WorkerVisit(c) PROVE TypeInv'
  BY <1>5 DEF WorkerVisit, TypeOK, Staged, queues, history
<1>6. ASSUME NEW c \in Clients, Producer(c) PROVE TypeInv'
  <2>1. ASSUME NEW e \in Event, SubmitText(c, e) \/ SubmitMarked(c, e) \/ SubmitUnmarked(c, e)
        PROVE  TypeInv'
    BY <2>1, TypeSubmit DEF SubmitText, SubmitMarked, SubmitUnmarked
  <2>2. CASE DirectMiss(c)
    BY <2>2 DEF DirectMiss, Goto, PcStates, TypeOK, Staged, queues, worker, history
  <2>3. CASE DirectFull(c)
    BY <2>3 DEF DirectFull, Finish, Goto, PcStates, TypeOK, Staged, queues, worker, history
  <2>4. CASE DirectFound(c)
    BY <2>4 DEF DirectFound, Goto, PcStates, TypeOK, Staged, queues, worker, history
  <2>5. CASE DirectPut(c)
    <3>1. pending[c] \in Event /\ pending[c].dest \in Clients
      BY <2>5 DEF DirectPut, Staged
    <3>2. inQueue' \in [Clients -> Seq(Event)] /\ inSem' \in [Clients -> Nat]
      BY <2>5, <3>1, EnqueueType DEF DirectPut
    <3> QED
      BY <2>5, <3>1, <3>2 DEF DirectPut, Finish, Goto, PcStates, TypeOK, Staged, worker
  <2>6. CASE CheckRoom(c)
    BY <2>6 DEF CheckRoom, Goto, PcStates, TypeOK, Staged, queues, worker, history
  <2>7. CASE DropFull(c)
    BY <2>7 DEF DropFull, Finish, Goto, PcStates, TypeOK, Staged, queues, worker, history
  <2>8. CASE AppendOut(c)
    BY <2>8 DEF AppendOut, Finish, Goto, PcStates, TypeOK, Staged, worker, history
  <2> QED
    BY <1>6, <2>1, <2>2, <2>3, <2>4, <2>5, <2>6, <2>7, <2>8 DEF Producer
<1>7. ASSUME NEW c \in Clients, Consumer(c) PROVE TypeInv'
  <2>1. CASE WaitAndTake(c)
    <3>1. inQueue' \in [Clients -> Seq(Event)]
      BY <2>1, TailFacts DEF WaitAndTake, TypeOK
    <3>2. inSem' \in [Clients -> Nat]
      BY <2>1 DEF WaitAndTake, TypeOK
    <3> QED
      BY <2>1, <3>1, <3>2 DEF WaitAndTake, TypeOK, Staged, worker, history
  <2>2. CASE Retrieve(c)
    BY <2>2, TailFacts DEF Retrieve, TypeOK, Staged, worker, history
  <2>3. CASE ClearInputQueue(c)
    BY <2>3 DEF ClearInputQueue, TypeOK, Staged, worker, history
  <2>4. CASE DeviceSent(c)
    <3>1. inQueue' \in [Clients -> Seq(Event)]
      BY <2>4, TailFacts DEF DeviceSent, TypeOK
    <3>2. inSem' \in [Clients -> Nat]
      BY <2>4 DEF DeviceSent, TypeOK
    <3> QED
      BY <2>4, <3>1, <3>2 DEF DeviceSent, TypeOK, Staged, worker, history
  <2>5. CASE DeviceSendFails(c)
    BY <2>5 DEF DeviceSendFails, TypeOK, Staged, worker, history
  <2>6. CASE EnterLoop(c)
    BY <2>6 DEF EnterLoop, Goto, PcStates, TypeOK, Staged, queues, worker, history
  <2>7. CASE ReadHangs(c)
    BY <2>7 DEF ReadHangs, Goto, PcStates, TypeOK, Staged, queues, worker, history
  <2> QED
    BY <1>7, <2>1, <2>2, <2>3, <2>4, <2>5, <2>6, <2>7 DEF Consumer
<1>8. ASSUME NEW c \in Clients, Session(c) PROVE TypeInv'
  <2>1. CASE Join(c)
    BY <2>1 DEF Join, Goto, PcStates, TypeOK, Staged, queues, worker, history
  <2>2. CASE Leave(c)
    BY <2>2 DEF Leave, Goto, PcStates, TypeOK, Staged, worker, history
  <2>3. CASE SetFilter(c)
    BY <2>3 DEF SetFilter, TypeOK, Staged, queues, worker, history
  <2>4. CASE ListBegin(c)
    BY <2>4 DEF ListBegin, Goto, PcStates, TypeOK, Staged, queues, worker, history
  <2>5. CASE ListEnd(c)
    BY <2>5 DEF ListEnd, Goto, PcStates, TypeOK, Staged, queues, worker, history
  <2> QED
    BY <1>8, <2>1, <2>2, <2>3, <2>4, <2>5 DEF Session
<1>9. CASE UNCHANGED vars
  BY <1>9 DEF vars, TypeOK, Staged, queues, worker, history
<1> QED
  BY <1>1, <1>2, <1>3, <1>4, <1>5, <1>6, <1>7, <1>8, <1>9 DEF Next, WorkerStep

(* Every step of the daemon's sessions and worker keeps the types and the  *)
(* stages.                                                                 *)
THEOREM TypeInvariant == Spec => []TypeInv
<1>1. Init => TypeInv
  BY TypeInit
<1>2. TypeInv /\ [Next]_vars => TypeInv'
  BY TypeStep
<1> QED
  BY <1>1, <1>2, PTL DEF Spec

(* Every variable stays in its type.                                       *)
THEOREM TypeCorrect == Spec => []TypeOK
BY TypeInvariant, PTL DEF TypeInv

-----------------------------------------------------------------------------
(* m_wxClientMutex.                                                        *)

(* A session that lists the sessions or is about to append to another's    *)
(* queue holds the lock, so no two of them are there together, and neither *)
(* is one there while the worker goes over the sessions.                   *)
Owners ==
  /\ \A c \in Clients : pc[c] \in {"put", "list"} => mutex = c
  /\ target # None => mutex = Worker

LockInv == Owners /\ NoUseAfterRemove

(* At the start nobody holds the lock.                                     *)
LEMMA LockInit == Init => LockInv
BY RouterAssumption DEF Init, LockInv, Owners, NoUseAfterRemove, RouterAssumption

(* Every step keeps the owners of the lock where they are.                 *)
LEMMA LockStep == TypeInv /\ LockInv /\ [Next]_vars => LockInv'
<1> SUFFICES ASSUME TypeInv, LockInv, [Next]_vars PROVE LockInv'
  OBVIOUS
<1> USE RouterAssumption DEF RouterAssumption, LockInv, Owners, NoUseAfterRemove, TypeInv, TypeOK
<1>1. CASE WorkerTake
  BY <1>1 DEF WorkerTake
<1>2. CASE WorkerLock
  BY <1>2 DEF WorkerLock
<1>3. CASE WorkerPut
  BY <1>3 DEF WorkerPut
<1>4. CASE WorkerUnlock
  BY <1>4 DEF WorkerUnlock
<1>5. ASSUME NEW c \in Clients, WorkerVisit(c) PROVE LockInv'
  BY <1>5 DEF WorkerVisit
<1>6. ASSUME NEW c \in Clients, Producer(c) PROVE LockInv'
  <2>1. ASSUME NEW e \in Event, SubmitText(c, e) \/ SubmitMarked(c, e) \/ SubmitUnmarked(c, e)
        PROVE  LockInv'
    <3>1. Submit(c, e)
      BY <2>1 DEF SubmitText, SubmitMarked, SubmitUnmarked
    <3>2. pc'[c] \notin {"put", "list"}
      BY <3>1 DEF Submit, Goto
    <3>3. \A x \in Clients \ {c} : pc'[x] = pc[x] /\ pending'[x] = pending[x]
      BY <3>1 DEF Submit, Goto
    <3>4. UNCHANGED <<mutex, members, todo, target>>
      BY <3>1 DEF Submit, worker
    <3> QED
      BY <3>2, <3>3, <3>4
  <2>2. CASE DirectMiss(c)
    BY <2>2 DEF DirectMiss, Goto, PcStates, worker
  <2>3. CASE DirectFull(c)
    BY <2>3 DEF DirectFull, Finish, Goto, PcStates, worker
  <2>4. CASE DirectFound(c)
    BY <2>4 DEF DirectFound, Goto, PcStates, worker
  <2>5. CASE DirectPut(c)
    <3>1. mutex = c /\ mutex' = None /\ target = None /\ target' = None
      BY <2>5 DEF DirectPut, worker
    <3>2. \A x \in Clients : pc[x] \in {"put", "list"} => x = c
      BY <3>1
    <3>3. \A x \in Clients : pc'[x] \notin {"put", "list"}
      BY <2>5, <3>2 DEF DirectPut, Finish, Goto
    <3> QED
      BY <3>1, <3>3
  <2>6. CASE CheckRoom(c)
    BY <2>6 DEF CheckRoom, Goto, PcStates, worker
  <2>7. CASE DropFull(c)
    BY <2>7 DEF DropFull, Finish, Goto, PcStates, worker
  <2>8. CASE AppendOut(c)
    BY <2>8 DEF AppendOut, Finish, Goto, PcStates, worker
  <2> QED
    BY <1>6, <2>1, <2>2, <2>3, <2>4, <2>5, <2>6, <2>7, <2>8 DEF Producer
<1>7. ASSUME NEW c \in Clients, Consumer(c) PROVE LockInv'
  <2>1. CASE EnterLoop(c) \/ ReadHangs(c)
    BY <2>1 DEF EnterLoop, ReadHangs, Goto, PcStates, worker
  <2>2. CASE ~(EnterLoop(c) \/ ReadHangs(c))
    BY <1>7, <2>2 DEF Consumer, WaitAndTake, Retrieve, ClearInputQueue, DeviceSent,
                      DeviceSendFails, worker
  <2> QED
    BY <2>1, <2>2
<1>8. ASSUME NEW c \in Clients, Session(c) PROVE LockInv'
  <2>1. CASE Join(c)
    BY <2>1 DEF Join, Goto, PcStates, worker
  <2>2. CASE Leave(c)
    BY <2>2 DEF Leave, Goto, PcStates, worker
  <2>3. CASE SetFilter(c)
    BY <2>3 DEF SetFilter, worker
  <2>4. CASE ListBegin(c)
    BY <2>4 DEF ListBegin, Goto, PcStates, worker
  <2>5. CASE ListEnd(c)
    BY <2>5 DEF ListEnd, Goto, PcStates, worker
  <2> QED
    BY <1>8, <2>1, <2>2, <2>3, <2>4, <2>5 DEF Session
<1>9. CASE UNCHANGED vars
  BY <1>9 DEF vars, worker
<1> QED
  BY <1>1, <1>2, <1>3, <1>4, <1>5, <1>6, <1>7, <1>8, <1>9 DEF Next, WorkerStep

(* Whoever lists, delivers or goes round the list holds m_wxClientMutex,   *)
(* and nobody there holds a session that has left.                         *)
THEOREM LockInvariant == Spec => []LockInv
<1>1. Init => LockInv
  BY LockInit
<1>2. TypeInv /\ LockInv /\ [Next]_vars => LockInv'
  BY LockStep
<1> QED
  BY <1>1, <1>2, TypeInvariant, PTL DEF Spec

(* removeClient frees a CClientItem only when nobody is about to use it.   *)
THEOREM NoneUsedAfterRemove == Spec => []NoUseAfterRemove
BY LockInvariant, PTL DEF LockInv

-----------------------------------------------------------------------------
(* The input queues.                                                       *)

(* The worker that has chosen a session, and a sender that has found its   *)
(* addressee, still have the room they tested for.                         *)
RoomInv ==
  /\ InQueueBound
  /\ target # None => RoomInInput(target)
  /\ \A c \in Clients : pc[c] = "put" => RoomInInput(pending[c].dest)

(* A step that appends to no input queue and reserves room in none.        *)
LEMMA RoomQuiet ==
  ASSUME TypeInv, TypeInv', RoomInv,
         \A x \in Clients : Len(inQueue'[x]) <= Len(inQueue[x]),
         target' \in {None, target},
         \A x \in Clients : pc'[x] = "put" => pc[x] = "put" /\ pending'[x] = pending[x]
  PROVE  RoomInv'
<1>1. \A x \in Clients : Len(inQueue[x]) \in Nat /\ Len(inQueue'[x]) \in Nat
  <2>1. inQueue \in [Clients -> Seq(Event)] /\ inQueue' \in [Clients -> Seq(Event)]
    BY DEF TypeInv, TypeOK
  <2> QED
    BY <2>1
<1>2. \A x \in Clients : RoomInInput(x) => RoomInInput(x)'
  BY <1>1, RouterAssumption DEF RoomInInput, RouterAssumption
<1>3. InQueueBound'
  <2> SUFFICES ASSUME NEW x \in Clients PROVE Len(inQueue'[x]) <= MaxItems + 1
    BY DEF InQueueBound
  <2> QED
    BY <1>1, RouterAssumption DEF RoomInv, InQueueBound, RouterAssumption
<1>4. target' # None => RoomInInput(target)'
  BY <1>2 DEF RoomInv, TypeInv, TypeOK
<1>5. ASSUME NEW x \in Clients, pc'[x] = "put" PROVE RoomInInput(pending[x].dest)'
  <2>1. pc[x] = "put" /\ pending'[x] = pending[x] /\ pending[x].dest \in Clients
    BY <1>5 DEF TypeInv, Staged
  <2> QED
    BY <1>2, <2>1 DEF RoomInv, RoomInInput
<1> QED
  BY <1>3, <1>4, <1>5 DEF RoomInv

(* A step that leaves the input queues, target and the threads alone.      *)
LEMMA RoomSame ==
  ASSUME TypeInv, TypeInv', RoomInv, UNCHANGED <<inQueue, target>>,
         \A x \in Clients : pc'[x] = "put" => pc[x] = "put" /\ pending'[x] = pending[x]
  PROVE  RoomInv'
<1>1. \A x \in Clients : Len(inQueue'[x]) <= Len(inQueue[x])
  BY DEF TypeInv, TypeOK
<1> QED
  BY <1>1, RoomQuiet

(* An append for which there was room, when nobody else had reserved any.  *)
LEMMA RoomAppend ==
  ASSUME TypeInv, TypeInv', RoomInv, NEW c \in Clients, NEW e \in Event,
         RoomInInput(c), Enqueue(c, e), target' = None,
         \A x \in Clients : pc'[x] # "put"
  PROVE  RoomInv'
<1>1. /\ Len(inQueue'[c]) = Len(inQueue[c]) + 1
      /\ \A x \in Clients \ {c} : inQueue'[x] = inQueue[x]
  BY EnqueueType DEF TypeInv
<1>2. Len(inQueue[c]) \in Nat /\ Len(inQueue[c]) <= MaxItems
  BY DEF TypeInv, TypeOK, RoomInInput
<1>3. InQueueBound'
  BY <1>1, <1>2, RouterAssumption DEF RoomInv, InQueueBound, RouterAssumption
<1> QED
  BY <1>3 DEF RoomInv

(* At the start the input queues are empty.                                *)
LEMMA RoomInit == Init => RoomInv
BY RouterAssumption DEF Init, RoomInv, InQueueBound, RouterAssumption

(* Every step keeps the room that was found until it is used.              *)
LEMMA RoomStep == TypeInv /\ TypeInv' /\ LockInv /\ RoomInv /\ [Next]_vars => RoomInv'
<1> SUFFICES ASSUME TypeInv, TypeInv', LockInv, RoomInv, [Next]_vars PROVE RoomInv'
  OBVIOUS
<1>1. CASE WorkerTake
  BY <1>1, RoomSame DEF WorkerTake
<1>2. CASE WorkerLock
  BY <1>2, RoomSame DEF WorkerLock, queues
<1>3. CASE WorkerPut
  <2>1. target \in Clients /\ current \in Event /\ RoomInInput(target)
    BY <1>3 DEF WorkerPut, TypeInv, TypeOK, Staged, RoomInv
  <2>2. \A x \in Clients : pc'[x] # "put"
    <3>1. mutex = Worker
      BY <1>3 DEF WorkerPut, LockInv, Owners
    <3> QED
      BY <1>3, <3>1, RouterAssumption
      DEF WorkerPut, LockInv, Owners, RouterAssumption
  <2> QED
    BY <1>3, <2>1, <2>2, RoomAppend DEF WorkerPut
<1>4. CASE WorkerUnlock
  BY <1>4, RoomSame DEF WorkerUnlock, queues
<1>5. ASSUME NEW c \in Clients, WorkerVisit(c) PROVE RoomInv'
  <2>1. UNCHANGED <<inQueue, pc, pending>>
    BY <1>5 DEF WorkerVisit, queues
  <2>2. target' # None => RoomInInput(target')
    BY <1>5 DEF WorkerVisit, Wanted
  <2> QED
    BY <2>1, <2>2 DEF RoomInv, InQueueBound, RoomInInput
<1>6. ASSUME NEW c \in Clients, Producer(c) PROVE RoomInv'
  <2>1. ASSUME NEW e \in Event, SubmitText(c, e) \/ SubmitMarked(c, e) \/ SubmitUnmarked(c, e)
        PROVE  RoomInv'
    <3>1. Submit(c, e)
      BY <2>1 DEF SubmitText, SubmitMarked, SubmitUnmarked
    <3>2. pc'[c] # "put"
      BY <3>1 DEF Submit, Goto, TypeInv, TypeOK
    <3>3. \A x \in Clients \ {c} : pc'[x] = pc[x] /\ pending'[x] = pending[x]
      BY <3>1 DEF Submit, Goto, TypeInv, TypeOK
    <3>4. UNCHANGED <<inQueue, target>>
      BY <3>1 DEF Submit, queues, worker
    <3> QED
      BY <3>2, <3>3, <3>4, RoomSame
  <2>2. CASE DirectMiss(c)
    BY <2>2, RoomSame DEF DirectMiss, Goto, TypeInv, TypeOK, queues, worker
  <2>3. CASE DirectFull(c)
    BY <2>3, RoomSame DEF DirectFull, Finish, Goto, TypeInv, TypeOK, queues, worker
  <2>4. CASE DirectFound(c)
    <3>1. UNCHANGED <<inQueue, target, pending>> /\ RoomInInput(pending[c].dest)
      BY <2>4 DEF DirectFound, queues, worker
    <3>2. \A x \in Clients \ {c} : pc'[x] = pc[x]
      BY <2>4 DEF DirectFound, Goto, TypeInv, TypeOK
    <3> QED
      BY <3>1, <3>2 DEF RoomInv, InQueueBound, RoomInInput
  <2>5. CASE DirectPut(c)
    <3>1. /\ pc[c] = "put" /\ pending[c] \in Event /\ pending[c].dest \in Clients
          /\ RoomInInput(pending[c].dest)
      BY <2>5 DEF DirectPut, TypeInv, Staged, RoomInv
    <3>2. target' = None
      BY <2>5, <3>1, RouterAssumption
      DEF DirectPut, worker, LockInv, Owners, RouterAssumption
    <3>3. \A x \in Clients : pc[x] = "put" => x = c
      BY <3>1 DEF LockInv, Owners
    <3>4. \A x \in Clients : pc'[x] # "put"
      BY <2>5, <3>3 DEF DirectPut, Finish, Goto, TypeInv, TypeOK
    <3> QED
      BY <2>5, <3>1, <3>2, <3>4, RoomAppend DEF DirectPut
  <2>6. CASE CheckRoom(c)
    BY <2>6, RoomSame DEF CheckRoom, Goto, TypeInv, TypeOK, queues, worker
  <2>7. CASE DropFull(c)
    BY <2>7, RoomSame DEF DropFull, Finish, Goto, TypeInv, TypeOK, queues, worker
  <2>8. CASE AppendOut(c)
    BY <2>8, RoomSame DEF AppendOut, Finish, Goto, TypeInv, TypeOK, worker
  <2> QED
    BY <1>6, <2>1, <2>2, <2>3, <2>4, <2>5, <2>6, <2>7, <2>8 DEF Producer
<1>7. ASSUME NEW c \in Clients, Consumer(c) PROVE RoomInv'
  <2>1. /\ UNCHANGED <<pending, target>>
        /\ \A x \in Clients : pc'[x] = "put" => pc[x] = "put"
    BY <1>7 DEF Consumer, EnterLoop, WaitAndTake, Retrieve, ReadHangs, ClearInputQueue,
                DeviceSent, DeviceSendFails, Goto, TypeInv, TypeOK, worker
  <2>2. \/ UNCHANGED inQueue
        \/ inQueue[c] # <<>> /\ inQueue' = [inQueue EXCEPT ![c] = Tail(@)]
        \/ inQueue' = [inQueue EXCEPT ![c] = <<>>]
    BY <1>7 DEF Consumer, EnterLoop, WaitAndTake, Retrieve, ReadHangs, ClearInputQueue,
                DeviceSent, DeviceSendFails, queues
  <2>3. \A x \in Clients : Len(inQueue'[x]) <= Len(inQueue[x])
    <3>1. inQueue[c] # <<>> => Len(Tail(inQueue[c])) <= Len(inQueue[c])
      BY TailFacts DEF TypeInv, TypeOK
    <3>2. Len(<<>>) <= Len(inQueue[c])
      BY DEF TypeInv, TypeOK
    <3>3. \A x \in Clients \ {c} : inQueue'[x] = inQueue[x]
      BY <2>2 DEF TypeInv, TypeOK
    <3>4. Len(inQueue'[c]) <= Len(inQueue[c])
      BY <2>2, <3>1, <3>2 DEF TypeInv, TypeOK
    <3>5. \A x \in Clients : Len(inQueue[x]) \in Nat
      BY DEF TypeInv, TypeOK
    <3> QED
      BY <3>3, <3>4, <3>5
  <2> QED
    BY <2>1, <2>3, RoomQuiet
<1>8. ASSUME NEW c \in Clients, Session(c) PROVE RoomInv'
  <2>1. CASE Join(c)
    BY <2>1, RoomSame DEF Join, Goto, TypeInv, TypeOK, queues, worker
  <2>2. CASE Leave(c)
    <3>1. \A x \in Clients : Len(inQueue'[x]) <= Len(inQueue[x])
      BY <2>2 DEF Leave, TypeInv, TypeOK
    <3> QED
      BY <2>2, <3>1, RoomQuiet DEF Leave, Goto, TypeInv, TypeOK, worker
  <2>3. CASE SetFilter(c)
    BY <2>3, RoomSame DEF SetFilter, queues, worker
  <2>4. CASE ListBegin(c)
    BY <2>4, RoomSame DEF ListBegin, Goto, TypeInv, TypeOK, queues, worker
  <2>5. CASE ListEnd(c)
    BY <2>5, RoomSame DEF ListEnd, Goto, TypeInv, TypeOK, queues, worker
  <2> QED
    BY <1>8, <2>1, <2>2, <2>3, <2>4, <2>5 DEF Session
<1>9. CASE UNCHANGED vars
  BY <1>9, RoomSame DEF vars, queues, worker
<1> QED
  BY <1>1, <1>2, <1>3, <1>4, <1>5, <1>6, <1>7, <1>8, <1>9 DEF Next, WorkerStep

(* However sender and worker interleave, no input queue grows past         *)
(* MaxItems + 1.                                                           *)
THEOREM InputQueuesBounded == Spec => []InQueueBound
<1>1. Init => RoomInv
  BY RoomInit
<1>2. TypeInv /\ TypeInv' /\ LockInv /\ RoomInv /\ [Next]_vars => RoomInv'
  BY RoomStep
<1>3. RoomInv => InQueueBound
  BY DEF RoomInv
<1> QED
  BY <1>1, <1>2, <1>3, TypeInvariant, LockInvariant, PTL DEF Spec

-----------------------------------------------------------------------------
(* Wakeups.                                                                *)

(* A step that leaves the queues and the semaphores alone.                 *)
LEMMA WakeSame ==
  ASSUME NoLostWakeup, UNCHANGED queues
  PROVE  NoLostWakeup'
BY DEF NoLostWakeup, queues

(* A step that posts an input queue's semaphore for what it appends.       *)
LEMMA WakeEnqueue ==
  ASSUME TypeInv, NoLostWakeup, NEW c \in Clients, NEW e \in Event,
         Enqueue(c, e), UNCHANGED <<outQueue, outSem>>
  PROVE  NoLostWakeup'
<1>1. /\ Len(inQueue'[c]) = Len(inQueue[c]) + 1 /\ inSem'[c] = inSem[c] + 1
      /\ \A x \in Clients \ {c} : inQueue'[x] = inQueue[x] /\ inSem'[x] = inSem[x]
  BY EnqueueType DEF TypeInv
<1>2. Len(inQueue[c]) \in Nat /\ inSem[c] \in Nat
  BY DEF TypeInv, TypeOK
<1>3. \A x \in Clients \ Devices : Len(inQueue'[x]) <= inSem'[x]
  BY <1>1, <1>2 DEF NoLostWakeup
<1> QED
  BY <1>3 DEF NoLostWakeup

(* A step that takes from one session's input queue.                       *)
LEMMA WakeTake ==
  ASSUME TypeInv, NoLostWakeup, NEW c \in Clients, UNCHANGED <<outQueue, outSem>>,
         \A x \in Clients \ {c} : inQueue'[x] = inQueue[x] /\ inSem'[x] = inSem[x],
         c \in Devices \/ Len(inQueue'[c]) <= inSem'[c]
  PROVE  NoLostWakeup'
BY DEF NoLostWakeup

(* Every step posts what it appends and takes no more than it waited for.  *)
LEMMA WakeStep == TypeInv /\ NoLostWakeup /\ [Next]_vars => NoLostWakeup'
<1> SUFFICES ASSUME TypeInv, NoLostWakeup, [Next]_vars PROVE NoLostWakeup'
  OBVIOUS
<1>0. /\ \A x \in Clients : Len(inQueue[x]) \in Nat /\ inSem[x] \in Nat
      /\ Len(outQueue) \in Nat /\ outSem \in Nat
  BY DEF TypeInv, TypeOK
<1>1. CASE WorkerTake
  <2>1. UNCHANGED <<inQueue, inSem>>
    BY <1>1 DEF WorkerTake
  <2>2. CASE outQueue = <<>>
    BY <1>0, <1>1, <2>1, <2>2 DEF WorkerTake, NoLostWakeup
  <2>3. CASE outQueue # <<>>
    <3>1. Len(outQueue') = Len(outQueue) - 1
      BY <1>1, <2>3, TailFacts DEF WorkerTake, TypeInv, TypeOK
    <3> QED
      BY <1>0, <1>1, <2>1, <3>1 DEF WorkerTake, NoLostWakeup
  <2> QED
    BY <2>2, <2>3
<1>2. CASE WorkerLock
  BY <1>2, WakeSame DEF WorkerLock
<1>3. CASE WorkerPut
  <2>1. target \in Clients /\ current \in Event
    BY <1>3 DEF WorkerPut, TypeInv, TypeOK, Staged
  <2> QED
    BY <1>3, <2>1, WakeEnqueue DEF WorkerPut
<1>4. CASE WorkerUnlock
  BY <1>4, WakeSame DEF WorkerUnlock
<1>5. ASSUME NEW c \in Clients, WorkerVisit(c) PROVE NoLostWakeup'
  BY <1>5, WakeSame DEF WorkerVisit
<1>6. ASSUME NEW c \in Clients, Producer(c) PROVE NoLostWakeup'
  <2>1. ASSUME NEW e \in Event, SubmitText(c, e) \/ SubmitMarked(c, e) \/ SubmitUnmarked(c, e)
        PROVE  NoLostWakeup'
    BY <2>1, WakeSame DEF SubmitText, SubmitMarked, SubmitUnmarked, Submit
  <2>2. CASE DirectMiss(c) \/ DirectFull(c) \/ DirectFound(c) \/ CheckRoom(c) \/ DropFull(c)
    BY <2>2, WakeSame DEF DirectMiss, DirectFull, DirectFound, CheckRoom, DropFull
  <2>3. CASE DirectPut(c)
    <3>1. pending[c] \in Event /\ pending[c].dest \in Clients
      BY <2>3 DEF DirectPut, TypeInv, Staged
    <3> QED
      BY <2>3, <3>1, WakeEnqueue DEF DirectPut
  <2>4. CASE AppendOut(c)
    <3>1. pending[c] \in Event
      BY <2>4 DEF AppendOut, TypeInv, Staged
    <3>2. Len(outQueue') = Len(outQueue) + 1 /\ outSem' = outSem + 1
      BY <2>4, <3>1, SeqFacts DEF AppendOut, TypeInv, TypeOK
    <3> QED
      BY <1>0, <2>4, <3>2 DEF AppendOut, NoLostWakeup
  <2> QED
    BY <1>6, <2>1, <2>2, <2>3, <2>4 DEF Producer
<1>7. ASSUME NEW c \in Clients, Consumer(c) PROVE NoLostWakeup'
  <2> USE DEF TypeInv, TypeOK
  <2>1. CASE WaitAndTake(c)
    <3>1. inQueue[c] # <<>> => Len(Tail(inQueue[c])) = Len(inQueue[c]) - 1
      BY TailFacts
    <3>2. CASE inQueue[c] = <<>>
      <4>1. UNCHANGED inQueue /\ Len(inQueue[c]) = 0
        BY <2>1, <3>2 DEF WaitAndTake
      <4> QED
        BY <1>0, <2>1, <4>1, WakeTake DEF WaitAndTake
    <3>3. CASE inQueue[c] # <<>>
      <4>1. Len(inQueue'[c]) = Len(inQueue[c]) - 1
        BY <2>1, <3>1, <3>3 DEF WaitAndTake
      <4>2. c \in Devices \/ Len(inQueue'[c]) <= inSem'[c]
        BY <1>0, <2>1, <4>1 DEF WaitAndTake, NoLostWakeup
      <4> QED
        BY <2>1, <3>3, <4>2, WakeTake DEF WaitAndTake
    <3> QED
      BY <3>2, <3>3
  <2>2. CASE Retrieve(c)
    <3>1. Len(Tail(inQueue[c])) = Len(inQueue[c]) - 1
      BY <2>2, TailFacts DEF Retrieve
    <3>2. c \in Devices \/ Len(inQueue'[c]) <= inSem'[c]
      BY <1>0, <2>2, <3>1 DEF Retrieve, NoLostWakeup
    <3> QED
      BY <2>2, <3>2, WakeTake DEF Retrieve
  <2>3. CASE ClearInputQueue(c)
    <3>1. Len(inQueue'[c]) = 0
      BY <2>3 DEF ClearInputQueue
    <3>2. Len(inQueue'[c]) <= inSem'[c]
      BY <1>0, <2>3, <3>1 DEF ClearInputQueue
    <3> QED
      BY <2>3, <3>2, WakeTake DEF ClearInputQueue
  <2>4. CASE DeviceSent(c)
    <3>1. \A x \in Clients \ {c} : inQueue'[x] = inQueue[x] /\ inSem'[x] = inSem[x]
      BY <2>4 DEF DeviceSent
    <3> QED
      BY <2>4, <3>1, WakeTake DEF DeviceSent
  <2>5. CASE DeviceSendFails(c)
    <3>1. \A x \in Clients \ {c} : inQueue'[x] = inQueue[x] /\ inSem'[x] = inSem[x]
      BY <2>5 DEF DeviceSendFails
    <3>2. Len(outQueue') <= outSem'
      BY <1>0, <2>5 DEF DeviceSendFails, NoLostWakeup
    <3> QED
      BY <2>5, <3>1, <3>2 DEF DeviceSendFails, NoLostWakeup
  <2>6. CASE EnterLoop(c) \/ ReadHangs(c)
    BY <2>6, WakeSame DEF EnterLoop, ReadHangs
  <2> QED
    BY <1>7, <2>1, <2>2, <2>3, <2>4, <2>5, <2>6 DEF Consumer
<1>8. ASSUME NEW c \in Clients, Session(c) PROVE NoLostWakeup'
  <2>1. CASE Leave(c)
    <3>1. Len(inQueue'[c]) <= inSem'[c]
      BY <2>1 DEF Leave, TypeInv, TypeOK
    <3> QED
      BY <2>1, <3>1, WakeTake DEF Leave, TypeInv, TypeOK
  <2>2. CASE Join(c) \/ SetFilter(c) \/ ListBegin(c) \/ ListEnd(c)
    BY <2>2, WakeSame DEF Join, SetFilter, ListBegin, ListEnd
  <2> QED
    BY <1>8, <2>1, <2>2 DEF Session
<1>9. CASE UNCHANGED vars
  BY <1>9, WakeSame DEF vars
<1> QED
  BY <1>1, <1>2, <1>3, <1>4, <1>5, <1>6, <1>7, <1>8, <1>9 DEF Next, WorkerStep

(* A queued event is never left to a reader that sleeps on its semaphore.  *)
THEOREM WakeupsKept == Spec => []NoLostWakeup
<1>1. Init => NoLostWakeup
  BY DEF Init, NoLostWakeup
<1>2. TypeInv /\ NoLostWakeup /\ [Next]_vars => NoLostWakeup'
  BY WakeStep
<1> QED
  BY <1>1, <1>2, TypeInvariant, PTL DEF Spec

-----------------------------------------------------------------------------
(* The output queue.                                                       *)

(* The committed producers are finitely many.                              *)
LEMMA CommittedFinite ==
  /\ IsFiniteSet(Committed) /\ Cardinality(Committed) \in Nat
  /\ Cardinality(Clients) \in Nat /\ Cardinality(Committed) <= Cardinality(Clients)
<1>1. Committed \subseteq Clients
  BY DEF Committed
<1> QED
  BY <1>1, RouterAssumption, FS_Subset, FS_CardinalityType DEF RouterAssumption

(* Going in a step from one set of committed producers to a smaller one.   *)
LEMMA BoundQuiet ==
  ASSUME TypeInv, TypeInv', OutQueueBound,
         Len(outQueue') <= Len(outQueue), Committed' \subseteq Committed
  PROVE  OutQueueBound'
<1>1. /\ IsFiniteSet(Committed) /\ Cardinality(Committed) \in Nat
      /\ Cardinality(Clients) \in Nat
  BY CommittedFinite
<1>2. IsFiniteSet(Committed') /\ Cardinality(Committed') <= Cardinality(Committed)
  BY <1>1, FS_Subset
<1>3. Cardinality(Committed') \in Nat
  BY <1>2, FS_CardinalityType
<1>4. Len(outQueue) \in Nat /\ Len(outQueue') \in Nat
  <2>1. outQueue \in Seq(Event) /\ outQueue' \in Seq(Event)
    BY DEF TypeInv, TypeOK
  <2> QED
    BY <2>1
<1> QED
  BY <1>1, <1>2, <1>3, <1>4, RouterAssumption DEF OutQueueBound, RouterAssumption

(* A step that leaves the output queue alone and commits nobody.           *)
LEMMA BoundSame ==
  ASSUME TypeInv, TypeInv', OutQueueBound, UNCHANGED outQueue,
         \A x \in Clients : pc'[x] = "append" => pc[x] = "append"
  PROVE  OutQueueBound'
<1>1. Committed' \subseteq Committed
  BY DEF Committed
<1>2. Len(outQueue') <= Len(outQueue)
  BY DEF TypeInv, TypeOK
<1> QED
  BY <1>1, <1>2, BoundQuiet

(* Every step keeps the bound: an append turns a committed producer into an*)
(* event, and a producer commits only when the queue has room.             *)
LEMMA BoundStep == TypeInv /\ TypeInv' /\ OutQueueBound /\ [Next]_vars => OutQueueBound'
<1> SUFFICES ASSUME TypeInv, TypeInv', OutQueueBound, [Next]_vars PROVE OutQueueBound'
  OBVIOUS
<1>1. CASE WorkerTake
  <2>1. Committed' = Committed
    BY <1>1 DEF WorkerTake, Committed
  <2>2. Len(outQueue') <= Len(outQueue)
    <3>1. CASE outQueue = <<>>
      BY <1>1, <3>1 DEF WorkerTake, TypeInv, TypeOK
    <3>2. CASE outQueue # <<>>
      BY <1>1, <3>2, TailFacts DEF WorkerTake, TypeInv, TypeOK
    <3> QED
      BY <3>1, <3>2
  <2> QED
    BY <2>1, <2>2, BoundQuiet
<1>2. CASE WorkerLock \/ WorkerPut \/ WorkerUnlock \/ \E c \in Clients : WorkerVisit(c)
  BY <1>2, BoundSame DEF WorkerLock, WorkerPut, WorkerUnlock, WorkerVisit, queues
<1>3. ASSUME NEW c \in Clients, Producer(c) PROVE OutQueueBound'
  <2>1. ASSUME NEW e \in Event, SubmitText(c, e) \/ SubmitMarked(c, e) \/ SubmitUnmarked(c, e)
        PROVE  OutQueueBound'
    <3>1. Submit(c, e)
      BY <2>1 DEF SubmitText, SubmitMarked, SubmitUnmarked
    <3>2. pc'[c] # "append" /\ \A x \in Clients \ {c} : pc'[x] = pc[x]
      BY <3>1 DEF Submit, Goto, TypeInv, TypeOK
    <3> QED
      BY <3>1, <3>2, BoundSame DEF Submit, queues
  <2>2. CASE DirectMiss(c)
    BY <2>2, BoundSame DEF DirectMiss, Goto, TypeInv, TypeOK, queues
  <2>3. CASE DirectFull(c)
    BY <2>3, BoundSame DEF DirectFull, Finish, Goto, TypeInv, TypeOK, queues
  <2>4. CASE DirectFound(c)
    BY <2>4, BoundSame DEF DirectFound, Goto, TypeInv, TypeOK, queues
  <2>5. CASE DirectPut(c)
    BY <2>5, BoundSame DEF DirectPut, Finish, Goto, TypeInv, TypeOK
  <2>6. CASE CheckRoom(c)
    <3>1. Committed' \subseteq Clients /\ IsFiniteSet(Clients)
      BY RouterAssumption DEF Committed, RouterAssumption
    <3>2. Cardinality(Committed') <= Cardinality(Clients) /\ Cardinality(Committed') \in Nat
      BY <3>1, FS_Subset, FS_CardinalityType
    <3>3. UNCHANGED outQueue /\ Len(outQueue) < MaxItems /\ Len(outQueue) \in Nat
      BY <2>6 DEF CheckRoom, RoomInOutput, queues, TypeInv, TypeOK
    <3>4. Cardinality(Clients) \in Nat
      BY CommittedFinite
    <3> QED
      BY <3>2, <3>3, <3>4, RouterAssumption DEF OutQueueBound, RouterAssumption
  <2>7. CASE DropFull(c)
    BY <2>7, BoundSame DEF DropFull, Finish, Goto, TypeInv, TypeOK, queues
  <2>8. CASE AppendOut(c)
    <3>1. c \in Committed /\ Committed' = Committed \ {c}
      BY <2>8 DEF AppendOut, Finish, Goto, Committed, TypeInv, TypeOK
    <3>2. Cardinality(Committed') = Cardinality(Committed) - 1
      BY <3>1, CommittedFinite, FS_RemoveElement
    <3>3. pending[c] \in Event
      BY <2>8 DEF AppendOut, TypeInv, Staged
    <3>4. Len(outQueue') = Len(outQueue) + 1 /\ Len(outQueue) \in Nat
      BY <2>8, <3>3, SeqFacts DEF AppendOut, TypeInv, TypeOK
    <3> QED
      BY <3>2, <3>4, CommittedFinite, RouterAssumption DEF OutQueueBound, RouterAssumption
  <2> QED
    BY <1>3, <2>1, <2>2, <2>3, <2>4, <2>5, <2>6, <2>7, <2>8 DEF Producer
<1>4. ASSUME NEW c \in Clients, Consumer(c) PROVE OutQueueBound'
  <2>1. UNCHANGED outQueue /\ \A x \in Clients : pc'[x] = "append" => pc[x] = "append"
    BY <1>4 DEF Consumer, EnterLoop, WaitAndTake, Retrieve, ReadHangs, ClearInputQueue,
                DeviceSent, DeviceSendFails, Goto, TypeInv, TypeOK, queues
  <2> QED
    BY <2>1, BoundSame
<1>5. ASSUME NEW c \in Clients, Session(c) PROVE OutQueueBound'
  <2>1. UNCHANGED outQueue
    BY <1>5 DEF Session, Join, Leave, SetFilter, ListBegin, ListEnd, queues
  <2>2. \A x \in Clients : pc'[x] = "append" => pc[x] = "append"
    BY <1>5 DEF Session, Join, Leave, SetFilter, ListBegin, ListEnd, Goto, TypeInv, TypeOK
  <2> QED
    BY <2>1, <2>2, BoundSame
<1>6. CASE UNCHANGED vars
  BY <1>6, BoundSame DEF vars, queues
<1> QED
  BY <1>1, <1>2, <1>3, <1>4, <1>5, <1>6 DEF Next, WorkerStep

(* The unlocked test for room lets the output queue overshoot its limit by *)
(* at most one event for every producer but one.                           *)
THEOREM OutputQueueBounded == Spec => []OutQueueBound
<1>1. Init => OutQueueBound
  <2> SUFFICES ASSUME Init PROVE OutQueueBound
    OBVIOUS
  <2>1. Committed = {} /\ Len(outQueue) = 0
    BY DEF Init, Committed
  <2> QED
    BY <2>1, CommittedFinite, FS_EmptySet, RouterAssumption DEF OutQueueBound, RouterAssumption
<1>2. TypeInv /\ TypeInv' /\ OutQueueBound /\ [Next]_vars => OutQueueBound'
  BY BoundStep
<1> QED
  BY <1>1, <1>2, TypeInvariant, PTL DEF Spec
=============================================================================

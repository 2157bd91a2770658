---------------------------- MODULE EventRouter ----------------------------
(***************************************************************************)
(* How an event travels from one session of the VSCP daemon to the others. *)
(* A session is a thread that owns a CClientItem: a TCP connection, a      *)
(* driver, the UDP threads, the daemon's own thread, the decision matrix.  *)
(* It submits events to the one m_clientOutputQueue; clientMsgWorkerThread *)
(* takes them off and copies them to the m_clientInputQueue of every other *)
(* session.  An event that a text-mode TCP session addresses to the GUID   *)
(* of another session bypasses the worker.                                 *)
(*                                                                         *)
(* A test of queue length is a step of its own wherever the code makes it  *)
(* without the lock it later takes to append.                              *)
(***************************************************************************)
EXTENDS Naturals, Sequences, FiniteSets

CONSTANTS
  Clients,    \* every session that ever attaches (ids are never reused)
  Binary,     \* the TCP sessions in binary mode (BIN1, BIN2)
  Devices,    \* the sessions of blocking Level I drivers
  Services,   \* those of the daemon's own thread and of the UDP threads
  Matrix,     \* that of the decision matrix; the others are text-mode TCP
  Kinds,      \* the classes of events a filter tells apart
  Filters,    \* the filters a session may set, each a set of kinds
  MaxItems,   \* m_maxItemsInClientReceiveQueue
  MaxSend,    \* bound: events one session submits
  RelockBlocks, \* wxMutex::Lock blocks its own owner (or returns an error)
  Worker,     \* clientMsgWorkerThread, as an owner of m_wxClientMutex
  None        \* no session, no event, nobody

ASSUME RouterAssumption ==
  /\ IsFiniteSet(Clients)
  /\ Binary \subseteq Clients
  /\ Devices \subseteq Clients \ Binary
  /\ Services \subseteq Clients \ (Binary \cup Devices)
  /\ Matrix \subseteq Clients \ (Binary \cup Devices \cup Services)
  /\ Filters \subseteq SUBSET Kinds
  /\ MaxItems \in Nat \ {0}
  /\ MaxSend \in Nat
  /\ RelockBlocks \in BOOLEAN
  /\ None \notin Clients \cup {Worker}
  /\ Worker \notin Clients

(* A vscpEvent: who really sent it (for the properties), the obid field    *)
(* that excludes a session from the broadcast, a serial number, the class  *)
(* and the session whose GUID starts the data, if any.                     *)
Event == [src  : Clients, obid : Clients \cup {None}, num : 1..MaxSend,
          kind : Kinds,   dest : Clients \cup {None}]

ASSUME NoneIsNoEvent == None \notin Event

VARIABLES
  outQueue,   \* m_clientOutputQueue
  outSem,     \* value of m_semClientOutputQueue
  inQueue,    \* m_clientInputQueue of each session
  inSem,      \* value of m_semClientInputQueue of each session
  filter,     \* m_filterVSCP of each session
  members,    \* the sessions in m_clientList
  mutex,      \* owner of m_wxClientMutex, or None
  pc,         \* where each session's thread is
  pending,    \* the event a session is submitting, or None
  num,        \* how many events each session has submitted
  current,    \* the event the worker is distributing, or None
  todo,       \* the sessions the worker has yet to look at
  target,     \* the session the worker is about to append to, or None
  log,        \* history: broadcast events put in each input queue, in order
  direct      \* history: events put in an input queue by their sender

queues  == <<outQueue, outSem, inQueue, inSem>>
worker  == <<current, todo, target>>
history == <<log, direct>>
vars == <<queues, filter, members, mutex, pc, pending, num, worker, history>>

Init ==
  /\ outQueue = <<>>
  /\ outSem = 0
  /\ inQueue = [c \in Clients |-> <<>>]
  /\ inSem = [c \in Clients |-> 0]
  /\ filter = [c \in Clients |-> Kinds]
  /\ members = {}
  /\ mutex = None
  /\ pc = [c \in Clients |-> "new"]
  /\ pending = [c \in Clients |-> None]
  /\ num = [c \in Clients |-> 0]
  /\ current = None
  /\ todo = {}
  /\ target = None
  /\ log = [c \in Clients |-> <<>>]
  /\ direct = {}

-----------------------------------------------------------------------------
(* Helpers.                                                                *)

Text == Clients \ (Binary \cup Devices \cup Services \cup Matrix)

(* doLevel2Filter, on a filter abstracted to the kinds it lets through.    *)
Passes(e, c) == e.kind \in filter[c]

(* The two tests for room differ: strict for the output queue, and "not    *)
(* more than" for an input queue, which may thus hold MaxItems + 1.        *)
(* Mutant: the limit itself still counts as room.                          *)
RoomOffByOne == Len(outQueue) <= MaxItems
RoomInOutput == Len(outQueue) < MaxItems
RoomInInput(c) == Len(inQueue[c]) <= MaxItems

(* Mutant: the semaphore is not posted.                                    *)
EnqueueSilently(c, e) ==
  /\ pc[c] # "stuck"
  /\ inQueue' = [inQueue EXCEPT ![c] = Append(@, e)]
  /\ inSem' = inSem

(* Append to a session's input queue and post its semaphore, both under    *)
(* the queue's own mutex, which a session that hangs never gives back.     *)
Enqueue(c, e) ==
  /\ pc[c] # "stuck"
  /\ inQueue' = [inQueue EXCEPT ![c] = Append(@, e)]
  /\ inSem' = [inSem EXCEPT ![c] = @ + 1]

Goto(c, l) == pc' = [pc EXCEPT ![c] = l]

(* The session's thread is done with the event it was submitting.          *)
Finish(c) ==
  /\ Goto(c, "idle")
  /\ pending' = [pending EXCEPT ![c] = None]

-----------------------------------------------------------------------------
(* Attaching and leaving.                                                  *)

(* addClient under m_wxClientMutex; the filter starts clear.               *)
Join(c) ==
  /\ pc[c] = "new"
  /\ mutex = None
  /\ members' = members \cup {c}
  /\ Goto(c, "idle")
  /\ UNCHANGED <<queues, filter, mutex, pending, num, worker, history>>

(* Mutant: m_wxClientMutex is not taken.                                   *)
LeaveUnlocked(c) ==
  /\ pc[c] \in {"idle", "loop"}
  /\ members' = members \ {c}
  /\ inQueue' = [inQueue EXCEPT ![c] = <<>>]
  /\ inSem' = [inSem EXCEPT ![c] = 0]
  /\ Goto(c, "gone")
  /\ UNCHANGED <<outQueue, outSem, filter, mutex, pending, num, worker, history>>

(* removeClient under m_wxClientMutex; it frees the item and its queue.    *)
Leave(c) ==
  /\ pc[c] \in {"idle", "loop"}
  /\ mutex = None
  /\ members' = members \ {c}
  /\ inQueue' = [inQueue EXCEPT ![c] = <<>>]
  /\ inSem' = [inSem EXCEPT ![c] = 0]
  /\ Goto(c, "gone")
  /\ UNCHANGED <<outQueue, outSem, filter, mutex, pending, num, worker, history>>

(* SFLT and SMSK.                                                          *)
SetFilter(c) ==
  /\ c \in Text
  /\ pc[c] = "idle"
  /\ \E F \in Filters : filter' = [filter EXCEPT ![c] = F]
  /\ UNCHANGED <<queues, members, mutex, pc, pending, num, worker, history>>

(* INTERFACE LIST writes one line per session to the socket while it holds *)
(* m_wxClientMutex.                                                        *)
ListBegin(c) ==
  /\ c \in Text
  /\ pc[c] = "idle"
  /\ mutex = None
  /\ mutex' = c
  /\ Goto(c, "list")
  /\ UNCHANGED <<queues, filter, members, pending, num, worker, history>>

(* Mutant: the lock is kept.                                               *)
ListEndLocked(c) ==
  /\ pc[c] = "list"
  /\ Goto(c, "idle")
  /\ UNCHANGED <<queues, filter, members, mutex, pending, num, worker, history>>

ListEnd(c) ==
  /\ pc[c] = "list"
  /\ mutex' = None
  /\ Goto(c, "idle")
  /\ UNCHANGED <<queues, filter, members, pending, num, worker, history>>

-----------------------------------------------------------------------------
(* Submitting an event.                                                    *)

Submit(c, e) ==
  /\ pc[c] = "idle"
  /\ num[c] < MaxSend
  /\ num' = [num EXCEPT ![c] = @ + 1]
  /\ e.src = c
  /\ e.num = num'[c]
  /\ pending' = [pending EXCEPT ![c] = e]
  /\ Goto(c, IF e.dest = None THEN "check" ELSE "lookup")
  /\ UNCHANGED <<queues, filter, members, mutex, worker, history>>

(* SEND of a text-mode session.                                            *)
SubmitText(c, e) ==
  /\ c \in Text
  /\ e.obid = c
  /\ Submit(c, e)

(* A driver's frame, a UDP datagram, an answer of the daemon's thread.     *)
SubmitMarked(c, e) ==
  /\ c \in Devices \cup Services
  /\ e.obid = c
  /\ e.dest = None
  /\ Submit(c, e)

(* handleFastIncomingFrame stores the session's id in obid and then copies *)
(* a local event over it whose obid was never assigned: any value.  The    *)
(* decision matrix sends the obid its action's text gives.                 *)
SubmitUnmarked(c, e) ==
  /\ c \in Binary \cup Matrix
  /\ e.dest = None
  /\ Submit(c, e)

(* Mutants: the search that finds the session releases the lock before the *)
(* append; a direct delivery goes on to the broadcast.                     *)
DirectFoundUnlocked(c) ==
  /\ pc[c] = "lookup"
  /\ mutex = None
  /\ LET d == pending[c].dest IN
       d \in members /\ Passes(pending[c], d) /\ RoomInInput(d)
  /\ Goto(c, "put")
  /\ UNCHANGED <<queues, filter, members, mutex, pending, num, worker, history>>

DirectPutAndSend(c) ==
  /\ pc[c] = "put"
  /\ Enqueue(pending[c].dest, pending[c])
  /\ direct' = direct \cup {pending[c]}
  /\ mutex' = None
  /\ Goto(c, "check")
  /\ UNCHANGED <<outQueue, outSem, filter, members, pending, num, worker, log>>

(* Lock m_wxClientMutex, look for the addressed session and test its       *)
(* filter and its queue.  Three outcomes: it is not there or filters the   *)
(* event out, and the event will be broadcast; its queue is full and the   *)
(* event is dropped; or it has room and the lock is kept for the append.   *)
DirectMiss(c) ==
  /\ pc[c] = "lookup"
  /\ mutex = None
  /\ LET d == pending[c].dest IN d \notin members \/ ~Passes(pending[c], d)
  /\ Goto(c, "check")
  /\ UNCHANGED <<queues, filter, members, mutex, pending, num, worker, history>>

DirectFull(c) ==
  /\ pc[c] = "lookup"
  /\ mutex = None
  /\ LET d == pending[c].dest IN
       d \in members /\ Passes(pending[c], d) /\ ~RoomInInput(d)
  /\ Finish(c)
  /\ UNCHANGED <<queues, filter, members, mutex, num, worker, history>>

DirectFound(c) ==
  /\ pc[c] = "lookup"
  /\ mutex = None
  /\ LET d == pending[c].dest IN
       d \in members /\ Passes(pending[c], d) /\ RoomInInput(d)
  /\ mutex' = c
  /\ Goto(c, "put")
  /\ UNCHANGED <<queues, filter, members, pending, num, worker, history>>

DirectPut(c) ==
  /\ pc[c] = "put"
  /\ Enqueue(pending[c].dest, pending[c])
  /\ direct' = direct \cup {pending[c]}
  /\ mutex' = None
  /\ Finish(c)
  /\ UNCHANGED <<outQueue, outSem, filter, members, num, worker, log>>

(* The room in the output queue is tested without its mutex ...            *)
CheckRoom(c) ==
  /\ pc[c] = "check"
  /\ RoomInOutput
  /\ Goto(c, "append")
  /\ UNCHANGED <<queues, filter, members, mutex, pending, num, worker, history>>

(* ... and a full queue loses the event (cntOverruns, or nothing at all).  *)
DropFull(c) ==
  /\ pc[c] = "check"
  /\ ~RoomInOutput
  /\ Finish(c)
  /\ UNCHANGED <<queues, filter, members, mutex, num, worker, history>>

(* Mutant: the worker's semaphore is not posted.                           *)
AppendOutSilently(c) ==
  /\ pc[c] = "append"
  /\ outQueue' = Append(outQueue, pending[c])
  /\ Finish(c)
  /\ UNCHANGED <<outSem, inQueue, inSem, filter, members, mutex, num, worker,
                 history>>

AppendOut(c) ==
  /\ pc[c] = "append"
  /\ outQueue' = Append(outQueue, pending[c])
  /\ outSem' = outSem + 1
  /\ Finish(c)
  /\ UNCHANGED <<inQueue, inSem, filter, members, mutex, num, worker, history>>

-----------------------------------------------------------------------------
(* clientMsgWorkerThread.                                                  *)

(* Mutants: the result of the wait is not looked at; the queue is served   *)
(* from its end.                                                           *)
WorkerTakeUnwaited ==
  /\ current = None
  /\ outSem' = outSem - 1
  /\ IF outQueue = <<>>
       THEN UNCHANGED <<outQueue, current>>
       ELSE outQueue' = Tail(outQueue) /\ current' = Head(outQueue)
  /\ UNCHANGED <<inQueue, inSem, filter, members, mutex, pc, pending, num,
                 todo, target, history>>

WorkerTakeLast ==
  /\ current = None
  /\ outSem > 0
  /\ outSem' = outSem - 1
  /\ LET n == Len(outQueue) IN
       IF n = 0
       THEN UNCHANGED <<outQueue, current>>
       ELSE outQueue' = SubSeq(outQueue, 1, n - 1) /\ current' = outQueue[n]
  /\ UNCHANGED <<inQueue, inSem, filter, members, mutex, pc, pending, num,
                 todo, target, history>>

(* One successful wait; if the queue is not empty its head is removed.     *)
WorkerTake ==
  /\ current = None
  /\ outSem > 0
  /\ outSem' = outSem - 1
  /\ IF outQueue = <<>>
       THEN UNCHANGED <<outQueue, current>>
       ELSE outQueue' = Tail(outQueue) /\ current' = Head(outQueue)
  /\ UNCHANGED <<inQueue, inSem, filter, members, mutex, pc, pending, num,
                 todo, target, history>>

(* sendEventAllClients holds m_wxClientMutex over the whole loop.          *)
WorkerLock ==
  /\ current # None
  /\ mutex = None
  /\ mutex' = Worker
  /\ todo' = members
  /\ UNCHANGED <<queues, filter, members, pc, pending, num, current, target,
                 history>>

(* Mutant: the sender is not left out.                                     *)
WantedByAll(c) == Passes(current, c) /\ RoomInInput(c)

(* The tests of one iteration and of sendEventToClient.                    *)
Wanted(c) == c # current.obid /\ Passes(current, c) /\ RoomInInput(c)

WorkerVisit(c) ==
  /\ mutex = Worker
  /\ target = None
  /\ c \in todo
  /\ todo' = todo \ {c}
  /\ target' = IF Wanted(c) THEN c ELSE None
  /\ UNCHANGED <<queues, filter, members, mutex, pc, pending, num, current,
                 history>>

WorkerPut ==
  /\ target # None
  /\ Enqueue(target, current)
  /\ log' = [log EXCEPT ![target] = Append(@, current)]
  /\ target' = None
  /\ UNCHANGED <<outQueue, outSem, filter, members, mutex, pc, pending, num,
                 current, todo, direct>>

(* Mutant: the round is broken off after any session.                      *)
WorkerUnlockEarly ==
  /\ mutex = Worker
  /\ target = None
  /\ mutex' = None
  /\ current' = None
  /\ UNCHANGED <<queues, filter, members, pc, pending, num, todo, target,
                 history>>

WorkerUnlock ==
  /\ mutex = Worker
  /\ todo = {}
  /\ target = None
  /\ mutex' = None
  /\ current' = None
  /\ UNCHANGED <<queues, filter, members, pc, pending, num, todo, target,
                 history>>

-----------------------------------------------------------------------------
(* Reading an input queue.  Only the session's own threads remove events.  *)

(* RCVLOOP is never left but by the end of the connection.                 *)
EnterLoop(c) ==
  /\ c \in Text
  /\ pc[c] = "idle"
  /\ Goto(c, "loop")
  /\ UNCHANGED <<queues, filter, members, mutex, pending, num, worker, history>>

(* A wait that succeeds and takes the head, if there is one: RCVLOOP, the  *)
(* decision matrix, the UDP sender, the daemon's thread.                   *)
WaitAndTake(c) ==
  /\ pc[c] = "loop" \/ (c \in Services \cup Matrix /\ pc[c] = "idle")
  /\ inSem[c] > 0
  /\ inSem' = [inSem EXCEPT ![c] = @ - 1]
  /\ inQueue' = IF inQueue[c] = <<>> THEN inQueue
                ELSE [inQueue EXCEPT ![c] = Tail(@)]
  /\ UNCHANGED <<outQueue, outSem, filter, members, mutex, pc, pending, num,
                 worker, history>>

(* RETR and the binary READ take the head without a wait: the semaphore    *)
(* keeps its count.  READ locks m_mutexClientInputQueue, which it holds    *)
(* already; where the second Lock is refused it goes on as RETR does ...   *)
Retrieve(c) ==
  /\ c \in Text \/ (c \in Binary /\ ~RelockBlocks)
  /\ pc[c] = "idle"
  /\ inQueue[c] # <<>>
  /\ inQueue' = [inQueue EXCEPT ![c] = Tail(@)]
  /\ UNCHANGED <<outQueue, outSem, inSem, filter, members, mutex, pc, pending,
                 num, worker, history>>

(* ... and where it blocks, the thread hangs with the mutex in its hands.  *)
ReadHangs(c) ==
  /\ c \in Binary
  /\ RelockBlocks
  /\ pc[c] = "idle"
  /\ inQueue[c] # <<>>
  /\ Goto(c, "stuck")
  /\ UNCHANGED <<queues, filter, members, mutex, pending, num, worker, history>>

(* CLRA.                                                                   *)
ClearInputQueue(c) ==
  /\ c \in Text
  /\ pc[c] = "idle"
  /\ inQueue' = [inQueue EXCEPT ![c] = <<>>]
  /\ UNCHANGED <<outQueue, outSem, inSem, filter, members, mutex, pc, pending,
                 num, worker, history>>

(* deviceWriteThread: the head is removed once the driver has sent it.     *)
DeviceSent(c) ==
  /\ c \in Devices \cap members
  /\ inSem[c] > 0
  /\ inSem' = [inSem EXCEPT ![c] = @ - 1]
  /\ inQueue' = IF inQueue[c] = <<>> THEN inQueue
                ELSE [inQueue EXCEPT ![c] = Tail(@)]
  /\ UNCHANGED <<outQueue, outSem, filter, members, mutex, pc, pending, num,
                 worker, history>>

(* When the driver refuses it the head stays, and the code posts the       *)
(* semaphore of the output queue.                                          *)
DeviceSendFails(c) ==
  /\ c \in Devices \cap members
  /\ inSem[c] > 0
  /\ inQueue[c] # <<>>
  /\ inSem' = [inSem EXCEPT ![c] = @ - 1]
  /\ outSem' = outSem + 1
  /\ UNCHANGED <<outQueue, inQueue, filter, members, mutex, pc, pending, num,
                 worker, history>>

-----------------------------------------------------------------------------
Producer(c) ==
  \/ \E e \in Event : SubmitText(c, e) \/ SubmitMarked(c, e) \/ SubmitUnmarked(c, e)
  \/ DirectMiss(c) \/ DirectFull(c) \/ DirectFound(c) \/ DirectPut(c)
  \/ CheckRoom(c) \/ DropFull(c) \/ AppendOut(c)

Consumer(c) ==
  \/ EnterLoop(c) \/ WaitAndTake(c) \/ Retrieve(c) \/ ReadHangs(c)
  \/ ClearInputQueue(c)
  \/ DeviceSent(c) \/ DeviceSendFails(c)

Session(c) ==
  \/ Join(c) \/ Leave(c) \/ SetFilter(c) \/ ListBegin(c) \/ ListEnd(c)

WorkerStep ==
  \/ WorkerTake \/ WorkerLock \/ WorkerPut \/ WorkerUnlock
  \/ \E c \in Clients : WorkerVisit(c)

Next ==
  \/ WorkerStep
  \/ \E c \in Clients : Producer(c) \/ Consumer(c) \/ Session(c)

(* Every thread the daemon starts keeps running, a socket write ends, and  *)
(* m_wxClientMutex is not withheld for ever from a thread that asks again  *)
(* and again.  Whether a session ever submits, reads or leaves is its own  *)
(* affair, but a driver's write thread does serve its queue.               *)
Fairness ==
  /\ WF_vars(WorkerTake)
  /\ SF_vars(WorkerLock)
  /\ \A c \in Clients :
       /\ WF_vars(WorkerVisit(c))
       /\ SF_vars(DirectMiss(c) \/ DirectFull(c) \/ DirectFound(c))
       /\ WF_vars(DirectPut(c))
       /\ WF_vars(CheckRoom(c) \/ DropFull(c))
       /\ WF_vars(AppendOut(c))
       /\ WF_vars(ListEnd(c))
  /\ WF_vars(WorkerPut)
  /\ WF_vars(WorkerUnlock)
  /\ \A c \in Devices : WF_vars(DeviceSent(c) \/ DeviceSendFails(c))

Spec == Init /\ [][Next]_vars
FairSpec == Spec /\ Fairness

-----------------------------------------------------------------------------
(* Properties.                                                             *)

PcStates ==
  {"new", "idle", "list", "lookup", "put", "check", "append", "loop", "stuck", "gone"}

(* Every variable stays in its type: m_clientOutputQueue and the input     *)
(* queues hold events, the semaphores count, the locks have one owner.     *)
TypeOK ==
  /\ outQueue \in Seq(Event)
  /\ outSem \in Nat
  /\ inQueue \in [Clients -> Seq(Event)]
  /\ inSem \in [Clients -> Nat]
  /\ filter \in [Clients -> SUBSET Kinds]
  /\ members \subseteq Clients
  /\ mutex \in Clients \cup {Worker, None}
  /\ pc \in [Clients -> PcStates]
  /\ pending \in [Clients -> Event \cup {None}]
  /\ num \in [Clients -> 0..MaxSend]
  /\ current \in Event \cup {None}
  /\ todo \subseteq Clients
  /\ target \in Clients \cup {None}
  /\ log \in [Clients -> Seq(Event)]
  /\ direct \subseteq Event

(* "There must be room in the send queue" stands at every producer's test. *)
(* The test is made without the queue's mutex, so the queue may grow past  *)
(* its limit, but by no more than one event for each producer beyond the   *)
(* first: those that have passed the test count as if they had appended.   *)
Committed == {c \in Clients : pc[c] = "append"}
OutQueueBound ==
  Len(outQueue) + Cardinality(Committed) < MaxItems + Cardinality(Clients)

(* sendEventToClient and the direct delivery of handleClientSend both test *)
(* an input queue before they append; because both do so inside            *)
(* m_wxClientMutex no queue ever holds more than MaxItems + 1 events.      *)
InQueueBound == \A c \in Clients : Len(inQueue[c]) <= MaxItems + 1

(* No wakeup is lost: the worker's semaphore and that of every session but *)
(* a driver's count at least the events waiting, so a queued event is      *)
(* never left behind by a reader that sleeps on its semaphore.             *)
NoLostWakeup ==
  /\ Len(outQueue) <= outSem
  /\ \A c \in Clients \ Devices : Len(inQueue[c]) <= inSem[c]

(* removeClient frees the CClientItem.  The worker never holds on to one   *)
(* that has left, nor does a sender that found its addressee.              *)
NoUseAfterRemove ==
  /\ mutex = Worker => todo \cup ({target} \ {None}) \subseteq members
  /\ target # None => mutex = Worker
  /\ \A c \in Clients : pc[c] = "put" => pending[c].dest \in members

(* "so this client dont get the message back": a broadcast event never     *)
(* comes back to its sender, for the senders that set obid.                *)
NoEchoFrom(S) ==
  \A c \in S : \A i \in DOMAIN log[c] : log[c][i].src # c
NoEcho == NoEchoFrom(Clients \ (Binary \cup Matrix))

(* Whatever the interleaving, one session's broadcast events reach every   *)
(* other session in the order they were submitted, and none of them twice. *)
PerSenderOrder ==
  \A c \in Clients : \A i, j \in DOMAIN log[c] :
    i < j /\ log[c][i].src = log[c][j].src => log[c][i].num < log[c][j].num

(* An event given straight to its addressee is not also broadcast.         *)
AddressedOnce ==
  \A e \in direct :
    /\ e # current
    /\ \A i \in DOMAIN outQueue : outQueue[i] # e
    /\ \A c \in Clients : \A i \in DOMAIN log[c] : log[c][i] # e

(* Every accepted event is distributed: it does not stay in the output     *)
(* queue, and the worker's round over the sessions ends.                   *)
EventuallyRouted ==
  /\ \A e \in Event :
       (\E i \in DOMAIN outQueue : outQueue[i] = e) ~> (current = e)
  /\ (current # None) ~> (current = None)

(* A session that asks for m_wxClientMutex to deliver an event itself, or  *)
(* that found room in the output queue, gets done with the event.          *)
SubmitCompletes ==
  \A c \in Clients : (pending[c] # None) ~> (pending[c] = None)

(* The router implements the abstract bus: the event the worker holds is   *)
(* still the oldest on the bus, and it has considered the members it has   *)
(* taken off its list and is not about to append to.                       *)
OnBus == (IF current = None THEN <<>> ELSE <<current>>) \o outQueue
Considered == IF mutex = Worker THEN members \ (todo \cup {target}) ELSE {}

Bus == INSTANCE EventBus WITH bus <- OnBus, seen <- Considered, mailbox <- inQueue

BusSpec == Bus!Spec

-----------------------------------------------------------------------------
(* What comments in the code say and the code does not do.                 *)

(* "so this client dont get the message back", for binary frames too.      *)
NoEchoBinary == NoEchoFrom(Binary)

(* "Give it another try": a driver's queue that is not empty is served     *)
(* again, whether or not the driver refused the event before.              *)
DeviceRetries ==
  \A c \in Devices : (inQueue[c] # <<>>) ~>
    (c \notin members \/ inSem[c] > 0 \/ inQueue[c] = <<>>)
=============================================================================

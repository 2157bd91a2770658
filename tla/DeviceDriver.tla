---------------------------- MODULE DeviceDriver ----------------------------
(***************************************************************************)
(* One driver of the daemon, from the start of its deviceThread to its     *)
(* end: the session it opens on the client list, the threads that feed the *)
(* driver from the session's input queue and read from it, and the stop.   *)
(*                                                                         *)
(* The thread that sends is deviceWriteThread for a blocking driver and    *)
(* deviceThread itself for a polled one; here it is "sender" for both.  It *)
(* shares the input queue with clientMsgWorkerThread ("worker"), which     *)
(* appends under m_mutexClientInputQueue while it holds m_wxClientMutex.   *)
(* The sender takes that mutex to look at the head, but not to delete it,  *)
(* so an append and a deletion are each two steps here.                    *)
(***************************************************************************)
EXTENDS Naturals, Sequences, SequencesExt

CONSTANTS
  Events,     \* the events the worker has for this driver
  Modes,      \* the kinds of driver there are
  MaxItems,   \* m_maxItemsInClientReceiveQueue
  None        \* no event

(* A Level I driver with CanalBlockingReceive, with or without             *)
(* CanalBlockingSend; one without either, which is polled; a Level II one. *)
AllModes == {"blocking", "deaf", "polled", "level2"}

ASSUME DriverAssumption ==
  /\ Modes \subseteq AllModes
  /\ MaxItems \in Nat \ {0}
  /\ None \notin Events

VARIABLES
  mode,       \* the kind of this driver
  main,       \* where deviceThread is
  sender,     \* where the sending thread is
  reader,     \* where deviceReceiveThread is
  quit,       \* m_bQuit of the device item
  stop,       \* m_bQuit of the write and the receive thread
  open,       \* the driver is open
  member,     \* the session is in m_clientList
  queue,      \* m_clientInputQueue
  sem,        \* value of m_semClientInputQueue
  held,       \* the event the sender is busy with
  worker,     \* where the worker is in sendEventToClient
  load,       \* the event the worker is delivering
  accepted,   \* history: events appended to the queue, in order
  served,     \* history: events the driver took, in order
  dropped,    \* history: events the driver refused and that were deleted
  raced       \* history: an append and a deletion overlapped

threads == <<main, sender, reader>>
flags   == <<mode, quit, stop, open>>
list    == <<queue, sem>>
history == <<accepted, served, dropped, raced>>
vars == <<threads, flags, member, list, held, worker, load, history>>

Init ==
  /\ mode \in Modes
  /\ main = "new"
  /\ sender = "off"
  /\ reader = "off"
  /\ quit = FALSE
  /\ stop = FALSE
  /\ open = FALSE
  /\ member = FALSE
  /\ queue = <<>>
  /\ sem = 0
  /\ held = None
  /\ worker = "idle"
  /\ load = None
  /\ accepted = <<>>
  /\ served = <<>>
  /\ dropped = <<>>
  /\ raced = FALSE

-----------------------------------------------------------------------------
(* deviceThread.                                                           *)

(* addClient, under m_wxClientMutex.                                       *)
Attach ==
  /\ main = "new"
  /\ worker = "idle"
  /\ member' = TRUE
  /\ main' = "load"
  /\ UNCHANGED <<sender, reader, flags, list, held, worker, load, history>>

(* The library or one of its methods is missing, or the driver does not    *)
(* open: the thread returns, and its session stays in the list.            *)
LoadFails ==
  /\ main = "load"
  /\ main' = "failed"
  /\ UNCHANGED <<sender, reader, flags, member, list, held, worker, load, history>>

(* The driver opens; a Level II driver reads and sends by itself.  The     *)
(* write thread of a driver that cannot send returns at once.              *)
Run ==
  /\ main = "load"
  /\ open' = TRUE
  /\ main' = IF mode = "level2" THEN "sleep" ELSE "serve"
  /\ sender' = IF mode \in {"blocking", "polled"} THEN "loop" ELSE "ended"
  /\ reader' = IF mode \in {"blocking", "deaf"} THEN "loop" ELSE "ended"
  /\ UNCHANGED <<mode, quit, stop, member, list, held, worker, load, history>>

(* stopDeviceWorkerThreads sets m_bQuit and then waits for deviceThread.   *)
Quit ==
  /\ ~quit
  /\ quit' = TRUE
  /\ UNCHANGED <<mode, stop, open, threads, member, list, held, worker, load, history>>

(* Mutant: the threads are not told to stop.                               *)
StopThreadsQuietly ==
  /\ main = "serve"
  /\ mode # "polled"
  /\ quit
  /\ main' = "join"
  /\ UNCHANGED <<flags, sender, reader, member, list, held, worker, load, history>>

StopThreads ==
  /\ main = "serve"
  /\ mode # "polled"
  /\ quit
  /\ stop' = TRUE
  /\ main' = "join"
  /\ UNCHANGED <<mode, quit, open, sender, reader, member, list, held, worker,
                 load, history>>

(* Mutant: nobody waits for the threads.                                   *)
JoinNothing ==
  /\ main = "join"
  /\ main' = "close"
  /\ UNCHANGED <<flags, sender, reader, member, list, held, worker, load, history>>

JoinThreads ==
  /\ main = "join"
  /\ sender = "ended" /\ reader = "ended"
  /\ main' = "close"
  /\ UNCHANGED <<flags, sender, reader, member, list, held, worker, load, history>>

(* CanalClose, after the threads are joined or the polling loop has ended. *)
Close ==
  /\ main = "close" \/ (main = "serve" /\ mode = "polled" /\ sender = "ended")
  /\ open' = FALSE
  /\ main' = "remove"
  /\ UNCHANGED <<mode, quit, stop, sender, reader, member, list, held, worker,
                 load, history>>

(* removeClient, under m_wxClientMutex, frees the item and its queue.      *)
RemoveClient ==
  /\ main = "remove"
  /\ worker = "idle"
  /\ member' = FALSE
  /\ queue' = <<>>
  /\ sem' = 0
  /\ main' = "ended"
  /\ UNCHANGED <<flags, sender, reader, held, worker, load, history>>

(* The thread of a Level II driver neither closes it nor leaves the list.  *)
WakeLevel2 ==
  /\ main = "sleep"
  /\ quit
  /\ main' = "ended"
  /\ UNCHANGED <<flags, sender, reader, member, list, held, worker, load, history>>

-----------------------------------------------------------------------------
(* The sender.                                                             *)

SenderLoop ==
  /\ sender = "loop"
  /\ sender' = IF (IF mode = "polled" THEN quit ELSE stop) THEN "ended"
              ELSE IF mode = "polled" THEN "count" ELSE "wait"
  /\ UNCHANGED <<main, reader, flags, member, list, held, worker, load, history>>

(* Mutant: the result of the wait is not looked at.                        *)
SenderWakeUnposted ==
  /\ sender = "wait"
  /\ sem' = sem - 1
  /\ sender' = "count"
  /\ UNCHANGED <<main, reader, flags, member, queue, held, worker, load, history>>

SenderWake ==
  /\ sender = "wait"
  /\ sem > 0
  /\ sem' = sem - 1
  /\ sender' = "count"
  /\ UNCHANGED <<main, reader, flags, member, queue, held, worker, load, history>>

(* The wait of 500 ms ends without a post.                                 *)
SenderTimeout ==
  /\ sender = "wait"
  /\ sem = 0
  /\ sender' = "loop"
  /\ UNCHANGED <<main, reader, flags, member, list, held, worker, load, history>>

(* GetCount, without the mutex.                                            *)
SenderCount ==
  /\ sender = "count"
  /\ sender' = IF queue = <<>> THEN "loop" ELSE "peek"
  /\ UNCHANGED <<main, reader, flags, member, list, held, worker, load, history>>

(* Mutant: the last event is taken.                                        *)
SenderPeekLast ==
  /\ sender = "peek"
  /\ worker # "append"
  /\ held' = Last(queue)
  /\ sender' = "send"
  /\ UNCHANGED <<main, reader, flags, member, list, worker, load, history>>

(* The head of the queue, under the mutex.                                 *)
SenderPeek ==
  /\ sender = "peek"
  /\ worker # "append"
  /\ held' = Head(queue)
  /\ sender' = "send"
  /\ UNCHANGED <<main, reader, flags, member, list, worker, load, history>>

SendSucceeds ==
  /\ sender = "send"
  /\ served' = Append(served, held)
  /\ sender' = "delete"
  /\ UNCHANGED <<main, reader, flags, member, list, held, worker, load, accepted,
                 dropped, raced>>

(* Mutant: an event that is refused is deleted without a trace.            *)
SendFailsSilently ==
  /\ sender = "send"
  /\ sender' = "delete"
  /\ UNCHANGED <<main, reader, flags, member, list, held, worker, load, history>>

(* Refused: a polled driver loses the event, a blocking one keeps it.      *)
SendFails ==
  /\ sender = "send"
  /\ IF mode = "polled"
       THEN sender' = "delete" /\ dropped' = Append(dropped, held) /\ UNCHANGED held
       ELSE sender' = "loop" /\ held' = None /\ UNCHANGED dropped
  /\ UNCHANGED <<main, reader, flags, member, list, worker, load, accepted, served,
                 raced>>

(* DeleteNode, without the mutex.                                          *)
DeleteBegin ==
  /\ sender = "delete"
  /\ sender' = "deleting"
  /\ raced' = (raced \/ worker = "append")
  /\ UNCHANGED <<main, reader, flags, member, list, held, worker, load, accepted,
                 served, dropped>>

DeleteEnd ==
  /\ sender = "deleting"
  /\ queue' = Tail(queue)
  /\ held' = None
  /\ sender' = "loop"
  /\ UNCHANGED <<main, reader, flags, member, sem, worker, load, history>>

-----------------------------------------------------------------------------
(* deviceReceiveThread: CanalBlockingReceive returns within 500 ms; what   *)
(* it does with a frame is Submit of EventRouter.                          *)
ReaderLoop ==
  /\ reader = "loop"
  /\ reader' = IF stop THEN "ended" ELSE "receive"
  /\ UNCHANGED <<main, sender, flags, member, list, held, worker, load, history>>

ReaderReceived ==
  /\ reader = "receive"
  /\ reader' = "loop"
  /\ UNCHANGED <<main, sender, flags, member, list, held, worker, load, history>>

-----------------------------------------------------------------------------
(* clientMsgWorkerThread in sendEventToClient.                             *)

Deliver(e) ==
  /\ worker = "idle"
  /\ member
  /\ e \notin ToSet(accepted)
  /\ Len(queue) <= MaxItems
  /\ worker' = "room"
  /\ load' = e
  /\ UNCHANGED <<threads, flags, member, list, held, history>>

AppendBegin ==
  /\ worker = "room"
  /\ worker' = "append"
  /\ raced' = (raced \/ sender = "deleting")
  /\ UNCHANGED <<threads, flags, member, list, held, load, accepted, served, dropped>>

(* Where an append and a deletion overlap, the list may lose the event.    *)
AppendEnd ==
  /\ worker = "append"
  /\ \/ queue' = Append(queue, load)
     \/ raced /\ UNCHANGED queue
  /\ sem' = sem + 1
  /\ accepted' = Append(accepted, load)
  /\ worker' = "idle"
  /\ load' = None
  /\ UNCHANGED <<threads, flags, member, held, served, dropped, raced>>

-----------------------------------------------------------------------------
Main ==
  \/ Attach \/ LoadFails \/ Run \/ StopThreads \/ JoinThreads \/ Close
  \/ RemoveClient \/ WakeLevel2
Sender ==
  \/ SenderLoop \/ SenderWake \/ SenderTimeout \/ SenderCount \/ SenderPeek
  \/ SendSucceeds \/ SendFails \/ DeleteBegin \/ DeleteEnd
Reader == ReaderLoop \/ ReaderReceived
Worker == (\E e \in Events : Deliver(e)) \/ AppendBegin \/ AppendEnd

Next == Main \/ Sender \/ Reader \/ Worker \/ Quit

(* Every thread runs; the driver's calls return, and its blocking calls do *)
(* so within their time.  Nobody has to stop the driver.                   *)
Fairness ==
  /\ WF_vars(Main)
  /\ WF_vars(Sender)
  /\ WF_vars(Reader)
  /\ WF_vars(AppendBegin \/ AppendEnd)
  /\ SF_vars(RemoveClient)

Spec == Init /\ [][Next]_vars
FairSpec == Spec /\ Fairness

-----------------------------------------------------------------------------
(* Properties.                                                             *)

(* The threads are where their code can be, and the queue holds events.    *)
TypeOK ==
  /\ mode \in Modes
  /\ main \in {"new", "load", "failed", "serve", "sleep", "join", "close", "remove",
             "ended"}
  /\ sender \in {"off", "loop", "wait", "count", "peek", "send", "delete",
                 "deleting", "ended"}
  /\ reader \in {"off", "loop", "receive", "ended"}
  /\ {quit, stop, open, member, raced} \subseteq BOOLEAN
  /\ queue \in Seq(Events)
  /\ sem \in Nat
  /\ held \in Events \cup {None}
  /\ worker \in {"idle", "room", "append"}
  /\ load \in Events \cup {None}
  /\ {accepted, served, dropped} \subseteq Seq(Events)

(* The sender gives up the mutex between looking at the head and deleting  *)
(* it.  The event it hands to the driver is nevertheless still the head of *)
(* the queue: nobody else removes one, and the session is not freed while  *)
(* the sender runs.                                                        *)
HeldIsHead ==
  sender \in {"send", "delete", "deleting"} =>
    member /\ queue # <<>> /\ (raced \/ Head(queue) = held)

(* The driver gets the events in the order in which they were queued, each *)
(* once, and skips only those it refused: at[k] is where the k-th event it *)
(* got was queued.                                                         *)
Gone == ToSet(served) \cup ToSet(dropped)
ServedFrom(at) ==
  /\ \A k \in DOMAIN served : served[k] = accepted[at[k]] /\ served[k] \notin ToSet(dropped)
  /\ \A k, l \in DOMAIN served : k < l => at[k] < at[l]
  /\ \A k \in DOMAIN served : \A i \in 1..at[k] : accepted[i] \in Gone
ServedInOrder == ~raced => \E at \in [DOMAIN served -> DOMAIN accepted] : ServedFrom(at)

(* An accepted event is sent, or refused, or still waiting.                *)
NothingVanishes ==
  ~raced /\ member =>
    ToSet(accepted) \subseteq ToSet(served) \cup ToSet(dropped) \cup ToSet(queue)

(* No thread calls a driver that has been closed.                          *)
NoCallAfterClose == sender = "send" \/ reader = "receive" => open

(* stopDeviceWorkerThreads returns: a driver told to stop does.            *)
ShutdownCompletes == quit ~> main \in {"ended", "failed"}

-----------------------------------------------------------------------------
(* What comments in the code say and the code does not do.                 *)

(* "Mutex handle that is used for sharing of the client object": the queue *)
(* is never changed by two threads at once.                                *)
ListUnshared == ~(worker = "append" /\ sender = "deleting")
=============================================================================

------------------------------ MODULE SocketCan ------------------------------
(***************************************************************************)
(* The SocketCAN driver under a device thread that polls it.  open starts  *)
(* a worker that in every turn takes one frame from the CAN socket into    *)
(* one list and writes one from the other, each under the mutex; CanalSend *)
(* and CanalReceive put in and take out at the other ends.  Events are     *)
(* turned into CAN identifiers of 29 bits and back.                        *)
(*                                                                         *)
(* open and close unlock the mutex whoever holds it.  From then on both    *)
(* threads may be at the lists at once, and may tear them.                 *)
(***************************************************************************)
EXTENDS Integers, Sequences

CONSTANTS
  Frames,      \* what the CAN bus brings
  Events,      \* what is in the queue of the device
  Junk,        \* the data of a frame nothing was read into yet
  MaxList,     \* SOCKETCAN_MAX_RCVMSG and SOCKETCAN_MAX_SNDMSG
  MaxFrames,   \* bound: frames the bus brings
  MaxWrites,   \* bound: events the device thread sends
  MaxErrors    \* bound: times that select or read fails

(* Level I events, and those of class 512 that are meant for a node.  The  *)
(* driver is sent others too: then the class runs into the hard-coded bit  *)
(* and the priority.                                                       *)
ASSUME EventsAssumption ==
  \A e \in Events : /\ e.class \in 0..511 \/ (e.class = 512 /\ e.size >= 16)
                    /\ e.head \in 0..255 /\ e.type \in 0..255 /\ e.node \in 0..255

(* The identifier of a frame is what the socket gives, its length apart.   *)
ASSUME FramesAssumption == \A f \in Frames : f.id \in Nat /\ f.ext \in BOOLEAN
ASSUME BoundsAssumption ==
  MaxList \in Nat /\ MaxFrames \in Nat /\ MaxWrites \in Nat /\ MaxErrors \in Nat

EFF_MASK == 2^29
SFF_MASK == 2^11

VARIABLES
  dev,       \* the device thread: the call it is in and how far it is
  worker,    \* workThread
  m_bRun,
  mutex,     \* m_socketcanObjMutex is locked
  m_rcvList, m_sndList,
  leftover,  \* the data in the worker's frame
  errors,    \* bound: failures so far
  torn,      \* history: both threads were at the lists at once
  arrived,   \* history: messages put in m_rcvList
  got,       \* history: events made of what CanalReceive gave
  written,   \* history: events that CanalSend took
  wire       \* history: frames written to the socket

lists == <<m_rcvList, m_sndList, leftover>>
history == <<errors, torn, arrived, got, written, wire>>
vars == <<dev, worker, m_bRun, mutex, lists, history>>

Init ==
  /\ dev = [call |-> "open", at |-> "start"]
  /\ worker = "none" /\ m_bRun = FALSE /\ mutex = FALSE
  /\ m_rcvList = <<>> /\ m_sndList = <<>> /\ leftover = Junk
  /\ errors = 0 /\ torn = FALSE
  /\ arrived = <<>> /\ got = <<>> /\ written = <<>> /\ wire = <<>>

-----------------------------------------------------------------------------
(* The lists are made with SORT_NONE: a node goes to the tail, and only    *)
(* the head is ever removed.                                               *)

dll_addNodeTail(list, msg) == Append(list, msg)
dll_addNode(list, msg) == dll_addNodeTail(list, msg)
dll_removeNode(list) == Tail(list)

-----------------------------------------------------------------------------
(* CAN identifiers: three bits of priority, the hard-coded bit, nine of    *)
(* the class, eight of the type, eight of the nickname.                    *)

getVSCPheadFromCANid(id) == ((id \div 2^25) % 16) * 16
getVSCPclassFromCANid(id) == (id \div 2^16) % 512
getVSCPtypeFromCANid(id) == (id \div 2^8) % 256
getVSCPnicknameFromCANid(id) == id % 256

(* The head from the identifier has the hard-coded bit already.            *)
convertCanalToEvent(msg) ==
  [head |-> getVSCPheadFromCANid(msg.id),
   class |-> getVSCPclassFromCANid(msg.id), type |-> getVSCPtypeFromCANid(msg.id),
   node |-> getVSCPnicknameFromCANid(msg.id), data |-> msg.data]

(* An event of class 512 with sixteen bytes or more is meant for a node.   *)
Addressed(e) == e.class = 512 /\ e.size >= 16

(* Mutant: the hard-coded bit of the head is left out.                     *)
convertEventToCanalSoft(e) ==
  [id |-> (e.head \div 32) * 2^26 + (IF Addressed(e) THEN 0 ELSE e.class * 2^16)
          + e.type * 2^8 + (IF Addressed(e) THEN e.node ELSE 0),
   ext |-> TRUE, data |-> e.data]

(* The fields do not overlap, so that | is a sum: see EventsAssumption.    *)
convertEventToCanal(e) ==
  [id |-> (e.head \div 32) * 2^26 + (IF Addressed(e) THEN 0 ELSE e.class * 2^16)
          + e.type * 2^8 + (IF Addressed(e) THEN e.node ELSE 0)
          + (IF (e.head \div 16) % 2 = 1 THEN 2^25 ELSE 0),
   ext |-> TRUE, data |-> e.data]

(* What the worker makes of a frame, and of a message.                     *)
MessageOf(frame) ==
  [id |-> frame.id % (IF frame.ext THEN EFF_MASK ELSE SFF_MASK), ext |-> frame.ext,
   data |-> frame.data]
FrameOf(msg) == [id |-> msg.id, ext |-> msg.ext, data |-> leftover]

-----------------------------------------------------------------------------
(* The device thread: open, then turns of dataAvailable, readMsg when      *)
(* there is something, writeMsg when an event waits, then close.           *)

At(call, at) == dev.call = call /\ dev.at = at
To(call, at) == dev' = [call |-> call, at |-> at]

(* open: the worker runs before the mutex is unlocked.                     *)
Open ==
  /\ At("open", "start") /\ To("open", "unlock")
  /\ m_bRun' = TRUE /\ worker' = "start"
  /\ UNCHANGED <<mutex, lists, history>>

OpenUnlock ==
  /\ At("open", "unlock") /\ To("count", "lock") /\ mutex' = FALSE
  /\ UNCHANGED <<worker, m_bRun, lists, history>>

Lock ==
  /\ dev.at = "lock" /\ dev.call # "close" /\ ~mutex /\ mutex' = TRUE
  /\ To(dev.call, "inside")
  /\ UNCHANGED <<worker, m_bRun, lists, history>>

(* What either may do to the other when both are inside.                   *)
Tear(other) == torn' \in IF other THEN {torn, TRUE} ELSE {torn}
AtWork == worker \in {"receive", "transmit"}

(* readMsg has looked at the head of the list before it took the mutex.    *)
dataAvailable ==
  /\ At("count", "inside")
  /\ To(IF m_rcvList = <<>> THEN "turn" ELSE "read", "unlock")
  /\ Tear(AtWork)
  /\ UNCHANGED <<worker, m_bRun, mutex, lists, errors, arrived, got, written, wire>>

readMsg ==
  /\ At("read", "inside") /\ To("turn", "unlock")
  /\ m_rcvList # <<>>
  /\ got' = Append(got, convertCanalToEvent(Head(m_rcvList)))
  /\ m_rcvList' = dll_removeNode(m_rcvList)
  /\ Tear(AtWork)
  /\ UNCHANGED <<worker, m_bRun, mutex, m_sndList, leftover, errors, arrived, written, wire>>

Unlock ==
  /\ dev.at = "unlock" /\ dev.call # "open" /\ mutex' = FALSE
  /\ To(dev.call, IF dev.call = "turn" THEN "start" ELSE "lock")
  /\ UNCHANGED <<worker, m_bRun, lists, history>>

(* Mutant: the list may be full.                                           *)
TurnAnyway ==
  /\ At("turn", "start")
  /\ \/ To("count", "lock")
     \/ Len(written) < MaxWrites /\ To("write", "lock")
  /\ UNCHANGED <<worker, m_bRun, mutex, lists, history>>

(* After the read an event is taken from the queue, when there is one.  It *)
(* is thrown away when m_sndList, looked at before the mutex, has no room. *)
Turn ==
  /\ At("turn", "start")
  /\ \/ To("count", "lock")
     \/ /\ Len(written) < MaxWrites /\ Len(m_sndList) < MaxList
        /\ To("write", "lock")
  /\ UNCHANGED <<worker, m_bRun, mutex, lists, history>>

writeMsg ==
  /\ At("write", "inside") /\ To("count", "unlock")
  /\ \E e \in Events : /\ m_sndList' = dll_addNode(m_sndList, convertEventToCanal(e))
                       /\ written' = Append(written, e)
  /\ Tear(AtWork)
  /\ UNCHANGED <<worker, m_bRun, mutex, m_rcvList, leftover, errors, arrived, got, wire>>

(* Mutant: the worker is not told to stop.                                 *)
CloseQuietly ==
  /\ At("count", "lock") /\ To("close", "lock") /\ mutex' = FALSE
  /\ UNCHANGED <<worker, m_bRun, lists, history>>

(* At the top of its loop the device thread finds that it is to quit.      *)
(* close unlocks the mutex, locks it and joins the worker.                 *)
Close ==
  /\ At("count", "lock") /\ To("close", "lock")
  /\ m_bRun' = FALSE /\ mutex' = FALSE
  /\ UNCHANGED <<worker, lists, history>>

CloseLock ==
  /\ At("close", "lock") /\ ~mutex /\ mutex' = TRUE /\ To("close", "join")
  /\ UNCHANGED <<worker, m_bRun, lists, history>>

CloseJoin ==
  /\ At("close", "join") /\ worker = "gone" /\ To("close", "done")
  /\ UNCHANGED <<worker, m_bRun, mutex, lists, history>>

Device == \/ Open \/ OpenUnlock \/ Lock \/ dataAvailable \/ readMsg \/ Unlock \/ Turn
          \/ writeMsg \/ CloseLock \/ CloseJoin

-----------------------------------------------------------------------------
(* The worker.                                                             *)

Calm == UNCHANGED <<dev, got, written>>
Step(from, to) == worker = from /\ worker' = to

(* The socket is made and bound, or the worker is gone with m_bRun up.     *)
Begin ==
  /\ worker = "start" /\ worker' \in {"test", "gone"}
  /\ UNCHANGED <<m_bRun, mutex, lists, errors, torn, arrived, wire>> /\ Calm

Test ==
  /\ Step("test", IF m_bRun THEN "lock1" ELSE "gone")
  /\ UNCHANGED <<m_bRun, mutex, lists, errors, torn, arrived, wire>> /\ Calm

(* m_bRun is looked at once more under the mutex; the way out keeps it.    *)
LockReceive ==
  /\ Step("lock1", IF m_bRun THEN "receive" ELSE "test") /\ ~mutex /\ mutex' = TRUE
  /\ UNCHANGED <<m_bRun, lists, errors, torn, arrived, wire>> /\ Calm

(* select and read fail: m_bRun is raised, and the mutex stays locked.     *)
SelectFails ==
  /\ errors < MaxErrors /\ errors' = errors + 1
  /\ Step("receive", "test") /\ m_bRun' = TRUE
  /\ UNCHANGED <<mutex, lists, torn, arrived, wire>> /\ Calm

(* Nothing within 5 ms, or a frame: in the list if there is room.          *)
Receive ==
  /\ Step("receive", "unlock1")
  /\ \/ UNCHANGED <<m_rcvList, leftover, arrived>>
     \/ /\ Len(arrived) < MaxFrames
        /\ \E f \in Frames :
             /\ leftover' = f.data
             /\ \/ /\ Len(m_rcvList) < MaxList
                   /\ m_rcvList' = dll_addNode(m_rcvList, MessageOf(f))
                   /\ arrived' = Append(arrived, MessageOf(f))
                \/ Len(m_rcvList) >= MaxList /\ UNCHANGED <<m_rcvList, arrived>>
  /\ Tear(dev.at = "inside")
  /\ UNCHANGED <<m_bRun, mutex, m_sndList, errors, wire>> /\ Calm

UnlockReceive ==
  /\ Step("unlock1", "lock2") /\ mutex' = FALSE
  /\ UNCHANGED <<m_bRun, lists, errors, torn, arrived, wire>> /\ Calm

LockTransmit ==
  /\ Step("lock2", "transmit") /\ ~mutex /\ mutex' = TRUE
  /\ UNCHANGED <<m_bRun, lists, errors, torn, arrived, wire>> /\ Calm

(* The head of the list is written to the socket.                          *)
Transmit ==
  /\ Step("transmit", "unlock2")
  /\ IF m_sndList = <<>> THEN UNCHANGED <<m_sndList, wire>>
     ELSE m_sndList' = dll_removeNode(m_sndList) /\ wire' = Append(wire, FrameOf(Head(m_sndList)))
  /\ Tear(dev.at = "inside")
  /\ UNCHANGED <<m_bRun, mutex, m_rcvList, leftover, errors, arrived>> /\ Calm

UnlockTransmit ==
  /\ Step("unlock2", "test") /\ mutex' = FALSE
  /\ UNCHANGED <<m_bRun, lists, errors, torn, arrived, wire>> /\ Calm

workThread == \/ Begin \/ Test \/ LockReceive \/ Receive \/ UnlockReceive
              \/ LockTransmit \/ Transmit \/ UnlockTransmit

-----------------------------------------------------------------------------
Next == Device \/ Close \/ workThread \/ SelectFails

Spec == Init /\ [][Next]_vars

(* Both threads go on when they can; nothing makes the daemon close the    *)
(* device, nor select fail.                                                *)
FairSpec == Spec /\ WF_vars(Device) /\ WF_vars(workThread)

-----------------------------------------------------------------------------
(* The states are of their types and the lists within their size.          *)
Message(m) == /\ DOMAIN m = {"id", "ext", "data"} /\ m.id \in 0..(EFF_MASK - 1)
              /\ m.ext \in BOOLEAN
TypeOK ==
  /\ dev \in [call: {"open", "count", "read", "turn", "write", "close"},
              at: {"start", "unlock", "lock", "inside", "join", "done"}]
  /\ worker \in {"none", "start", "test", "lock1", "receive", "unlock1", "lock2", "transmit",
                 "unlock2", "gone"}
  /\ m_bRun \in BOOLEAN /\ mutex \in BOOLEAN /\ torn \in BOOLEAN
  /\ \A list \in {m_rcvList, m_sndList} :
       Len(list) <= MaxList /\ \A i \in DOMAIN list : Message(list[i])
  /\ leftover \in {Junk} \cup {f.data : f \in Frames} /\ errors \in 0..MaxErrors

(* What an event says, and what an identifier says of it.                  *)
Said(e) == <<e.head \div 32, (e.head \div 16) % 2, e.class, e.type, e.node>>
Meant(e) == <<e.head \div 32, (e.head \div 16) % 2, IF Addressed(e) THEN 0 ELSE e.class,
              e.type, IF Addressed(e) THEN e.node ELSE 0>>
Fields(id) == <<id \div 2^26, (id \div 2^25) % 2, (id \div 2^16) % 2^9, (id \div 2^8) % 2^8,
                id % 2^8>>

(* As long as the lists are whole: every message that found room comes     *)
(* out once and in order as an event that says what the identifier says,   *)
(* with its data; and what is written to the socket are the events sent,   *)
(* once and in order, priority, hard-coded bit, class, type and node       *)
(* unmixed.  (Their data is that of the frame received before.)            *)
FramesKept ==
  ~torn =>
    /\ Len(arrived) = Len(got) + Len(m_rcvList)
    /\ \A i \in DOMAIN got : Said(got[i]) = Fields(arrived[i].id) /\ got[i].data = arrived[i].data
    /\ \A i \in DOMAIN m_rcvList : m_rcvList[i] = arrived[Len(got) + i]
    /\ Len(written) = Len(wire) + Len(m_sndList)
    /\ \A i \in DOMAIN wire : Fields(wire[i].id) = Meant(written[i])
    /\ \A i \in DOMAIN m_sndList : Fields(m_sndList[i].id) = Meant(written[Len(wire) + i])

(* The mutex is locked and whoever waits for it waits in vain: the worker  *)
(* has gone with it, or waits for itself or for the thread that joins it.  *)
Deadlocked ==
  /\ mutex
  /\ \/ At("close", "lock") /\ worker \in {"lock1", "gone"}
     \/ At("close", "join") /\ worker \in {"lock1", "lock2"}

Revived == dev.call = "close" /\ dev.at # "done" /\ m_bRun /\ errors > 0

(* A close that has begun ends with the worker gone, unless one of these   *)
(* holds it up for ever: the worker is between two of its critical         *)
(* sections when close locks the mutex; it locks the mutex after close has *)
(* unlocked it, sees m_bRun and goes; select failed under the mutex, before*)
(* close or after, when it also raises m_bRun again.                       *)
CloseEndsOrHangs == (dev.call = "close") ~> (At("close", "done") \/ []Deadlocked \/ []Revived)
=============================================================================

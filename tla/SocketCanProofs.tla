--------------------------- MODULE SocketCanProofs ----------------------------
(***************************************************************************)
(* What holds of SocketCan for any frames on the bus, any events of        *)
(* EventsAssumption and lists of any size: the lists keep within their     *)
(* size although room is looked for before the mutex is taken, and what an *)
(* event says passes the identifier unmixed, once and in order.            *)
(***************************************************************************)
EXTENDS SocketCan, SequenceTheorems, TLAPS

-----------------------------------------------------------------------------
(* Five fields side by side, each within its bits.                         *)
Three == 0..7
One == 0..1
Nine == 0..511
Eight == 0..255
Sum(a, b, c, t, n) == a * 2^26 + c * 2^16 + t * 2^8 + n + b * 2^25

(* They come apart again, a power of two at a time.                        *)
LEMMA FieldsOfSum ==
  ASSUME NEW a \in Three, NEW b \in One, NEW c \in Nine, NEW t \in Eight, NEW n \in Eight
  PROVE  Sum(a, b, c, t, n) \in 0..(EFF_MASK - 1) /\ Fields(Sum(a, b, c, t, n)) = <<a, b, c, t, n>>
<1>i. PICK i : i = Sum(a, b, c, t, n)
  OBVIOUS
<1>0. a \in 0..7 /\ b \in 0..1 /\ c \in 0..511 /\ t \in 0..255 /\ n \in 0..255
  BY DEF Three, One, Nine, Eight
<1>1. PICK z \in Nat : z = a * 2 + b
  BY <1>0, SMT
<1>2. PICK y \in Nat : y = z * 2^9 + c
  BY <1>0, <1>1, SMT
<1>3. PICK x \in Nat : x = y * 2^8 + t
  BY <1>0, <1>2, SMT
<1>4. i = x * 2^8 + n /\ i \in 0..(2^29 - 1)
  BY <1>i, <1>0, <1>1, <1>2, <1>3, SMT DEF Sum
<1>5. i % 2^8 = n
  BY <1>0, <1>3, <1>4, SMT
<1>6. i \div 2^8 = x
  BY <1>0, <1>3, <1>4, SMT
<1>7. x % 2^8 = t
  BY <1>0, <1>2, <1>3, SMT
<1>8. x \div 2^8 = y
  BY <1>0, <1>2, <1>3, SMT
<1>9. y % 2^9 = c
  BY <1>0, <1>1, <1>2, SMT
<1>10. y \div 2^9 = z
  BY <1>0, <1>1, <1>2, SMT
<1>11. z % 2 = b /\ z \div 2 = a
  BY <1>0, <1>1, SMT
<1>12. i \div 2^16 = y
  BY <1>0, <1>4, <1>6, <1>8, SMT
<1>13. i \div 2^25 = z
  BY <1>0, <1>4, <1>10, <1>12, SMT
<1>14. i \div 2^26 = a
  BY <1>0, <1>4, <1>11, <1>13, SMT
<1>15. i \in 0..(EFF_MASK - 1)
  BY <1>4, SMT DEF EFF_MASK
<1>16. Fields(i) = <<a, b, c, t, n>>
  BY <1>5, <1>6, <1>7, <1>9, <1>11, <1>12, <1>13, <1>14 DEF Fields
<1> QED
  BY <1>i, <1>15, <1>16

(* An event on its way to the bus.                                         *)
LEMMA SentSaysMeant ==
  ASSUME NEW e \in Events
  PROVE  LET m == convertEventToCanal(e)
         IN  m.id \in 0..(EFF_MASK - 1) /\ Fields(m.id) = Meant(e)
<1>1. /\ e.class \in 0..511 \/ Addressed(e)
      /\ e.head \in 0..255 /\ e.type \in 0..255 /\ e.node \in 0..255
  BY EventsAssumption DEF Addressed
<1>2. PICK a \in Three : a = e.head \div 32
  <2>1. e.head \div 32 \in 0..7
    BY <1>1, SMT
  <2> QED
    BY <2>1 DEF Three
<1>3. PICK b \in One : b = (e.head \div 16) % 2
  <2>1. (e.head \div 16) % 2 \in 0..1
    BY <1>1, SMT
  <2> QED
    BY <2>1 DEF One
<1>4. PICK c \in Nine : c = IF Addressed(e) THEN 0 ELSE e.class
  <2>1. 0 \in 0..511
    BY SMT
  <2> QED
    BY <1>1, <2>1 DEF Nine
<1>5. PICK n \in Eight : n = IF Addressed(e) THEN e.node ELSE 0
  <2>1. 0 \in 0..255
    BY SMT
  <2> QED
    BY <1>1, <2>1 DEF Eight
<1>6. PICK t \in Eight : t = e.type
  BY <1>1 DEF Eight
<1>7. PICK i : i = Sum(a, b, c, t, n)
  OBVIOUS
<1>8. t = e.type /\ i = Sum(a, b, c, t, n)
  BY <1>6, <1>7, Zenon
<1>9. i \in 0..(EFF_MASK - 1) /\ Fields(i) = <<a, b, c, t, n>>
  <2>1. Sum(a, b, c, t, n) \in 0..(EFF_MASK - 1) /\ Fields(Sum(a, b, c, t, n)) = <<a, b, c, t, n>>
    BY <1>6, FieldsOfSum
  <2> QED
    BY <1>8, <2>1, Zenon
<1>10. Meant(e) = <<a, b, c, t, n>>
  BY <1>2, <1>3, <1>4, <1>5, <1>8 DEF Meant
<1>11. convertEventToCanal(e).id = i
  <2>1. (IF Addressed(e) THEN 0 ELSE e.class * 2^16) = c * 2^16
    BY <1>4, SMT DEF Nine
  <2>2. (IF (e.head \div 16) % 2 = 1 THEN 2^25 ELSE 0) = b * 2^25
    BY <1>3, SMT DEF One
  <2> QED
    BY <1>2, <1>5, <1>8, <2>1, <2>2, Zenon DEF convertEventToCanal, Sum
<1> QED
  BY <1>9, <1>10, <1>11

(* An identifier on its way from the bus.                                  *)
LEMMA GotSaysFields ==
  ASSUME NEW m, m.id \in 0..(EFF_MASK - 1)
  PROVE  /\ Said(convertCanalToEvent(m)) = Fields(m.id)
         /\ convertCanalToEvent(m).data = m.data
<1>0. PICK i \in 0..(EFF_MASK - 1) : i = m.id
  OBVIOUS
<1>1. i \in 0..(2^29 - 1)
  BY SMT DEF EFF_MASK
<1>2. ((((i \div 2^25) % 16) * 16) \div 32) = i \div 2^26
  BY <1>1, SMT
<1>3. ((((i \div 2^25) % 16) * 16) \div 16) % 2 = (i \div 2^25) % 2
  BY <1>1, SMT
<1>4. PICK h : h = getVSCPheadFromCANid(i)
  OBVIOUS
<1>5. h \div 32 = i \div 2^26 /\ (h \div 16) % 2 = (i \div 2^25) % 2
  BY <1>2, <1>3, <1>4, SMT DEF getVSCPheadFromCANid
<1>6. 2^9 = 512 /\ 2^8 = 256
  BY SMT
<1>7. /\ getVSCPclassFromCANid(i) = (i \div 2^16) % 2^9
      /\ getVSCPtypeFromCANid(i) = (i \div 2^8) % 2^8
      /\ getVSCPnicknameFromCANid(i) = i % 2^8
  BY <1>6, SMT DEF getVSCPclassFromCANid, getVSCPtypeFromCANid, getVSCPnicknameFromCANid
<1>8. PICK e : e = convertCanalToEvent(m)
  OBVIOUS
<1>9. /\ e.head = h /\ e.class = getVSCPclassFromCANid(i) /\ e.type = getVSCPtypeFromCANid(i)
      /\ e.node = getVSCPnicknameFromCANid(i) /\ e.data = m.data
  BY <1>0, <1>4, <1>8 DEF convertCanalToEvent
<1> QED
  BY <1>0, <1>5, <1>7, <1>8, <1>9 DEF Said, Fields

-----------------------------------------------------------------------------
(* The invariant.                                                          *)

Payload == {Junk} \cup {f.data : f \in Frames} \cup {e.data : e \in Events}
Messages == [id: 0..(EFF_MASK - 1), ext: BOOLEAN, data: Payload]
Calls == [call: {"open", "count", "read", "turn", "write", "close"},
          at: {"start", "unlock", "lock", "inside", "join", "done"}]

(* Both lists keep within their size.  The device thread looks for room    *)
(* before it has the mutex, and nobody but it fills the list it found.     *)
Typed ==
  /\ dev \in Calls
  /\ worker \in {"none", "start", "test", "lock1", "receive", "unlock1", "lock2", "transmit",
                 "unlock2", "gone"}
  /\ m_bRun \in BOOLEAN /\ mutex \in BOOLEAN /\ torn \in BOOLEAN
  /\ m_rcvList \in Seq(Messages) /\ Len(m_rcvList) <= MaxList
  /\ m_sndList \in Seq(Messages) /\ Len(m_sndList) <= MaxList
  /\ leftover \in {Junk} \cup {f.data : f \in Frames} /\ errors \in 0..MaxErrors
  /\ dev.call = "write" => dev.at \in {"lock", "inside"} /\ Len(m_sndList) < MaxList

(* What comes in: the events made so far, then the list, are what arrived. *)
Inward ==
  /\ got \in Seq({convertCanalToEvent(m) : m \in Messages}) /\ arrived \in Seq(Messages)
  /\ Len(arrived) = Len(got) + Len(m_rcvList)
  /\ \A i \in 1..Len(got) : Said(got[i]) = Fields(arrived[i].id) /\ got[i].data = arrived[i].data
  /\ \A i \in 1..Len(m_rcvList) : m_rcvList[i] = arrived[Len(got) + i]

(* What goes out: the frames written so far, then the list, are what was   *)
(* sent.                                                                   *)
Outward ==
  /\ wire \in Seq(Messages) /\ written \in Seq(Events)
  /\ Len(written) = Len(wire) + Len(m_sndList)
  /\ \A i \in 1..Len(wire) : Fields(wire[i].id) = Meant(written[i])
  /\ \A i \in 1..Len(m_sndList) : Fields(m_sndList[i].id) = Meant(written[Len(wire) + i])

LEMMA SocketInit == Init => Typed /\ Inward /\ Outward
<1> SUFFICES ASSUME Init PROVE Typed /\ Inward /\ Outward
  OBVIOUS
<1>1. \A S : <<>> \in Seq(S)
  OBVIOUS
<1>2. Len(<<>>) = 0
  OBVIOUS
<1>3. Typed
  <2>1. Len(m_rcvList) <= MaxList /\ Len(m_sndList) <= MaxList /\ errors \in 0..MaxErrors
    BY <1>2, BoundsAssumption, SMT DEF Init
  <2>2. dev \in Calls /\ dev.call # "write"
    BY DEF Init, Calls
  <2> QED
    BY <1>1, <2>1, <2>2 DEF Init, Typed
<1>4. Inward
  BY <1>1, <1>2 DEF Init, Inward
<1>5. Outward
  BY <1>1, <1>2 DEF Init, Outward
<1> QED
  BY <1>3, <1>4, <1>5

(* A message and a frame that leave one place as they came to another.     *)
LEMMA MessageOfFrame == ASSUME NEW f \in Frames PROVE MessageOf(f) \in Messages
<1>1. f.id \in Nat /\ f.ext \in BOOLEAN /\ f.data \in Payload
  BY FramesAssumption DEF Payload
<1>2. f.id % 2^29 \in 0..(2^29 - 1)
  BY <1>1, SMT
<1>3. f.id % 2^11 \in 0..(2^29 - 1)
  BY <1>1, SMT
<1>4. f.id % (IF f.ext THEN EFF_MASK ELSE SFF_MASK) \in 0..(EFF_MASK - 1)
  BY <1>2, <1>3, SMT DEF EFF_MASK, SFF_MASK
<1>5. PICK i \in 0..(EFF_MASK - 1) : i = f.id % (IF f.ext THEN EFF_MASK ELSE SFF_MASK)
  BY <1>4, Zenon
<1>6. MessageOf(f) = [id |-> i, ext |-> f.ext, data |-> f.data]
  BY <1>5, Zenon DEF MessageOf
<1>7. [id |-> i, ext |-> f.ext, data |-> f.data] \in Messages
  BY <1>1 DEF Messages
<1> QED
  BY <1>6, <1>7, Zenon

LEMMA MessageOfEvent ==
  ASSUME NEW e \in Events
  PROVE  convertEventToCanal(e) \in Messages /\ Fields(convertEventToCanal(e).id) = Meant(e)
<1>1. convertEventToCanal(e).id \in 0..(EFF_MASK - 1) /\ Fields(convertEventToCanal(e).id) = Meant(e)
  BY SentSaysMeant
<1>2. PICK i : convertEventToCanal(e) = [id |-> i, ext |-> TRUE, data |-> e.data]
  BY Zenon DEF convertEventToCanal
<1>3. i = convertEventToCanal(e).id
  BY <1>2
<1>4. e.data \in Payload
  BY DEF Payload
<1>5. [id |-> i, ext |-> TRUE, data |-> e.data] \in Messages
  BY <1>1, <1>3, <1>4 DEF Messages
<1> QED
  BY <1>1, <1>2, <1>5, Zenon

LEMMA TypedStep == ASSUME Typed, [Next]_vars PROVE Typed'
<1>0. MaxList \in Nat /\ MaxErrors \in Nat /\ Len(m_rcvList) \in Nat /\ Len(m_sndList) \in Nat
  BY BoundsAssumption DEF Typed
<1>1. ASSUME NEW call \in {"open", "count", "read", "turn", "write", "close"},
             NEW at \in {"start", "unlock", "lock", "inside", "join", "done"}, To(call, at)
      PROVE  dev' \in Calls /\ dev'.call = call /\ dev'.at = at
  BY <1>1 DEF To, Calls
<1>2. dev.call \in {"open", "count", "read", "turn", "write", "close"}
  BY DEF Typed, Calls
<1>3. ASSUME NEW other \in BOOLEAN, Tear(other) PROVE torn' \in BOOLEAN
  BY <1>3 DEF Tear, Typed
<1>4. AtWork \in BOOLEAN /\ (dev.at = "inside") \in BOOLEAN
  BY DEF AtWork
<1>5. CASE Open \/ OpenUnlock \/ Unlock \/ Close \/ CloseLock \/ CloseJoin
  <2>1. dev' \in Calls /\ dev'.call # "write"
    BY <1>1, <1>2, <1>5 DEF Open, OpenUnlock, Unlock, Close, CloseLock, CloseJoin, At, Typed
  <2> QED
    BY <1>5, <2>1 DEF Open, OpenUnlock, Unlock, Close, CloseLock, CloseJoin, Typed, lists, history
<1>6. CASE Lock
  <2>1. dev' \in Calls /\ dev'.call = dev.call /\ dev'.at = "inside"
    BY <1>1, <1>2, <1>6 DEF Lock
  <2> QED
    BY <1>6, <2>1 DEF Lock, Typed, lists, history
<1>7. CASE dataAvailable
  <2>1. dev' \in Calls /\ dev'.call # "write"
    BY <1>1, <1>7 DEF dataAvailable
  <2>2. torn' \in BOOLEAN
    BY <1>3, <1>4, <1>7 DEF dataAvailable
  <2>3. UNCHANGED <<worker, m_bRun, mutex, m_rcvList, m_sndList, leftover, errors>>
    BY <1>7 DEF dataAvailable, lists
  <2> QED
    BY <2>1, <2>2, <2>3 DEF Typed
<1>8. CASE Turn
  <2>1. /\ dev' \in Calls
        /\ dev'.call = "write" => dev'.at = "lock" /\ Len(m_sndList) < MaxList
    BY <1>1, <1>8 DEF Turn
  <2>2. UNCHANGED <<worker, m_bRun, mutex, m_rcvList, m_sndList, leftover, errors, torn>>
    BY <1>8 DEF Turn, lists, history
  <2> QED
    BY <2>1, <2>2 DEF Typed
<1>9. CASE readMsg
  <2>1. dev' \in Calls /\ dev'.call # "write"
    BY <1>1, <1>9 DEF readMsg
  <2>2. m_rcvList' \in Seq(Messages) /\ Len(m_rcvList') <= MaxList
    BY <1>0, <1>9, HeadTailProperties DEF readMsg, dll_removeNode, Typed
  <2> QED
    BY <1>3, <1>4, <1>9, <2>1, <2>2 DEF readMsg, Typed
<1>10. CASE writeMsg
  <2>1. dev' \in Calls /\ dev'.call # "write"
    BY <1>1, <1>10 DEF writeMsg
  <2>2. PICK e \in Events : m_sndList' = Append(m_sndList, convertEventToCanal(e))
    BY <1>10 DEF writeMsg, dll_addNode, dll_addNodeTail
  <2>3. convertEventToCanal(e) \in Messages
    BY MessageOfEvent
  <2>4. m_sndList' \in Seq(Messages) /\ Len(m_sndList') <= MaxList
    BY <1>0, <1>10, <2>2, <2>3, AppendProperties DEF writeMsg, At, Typed
  <2> QED
    BY <1>3, <1>4, <1>10, <2>1, <2>4 DEF writeMsg, Typed
<1>11. CASE \/ Begin \/ Test \/ LockReceive \/ SelectFails \/ UnlockReceive \/ LockTransmit
            \/ UnlockTransmit
  <2>1. /\ worker' \in {"test", "gone", "lock1", "receive", "lock2", "transmit"}
        /\ m_bRun' \in BOOLEAN /\ mutex' \in BOOLEAN
    BY <1>11 DEF Begin, Test, LockReceive, SelectFails, UnlockReceive, LockTransmit,
       UnlockTransmit, Step, Typed
  <2>2. errors' = errors \/ (errors < MaxErrors /\ errors' = errors + 1)
    BY <1>11 DEF Begin, Test, LockReceive, SelectFails, UnlockReceive, LockTransmit,
       UnlockTransmit
  <2>3. errors' \in 0..MaxErrors
    BY <1>0, <2>2 DEF Typed
  <2>4. UNCHANGED <<dev, m_rcvList, m_sndList, leftover, torn>>
    BY <1>11 DEF Begin, Test, LockReceive, SelectFails, UnlockReceive, LockTransmit,
       UnlockTransmit, Calm, lists
  <2> QED
    BY <2>1, <2>3, <2>4 DEF Typed
<1>12. CASE Receive
  <2>1. /\ m_rcvList' \in Seq(Messages) /\ Len(m_rcvList') <= MaxList
        /\ leftover' \in {Junk} \cup {f.data : f \in Frames}
    <3>1. CASE UNCHANGED <<m_rcvList, leftover, arrived>>
      BY <3>1 DEF Typed
    <3>2. ASSUME NEW f \in Frames, leftover' = f.data, Len(m_rcvList) < MaxList,
                 m_rcvList' = Append(m_rcvList, MessageOf(f))
          PROVE  /\ m_rcvList' \in Seq(Messages) /\ Len(m_rcvList') <= MaxList
                 /\ leftover' \in {Junk} \cup {g.data : g \in Frames}
      BY <1>0, <3>2, MessageOfFrame, AppendProperties DEF Typed
    <3>4. CASE \E f \in Frames : leftover' = f.data /\ UNCHANGED <<m_rcvList, arrived>>
      BY <3>4 DEF Typed
    <3>5. CASE \E f \in Frames : /\ leftover' = f.data /\ Len(m_rcvList) < MaxList
                                 /\ m_rcvList' = Append(m_rcvList, MessageOf(f))
      BY <3>2, <3>5
    <3> QED
      BY <1>12, <3>1, <3>4, <3>5, Zenon DEF Receive, dll_addNode, dll_addNodeTail
  <2>2. torn' \in BOOLEAN
    BY <1>3, <1>4, <1>12 DEF Receive
  <2>3. worker' = "unlock1" /\ UNCHANGED <<dev, m_bRun, mutex, m_sndList, errors>>
    BY <1>12 DEF Receive, Step, Calm
  <2> QED
    BY <2>1, <2>2, <2>3 DEF Typed
<1>13. CASE Transmit
  <2>1. m_sndList' \in Seq(Messages) /\ Len(m_sndList') <= Len(m_sndList)
    BY <1>0, <1>13, HeadTailProperties DEF Transmit, dll_removeNode, Typed
  <2>2. Len(m_sndList') \in Nat /\ Len(m_sndList') <= MaxList /\ (Len(m_sndList) < MaxList => Len(m_sndList') < MaxList)
    BY <1>0, <2>1 DEF Typed
  <2> QED
    BY <1>3, <1>4, <1>13, <2>1, <2>2 DEF Transmit, Step, Calm, Typed
<1>14. CASE UNCHANGED vars
  BY <1>14 DEF vars, lists, history, Typed
<1> QED
  BY <1>5, <1>6, <1>7, <1>8, <1>9, <1>10, <1>11, <1>12, <1>13, <1>14 DEF Next, Device, workThread

(* The invariant: the types, and both lists within their size.             *)
THEOREM TypedInvariant == Spec => []Typed
BY SocketInit, TypedStep, PTL DEF Spec

(* The states are of their types and the lists within their size, although *)
(* the room in m_sndList is looked for before the mutex is taken.          *)
THEOREM TypeCorrect == Spec => []TypeOK
<1>1. Typed => TypeOK
  <2> SUFFICES ASSUME Typed PROVE TypeOK
    OBVIOUS
  <2>1. ASSUME NEW m \in Messages PROVE Message(m)
    BY DEF Messages, Message
  <2>2. \A i \in DOMAIN m_rcvList : Message(m_rcvList[i])
    BY <2>1 DEF Typed
  <2>3. \A i \in DOMAIN m_sndList : Message(m_sndList[i])
    BY <2>1 DEF Typed
  <2> QED
    BY <2>2, <2>3 DEF Typed, TypeOK, Calls
<1> QED
  BY <1>1, TypedInvariant, PTL

-----------------------------------------------------------------------------
(* The list t is s with x at its end.                                      *)
Added(s, x, t) == /\ Len(t) = Len(s) + 1
                  /\ \A i \in 1..Len(s) : t[i] = s[i]
                  /\ t[Len(s) + 1] = x

LEMMA AddedByAppend ==
  ASSUME NEW S, NEW s \in Seq(S), NEW x \in S, NEW t, t = Append(s, x)
  PROVE  t \in Seq(S) /\ Added(s, x, t)
BY AppendProperties DEF Added

(* What comes in is disturbed by Receive and readMsg only.                 *)
LEMMA InwardStep == ASSUME Typed, Inward, [Next]_vars PROVE Inward'
<1>0. /\ m_rcvList \in Seq(Messages) /\ arrived \in Seq(Messages)
      /\ got \in Seq({convertCanalToEvent(m) : m \in Messages})
      /\ Len(got) \in Nat /\ Len(m_rcvList) \in Nat /\ Len(arrived) = Len(got) + Len(m_rcvList)
  BY DEF Typed, Inward
<1>1. CASE UNCHANGED <<m_rcvList, arrived, got>>
  BY <1>1 DEF Inward
<1>2. CASE readMsg
  <2>1. PICK m \in Messages : m = Head(m_rcvList) /\ m = m_rcvList[1] /\ Len(m_rcvList) >= 1
    BY <1>0, <1>2, HeadTailProperties, EmptySeq DEF readMsg
  <2>2. PICK e : e = convertCanalToEvent(m)
    OBVIOUS
  <2>3. Said(e) = Fields(m.id) /\ e.data = m.data
    <3>1. m.id \in 0..(EFF_MASK - 1)
      BY DEF Messages
    <3> QED
      BY <2>2, <3>1, GotSaysFields, Zenon
  <2>4. got' = Append(got, e) /\ m_rcvList' = Tail(m_rcvList) /\ arrived' = arrived
    BY <1>2, <2>1, <2>2 DEF readMsg, dll_removeNode
  <2>5. /\ got' \in Seq({convertCanalToEvent(x) : x \in Messages}) /\ Len(got') = Len(got) + 1
        /\ \A i \in 1..Len(got) : got'[i] = got[i]
        /\ got'[Len(got) + 1] = e
    BY <1>0, <2>2, <2>4, AppendProperties
  <2>6. /\ Len(m_rcvList') = Len(m_rcvList) - 1
        /\ \A i \in 1..Len(m_rcvList') : m_rcvList'[i] = m_rcvList[i + 1]
    BY <1>0, <2>1, <2>4, HeadTailProperties
  <2>7. m = arrived[Len(got) + 1]
    BY <1>0, <2>1 DEF Inward
  <2>8. ASSUME NEW i \in 1..Len(got')
        PROVE  Said(got'[i]) = Fields(arrived'[i].id) /\ got'[i].data = arrived'[i].data
    <3>1. CASE i = Len(got) + 1
      BY <2>3, <2>4, <2>5, <2>7, <3>1, Zenon
    <3>2. CASE i # Len(got) + 1
      <4>1. i \in 1..Len(got)
        BY <1>0, <2>5, <3>2
      <4> QED
        BY <2>4, <2>5, <4>1, Zenon DEF Inward
    <3> QED
      BY <3>1, <3>2
  <2>9. ASSUME NEW i \in 1..Len(m_rcvList') PROVE m_rcvList'[i] = arrived'[Len(got') + i]
    <3>1. i + 1 \in 1..Len(m_rcvList) /\ Len(got) + (i + 1) = Len(got') + i
      BY <1>0, <2>5, <2>6
    <3> QED
      BY <2>4, <2>6, <3>1 DEF Inward
  <2>10. Len(arrived') = Len(got') + Len(m_rcvList')
    <3>1. \A k, n \in Nat : k + n = (k + 1) + (n - 1)
      OBVIOUS
    <3> QED
      BY <1>0, <2>4, <2>5, <2>6, <3>1, Zenon
  <2> QED
    BY <1>0, <2>4, <2>5, <2>8, <2>9, <2>10 DEF Inward
<1>3. CASE Receive
  <2>1. CASE UNCHANGED <<m_rcvList, arrived>>
    BY <1>1, <1>3, <2>1 DEF Receive, Calm
  <2>2. CASE \E f \in Frames : /\ m_rcvList' = Append(m_rcvList, MessageOf(f))
                               /\ arrived' = Append(arrived, MessageOf(f))
    <3>1. PICK m \in Messages : m_rcvList' = Append(m_rcvList, m) /\ arrived' = Append(arrived, m)
      BY <2>2, MessageOfFrame
    <3>2. got' = got
      BY <1>3 DEF Receive, Calm
    <3>10. arrived' \in Seq(Messages) /\ Added(arrived, m, arrived') /\ Added(m_rcvList, m, m_rcvList')
      BY <1>0, <3>1, AddedByAppend
    <3>3. /\ arrived' \in Seq(Messages) /\ Len(arrived') = Len(arrived) + 1
          /\ \A i \in 1..Len(arrived) : arrived'[i] = arrived[i]
          /\ arrived'[Len(arrived) + 1] = m
      BY <3>10, Zenon DEF Added
    <3>4. /\ Len(m_rcvList') = Len(m_rcvList) + 1
          /\ \A i \in 1..Len(m_rcvList) : m_rcvList'[i] = m_rcvList[i]
          /\ m_rcvList'[Len(m_rcvList) + 1] = m
      BY <3>10, Zenon DEF Added
    <3>5. ASSUME NEW i \in 1..Len(got)
          PROVE  Said(got[i]) = Fields(arrived'[i].id) /\ got[i].data = arrived'[i].data
      <4>1. i \in 1..Len(arrived)
        BY <1>0
      <4> QED
        BY <3>3, <4>1, Zenon DEF Inward
    <3>6. ASSUME NEW i \in 1..Len(m_rcvList') PROVE m_rcvList'[i] = arrived'[Len(got) + i]
      <4>1. CASE i = Len(m_rcvList) + 1
        BY <1>0, <3>3, <3>4, <4>1
      <4>2. CASE i # Len(m_rcvList) + 1
        <5>1. i \in 1..Len(m_rcvList) /\ Len(got) + i \in 1..Len(arrived)
          BY <1>0, <3>4, <4>2
        <5> QED
          BY <3>3, <3>4, <5>1 DEF Inward
      <4> QED
        BY <4>1, <4>2
    <3> QED
      BY <1>0, <3>2, <3>3, <3>4, <3>5, <3>6 DEF Inward
  <2>3. \/ UNCHANGED <<m_rcvList, arrived>>
        \/ \E f \in Frames : /\ m_rcvList' = Append(m_rcvList, MessageOf(f))
                             /\ arrived' = Append(arrived, MessageOf(f))
    BY <1>3, Zenon DEF Receive, dll_addNode, dll_addNodeTail
  <2> QED
    BY <2>1, <2>2, <2>3
<1>4. CASE Open \/ OpenUnlock \/ Lock \/ dataAvailable \/ Unlock \/ Turn \/ writeMsg \/ CloseLock
           \/ CloseJoin \/ Close
  BY <1>1, <1>4 DEF Open, OpenUnlock, Lock, dataAvailable, Unlock, Turn, writeMsg, CloseLock,
     CloseJoin, Close, lists, history
<1>5. CASE \/ Begin \/ Test \/ LockReceive \/ SelectFails \/ UnlockReceive \/ LockTransmit
           \/ Transmit \/ UnlockTransmit
  BY <1>1, <1>5 DEF Begin, Test, LockReceive, SelectFails, UnlockReceive, LockTransmit,
     Transmit, UnlockTransmit, Calm, lists
<1>6. CASE UNCHANGED vars
  BY <1>1, <1>6 DEF vars, lists, history
<1> QED
  BY <1>2, <1>3, <1>4, <1>5, <1>6 DEF Next, Device, workThread

(* What goes out is disturbed by writeMsg and Transmit only.               *)
LEMMA OutwardStep == ASSUME Typed, Outward, [Next]_vars PROVE Outward'
<1>0. /\ m_sndList \in Seq(Messages) /\ wire \in Seq(Messages) /\ written \in Seq(Events)
      /\ Len(wire) \in Nat /\ Len(m_sndList) \in Nat /\ Len(written) = Len(wire) + Len(m_sndList)
  BY DEF Typed, Outward
<1>1. CASE UNCHANGED <<m_sndList, wire, written>>
  BY <1>1 DEF Outward
<1>2. CASE writeMsg
  <2>1. PICK e \in Events : /\ m_sndList' = Append(m_sndList, convertEventToCanal(e))
                            /\ written' = Append(written, e)
    BY <1>2, Zenon DEF writeMsg, dll_addNode, dll_addNodeTail
  <2>2. PICK m \in Messages : m = convertEventToCanal(e) /\ Fields(m.id) = Meant(e)
    BY MessageOfEvent
  <2>3. wire' = wire
    BY <1>2 DEF writeMsg
  <2>8. written' \in Seq(Events) /\ Added(written, e, written')
    BY <1>0, <2>1, AddedByAppend
  <2>9. m_sndList' \in Seq(Messages) /\ Added(m_sndList, m, m_sndList')
    <3>1. m_sndList' = Append(m_sndList, m)
      BY <2>1, <2>2, Zenon
    <3> QED
      BY <1>0, <3>1, AddedByAppend
  <2>4. /\ written' \in Seq(Events) /\ Len(written') = Len(written) + 1
        /\ \A i \in 1..Len(written) : written'[i] = written[i]
        /\ written'[Len(written) + 1] = e
    BY <2>8, Zenon DEF Added
  <2>5. /\ Len(m_sndList') = Len(m_sndList) + 1
        /\ \A i \in 1..Len(m_sndList) : m_sndList'[i] = m_sndList[i]
        /\ m_sndList'[Len(m_sndList) + 1] = m
    BY <2>9, Zenon DEF Added
  <2>6. ASSUME NEW i \in 1..Len(wire) PROVE Fields(wire[i].id) = Meant(written'[i])
    <3>1. i \in 1..Len(written)
      BY <1>0
    <3> QED
      BY <2>4, <3>1, Zenon DEF Outward
  <2>7. ASSUME NEW i \in 1..Len(m_sndList')
        PROVE  Fields(m_sndList'[i].id) = Meant(written'[Len(wire) + i])
    <3>1. CASE i = Len(m_sndList) + 1
      <4>1. Len(wire) + i = Len(written) + 1
        BY <1>0, <3>1
      <4> QED
        BY <2>2, <2>4, <2>5, <3>1, <4>1, Zenon
    <3>2. CASE i # Len(m_sndList) + 1
      <4>1. i \in 1..Len(m_sndList) /\ Len(wire) + i \in 1..Len(written)
        BY <1>0, <2>5, <3>2
      <4> QED
        BY <2>4, <2>5, <4>1, Zenon DEF Outward
    <3> QED
      BY <3>1, <3>2
  <2> QED
    BY <1>0, <2>3, <2>4, <2>5, <2>6, <2>7 DEF Outward
<1>3. CASE Transmit
  <2>1. CASE m_sndList = <<>>
    BY <1>1, <1>3, <2>1 DEF Transmit, Calm
  <2>2. CASE m_sndList # <<>>
    <3>1. PICK m \in Messages : m = Head(m_sndList) /\ m = m_sndList[1] /\ Len(m_sndList) >= 1
      BY <1>0, <2>2, HeadTailProperties, EmptySeq
    <3>2. PICK f : f = FrameOf(m)
      OBVIOUS
    <3>3. f \in Messages /\ f.id = m.id
      <4>1. f = [id |-> m.id, ext |-> m.ext, data |-> leftover]
        BY <3>2, Zenon DEF FrameOf
      <4>2. m.id \in 0..(EFF_MASK - 1) /\ m.ext \in BOOLEAN /\ leftover \in Payload
        BY DEF Messages, Payload, Typed
      <4> QED
        BY <4>1, <4>2 DEF Messages
    <3>4. m_sndList' = Tail(m_sndList) /\ wire' = Append(wire, f) /\ written' = written
      BY <1>3, <2>2, <3>1, <3>2, Zenon DEF Transmit, Calm, dll_removeNode
    <3>5. /\ wire' \in Seq(Messages) /\ Len(wire') = Len(wire) + 1
          /\ \A i \in 1..Len(wire) : wire'[i] = wire[i]
          /\ wire'[Len(wire) + 1] = f
      BY <1>0, <3>3, <3>4, AppendProperties
    <3>6. /\ Len(m_sndList') = Len(m_sndList) - 1
          /\ \A i \in 1..Len(m_sndList') : m_sndList'[i] = m_sndList[i + 1]
      BY <1>0, <3>1, <3>4, HeadTailProperties
    <3>7. Fields(m.id) = Meant(written[Len(wire) + 1])
      <4>1. 1 \in 1..Len(m_sndList)
        BY <1>0, <3>1
      <4> QED
        BY <3>1, <4>1, Zenon DEF Outward
    <3>8. ASSUME NEW i \in 1..Len(wire') PROVE Fields(wire'[i].id) = Meant(written'[i])
      <4>1. CASE i = Len(wire) + 1
        BY <3>3, <3>4, <3>5, <3>7, <4>1, Zenon
      <4>2. CASE i # Len(wire) + 1
        <5>1. i \in 1..Len(wire)
          BY <1>0, <3>5, <4>2
        <5> QED
          BY <3>4, <3>5, <5>1, Zenon DEF Outward
      <4> QED
        BY <4>1, <4>2
    <3>9. ASSUME NEW i \in 1..Len(m_sndList')
          PROVE  Fields(m_sndList'[i].id) = Meant(written'[Len(wire') + i])
      <4>1. i + 1 \in 1..Len(m_sndList) /\ Len(wire) + (i + 1) = Len(wire') + i
        BY <1>0, <3>5, <3>6
      <4> QED
        BY <3>4, <3>6, <4>1, Zenon DEF Outward
    <3>10. Len(written') = Len(wire') + Len(m_sndList')
      <4>1. \A k, n \in Nat : k + n = (k + 1) + (n - 1)
        OBVIOUS
      <4> QED
        BY <1>0, <3>4, <3>5, <3>6, <4>1, Zenon
    <3> QED
      BY <1>0, <3>4, <3>5, <3>8, <3>9, <3>10 DEF Outward
  <2> QED
    BY <2>1, <2>2
<1>4. CASE Open \/ OpenUnlock \/ Lock \/ dataAvailable \/ Unlock \/ Turn \/ readMsg \/ CloseLock
           \/ CloseJoin \/ Close
  BY <1>1, <1>4 DEF Open, OpenUnlock, Lock, dataAvailable, Unlock, Turn, readMsg, CloseLock,
     CloseJoin, Close, lists, history
<1>5. CASE \/ Begin \/ Test \/ LockReceive \/ SelectFails \/ UnlockReceive \/ LockTransmit
           \/ Receive \/ UnlockTransmit
  BY <1>1, <1>5 DEF Begin, Test, LockReceive, SelectFails, UnlockReceive, LockTransmit,
     Receive, UnlockTransmit, Calm, lists
<1>6. CASE UNCHANGED vars
  BY <1>1, <1>6 DEF vars, lists, history
<1> QED
  BY <1>2, <1>3, <1>4, <1>5, <1>6 DEF Next, Device, workThread

(* Every message that found room comes out once and in order as an event   *)
(* that says what its identifier says, and what is written to the socket   *)
(* are the events sent, once and in order, their fields unmixed: for every *)
(* identifier of 29 bits and every event the driver may be given, as long  *)
(* as no two threads have been inside one list at the same time.           *)
THEOREM NothingLostOrMixed == Spec => []FramesKept
<1>1. Spec => [](Typed /\ Inward /\ Outward)
  BY SocketInit, TypedStep, InwardStep, OutwardStep, PTL DEF Spec
<1>2. Typed /\ Inward /\ Outward => FramesKept
  <2> SUFFICES ASSUME Typed, Inward, Outward PROVE FramesKept
    OBVIOUS
  <2>1. /\ DOMAIN got = 1..Len(got) /\ DOMAIN m_rcvList = 1..Len(m_rcvList)
        /\ DOMAIN wire = 1..Len(wire) /\ DOMAIN m_sndList = 1..Len(m_sndList)
    BY DEF Typed, Inward, Outward
  <2> QED
    BY <2>1, Zenon DEF Inward, Outward, FramesKept
<1> QED
  BY <1>1, <1>2, PTL
=============================================================================

------------------------- MODULE DeviceDriverProofs -------------------------
(***************************************************************************)
(* Theorems about DeviceDriver, for any events, any kinds of driver and    *)
(* any length of the queue.                                                *)
(*                                                                         *)
(* Placed says which of the threads run in each phase of deviceThread and  *)
(* what each of them may rely on there; the invariants of the runs follow. *)
(* Ordered says how far the driver has come in the events accepted for it. *)
(***************************************************************************)
EXTENDS DeviceDriver, TLAPS

Busy == sender \notin {"off", "ended"}
Reading == reader \in {"loop", "receive"}

(* The two threads run only while the driver is open, and the session is   *)
(* in the list whenever anybody uses its queue.                            *)
Placed ==
  /\ main \in {"new", "load", "failed"} => sender = "off" /\ reader = "off"
  /\ main = "new" => ~member /\ accepted = <<>>
  /\ main \notin {"new", "ended"} => member
  /\ Busy \/ Reading => main \in {"serve", "join"}
  /\ main \in {"serve", "join"} => open
  /\ mode = "polled" => ~Reading
  /\ worker # "idle" => member /\ load \in Events

(* The sender works on the head of a queue that is not empty, and deletes  *)
(* only what the driver took or refused.                                   *)
Working ==
  /\ sender \in {"peek", "send", "delete", "deleting"} => queue # <<>>
  /\ sender \in {"send", "delete", "deleting"} => held \in Events /\ Head(queue) = held
  /\ sender \in {"delete", "deleting"} => held \in ToSet(served) \cup ToSet(dropped)

DriverInv == TypeOK /\ Placed /\ Working

-----------------------------------------------------------------------------
(* Sequences and the sets of their elements.                               *)

(* Appending adds the element at the end and keeps the head.               *)
LEMMA AppendFacts ==
  ASSUME NEW S, NEW q \in Seq(S), NEW e \in S
  PROVE  /\ Append(q, e) \in Seq(S) /\ Append(q, e) # <<>>
         /\ q # <<>> => Head(Append(q, e)) = Head(q)
<1>1. Append(q, e) \in Seq(S) /\ Len(Append(q, e)) = Len(q) + 1 /\ Len(q) \in Nat
  OBVIOUS
<1>2. Append(q, e) # <<>>
  BY <1>1
<1>3. ASSUME q # <<>> PROVE Head(Append(q, e)) = Head(q)
  <2>1. 1 \in 1..Len(q)
    BY <1>1, <1>3
  <2>2. Append(q, e)[1] = q[1]
    BY <2>1
  <2>3. Head(Append(q, e)) = Append(q, e)[1] /\ Head(q) = q[1]
    BY <1>1, <1>2, <1>3
  <2> QED
    BY <2>2, <2>3
<1> QED
  BY <1>1, <1>2, <1>3

(* The elements after an append are the old ones and the new one.          *)
LEMMA AppendSet ==
  ASSUME NEW S, NEW q \in Seq(S), NEW e \in S
  PROVE  ToSet(Append(q, e)) = ToSet(q) \cup {e}
<1>1. DOMAIN q = 1..Len(q) /\ Len(q) \in Nat /\ DOMAIN Append(q, e) = 1..(Len(q) + 1)
  OBVIOUS
<1>2. \A i \in 1..Len(q) : Append(q, e)[i] = q[i]
  OBVIOUS
<1>3. Append(q, e)[Len(q) + 1] = e
  OBVIOUS
<1>4. ASSUME NEW x \in ToSet(Append(q, e)) PROVE x \in ToSet(q) \cup {e}
  <2>1. PICK i \in 1..(Len(q) + 1) : x = Append(q, e)[i]
    BY <1>1 DEF ToSet
  <2>2. i \in 1..Len(q) \/ i = Len(q) + 1
    BY <1>1
  <2> QED
    BY <1>1, <1>2, <1>3, <2>1, <2>2 DEF ToSet
<1>5. ASSUME NEW x \in ToSet(q) PROVE x \in ToSet(Append(q, e))
  <2>1. PICK i \in 1..Len(q) : x = q[i]
    BY <1>1 DEF ToSet
  <2>2. i \in 1..(Len(q) + 1)
    BY <1>1
  <2> QED
    BY <1>1, <1>2, <2>1, <2>2 DEF ToSet
<1>6. e \in ToSet(Append(q, e))
  <2>1. Len(q) + 1 \in 1..(Len(q) + 1)
    BY <1>1
  <2> QED
    BY <1>1, <1>3, <2>1 DEF ToSet
<1> QED
  BY <1>4, <1>5, <1>6

(* Taking the head away leaves a sequence with all the other elements.     *)
LEMMA TailSet ==
  ASSUME NEW S, NEW q \in Seq(S), q # <<>>
  PROVE  Tail(q) \in Seq(S) /\ Head(q) \in S /\ ToSet(q) \subseteq {Head(q)} \cup ToSet(Tail(q))
<1>1. Len(q) \in Nat \ {0} /\ DOMAIN q = 1..Len(q) /\ DOMAIN Tail(q) = 1..(Len(q) - 1)
  OBVIOUS
<1>2. Head(q) = q[1] /\ \A i \in 1..(Len(q) - 1) : Tail(q)[i] = q[i + 1]
  OBVIOUS
<1>3. ASSUME NEW x \in ToSet(q), x # Head(q) PROVE x \in ToSet(Tail(q))
  <2>1. PICK i \in 1..Len(q) : x = q[i]
    BY <1>1 DEF ToSet
  <2>2. i - 1 \in 1..(Len(q) - 1) /\ (i - 1) + 1 = i
    BY <1>1, <1>2, <1>3, <2>1
  <2>3. Tail(q)[i - 1] = x
    BY <1>2, <2>1, <2>2
  <2> QED
    BY <1>1, <2>2, <2>3 DEF ToSet
<1>4. Tail(q) \in Seq(S) /\ Head(q) \in S
  OBVIOUS
<1> QED
  BY <1>3, <1>4

-----------------------------------------------------------------------------
(* A driver starts with nothing running.                                   *)
LEMMA DriverInit == Init => DriverInv
<1> SUFFICES ASSUME Init PROVE DriverInv
  OBVIOUS
<1>1. <<>> \in Seq(Events)
  OBVIOUS
<1>2. TypeOK
  BY <1>1 DEF Init, TypeOK
<1>3. Placed /\ Working
  BY DEF Init, Placed, Working, Busy, Reading
<1> QED
  BY <1>2, <1>3 DEF DriverInv

(* Every step of deviceThread, and the order to quit, keeps the invariant. *)
LEMMA MainStep == DriverInv /\ (Main \/ Quit) => DriverInv'
<1> SUFFICES ASSUME DriverInv, Main \/ Quit PROVE DriverInv'
  OBVIOUS
<1> USE DEF DriverInv, Placed, Working, Busy, Reading, threads, flags, list, history
<1>1. CASE Attach
  BY <1>1 DEF Attach, TypeOK
<1>2. CASE LoadFails
  BY <1>2 DEF LoadFails, TypeOK
<1>3. CASE Run
  BY <1>3 DEF Run, TypeOK
<1>4. CASE StopThreads
  BY <1>4 DEF StopThreads, TypeOK
<1>5. CASE JoinThreads
  BY <1>5 DEF JoinThreads, TypeOK
<1>6. CASE Close
  BY <1>6 DEF Close, TypeOK
<1>7. CASE RemoveClient
  <2>1. <<>> \in Seq(Events)
    OBVIOUS
  <2> QED
    BY <1>7, <2>1 DEF RemoveClient, TypeOK
<1>8. CASE WakeLevel2
  BY <1>8 DEF WakeLevel2, TypeOK
<1>9. CASE Quit
  BY <1>9 DEF Quit, TypeOK
<1> QED
  BY <1>1, <1>2, <1>3, <1>4, <1>5, <1>6, <1>7, <1>8, <1>9 DEF Main

(* Every step of the threads that serve the driver keeps it.               *)
LEMMA SenderStep == DriverInv /\ (Sender \/ Reader) => DriverInv'
<1> SUFFICES ASSUME DriverInv, Sender \/ Reader PROVE DriverInv'
  OBVIOUS
<1> USE DEF DriverInv, Placed, Working, Busy, Reading, threads, flags, list, history
<1>1. CASE SenderLoop
  BY <1>1 DEF SenderLoop, TypeOK
<1>2. CASE SenderWake
  BY <1>2 DEF SenderWake, TypeOK
<1>3. CASE SenderTimeout
  BY <1>3 DEF SenderTimeout, TypeOK
<1>4. CASE SenderCount
  BY <1>4 DEF SenderCount, TypeOK
<1>5. CASE SenderPeek
  <2>1. Head(queue) \in Events
    BY <1>5, TailSet DEF SenderPeek, TypeOK
  <2> QED
    BY <1>5, <2>1 DEF SenderPeek, TypeOK
<1>6. CASE SendSucceeds
  <2>1. held \in Events /\ served \in Seq(Events)
    BY <1>6 DEF SendSucceeds, TypeOK
  <2>2. Append(served, held) \in Seq(Events) /\ held \in ToSet(Append(served, held))
    BY <2>1, AppendFacts, AppendSet
  <2> QED
    BY <1>6, <2>1, <2>2 DEF SendSucceeds, TypeOK
<1>7. CASE SendFails
  <2>1. held \in Events /\ dropped \in Seq(Events)
    BY <1>7 DEF SendFails, TypeOK
  <2>2. Append(dropped, held) \in Seq(Events) /\ held \in ToSet(Append(dropped, held))
    BY <2>1, AppendFacts, AppendSet
  <2> QED
    BY <1>7, <2>1, <2>2 DEF SendFails, TypeOK
<1>8. CASE DeleteBegin
  BY <1>8 DEF DeleteBegin, TypeOK
<1>9. CASE DeleteEnd
  <2>1. Tail(queue) \in Seq(Events)
    BY <1>9, TailSet DEF DeleteEnd, TypeOK
  <2> QED
    BY <1>9, <2>1 DEF DeleteEnd, TypeOK
<1>10. CASE Reader
  BY <1>10 DEF Reader, ReaderLoop, ReaderReceived, TypeOK
<1> QED
  BY <1>1, <1>2, <1>3, <1>4, <1>5, <1>6, <1>7, <1>8, <1>9, <1>10 DEF Sender

(* Every step of the worker keeps it: it appends behind the head.          *)
LEMMA WorkerStep == DriverInv /\ Worker => DriverInv'
<1> SUFFICES ASSUME DriverInv, Worker PROVE DriverInv'
  OBVIOUS
<1> USE DEF DriverInv, Placed, Working, Busy, Reading, threads, flags, list, history
<1>1. ASSUME NEW e \in Events, Deliver(e) PROVE DriverInv'
  BY <1>1 DEF Deliver, TypeOK
<1>2. CASE AppendBegin
  BY <1>2 DEF AppendBegin, TypeOK
<1>3. CASE AppendEnd
  <2>1. load \in Events /\ queue \in Seq(Events) /\ accepted \in Seq(Events) /\ main # "new"
    BY <1>3 DEF AppendEnd, TypeOK
  <2>2. /\ queue' \in Seq(Events) /\ accepted' \in Seq(Events)
        /\ queue # <<>> => queue' # <<>> /\ Head(queue') = Head(queue)
    <3>1. Append(accepted, load) \in Seq(Events)
      BY <2>1, AppendFacts
    <3>2. /\ Append(queue, load) \in Seq(Events)
          /\ queue # <<>> => Append(queue, load) # <<>> /\ Head(Append(queue, load)) = Head(queue)
      BY <2>1, AppendFacts
    <3> QED
      BY <1>3, <2>1, <3>1, <3>2 DEF AppendEnd
  <2> QED
    BY <1>3, <2>1, <2>2 DEF AppendEnd, TypeOK
<1> QED
  BY <1>1, <1>2, <1>3 DEF Worker

(* The invariant holds in every reachable state.                           *)
THEOREM DriverInvariant == Spec => []DriverInv
<1>1. DriverInv /\ [Next]_vars => DriverInv'
  <2>1. DriverInv /\ UNCHANGED vars => DriverInv'
    BY DEF DriverInv, TypeOK, Placed, Working, Busy, Reading, vars, threads, flags, list, history
  <2> QED
    BY <2>1, MainStep, SenderStep, WorkerStep DEF Next
<1> QED
  BY <1>1, DriverInit, PTL DEF Spec

(* Every variable keeps its type, and every thread is where its code can   *)
(* be.                                                                     *)
THEOREM TypeCorrect == Spec => []TypeOK
BY DriverInvariant, PTL DEF DriverInv

(* What the sender hands to the driver, and then deletes, is the head of   *)
(* the queue of a session that is in the list, although the sender gave    *)
(* up the mutex after it had looked.                                       *)
THEOREM HeadStaysHeld == Spec => []HeldIsHead
<1>1. DriverInv => HeldIsHead
  BY DEF DriverInv, TypeOK, Placed, Working, Busy, HeldIsHead
<1> QED
  BY <1>1, DriverInvariant, PTL

(* No thread is in a call of the driver once it has been closed.           *)
THEOREM ClosedIsLeftAlone == Spec => []NoCallAfterClose
<1>1. DriverInv => NoCallAfterClose
  BY DEF DriverInv, Placed, Busy, Reading, NoCallAfterClose
<1> QED
  BY <1>1, DriverInvariant, PTL

-----------------------------------------------------------------------------
(* One step loses no event that was accepted.                              *)
LEMMA KeptStep == DriverInv /\ DriverInv' /\ NothingVanishes /\ [Next]_vars => NothingVanishes'
<1> SUFFICES ASSUME DriverInv, DriverInv', NothingVanishes, [Next]_vars, ~raced', member'
             PROVE  ToSet(accepted)' \subseteq (ToSet(served) \cup ToSet(dropped) \cup ToSet(queue))'
  BY DEF NothingVanishes
<1> DEFINE Kept == ToSet(served) \cup ToSet(dropped) \cup ToSet(queue)
<1>1. ~raced
  BY DEF Next, Main, Sender, Reader, Worker, Quit, Attach, LoadFails, Run, StopThreads,
         JoinThreads, Close, RemoveClient, WakeLevel2, SenderLoop, SenderWake, SenderTimeout,
         SenderCount, SenderPeek, SendSucceeds, SendFails, DeleteBegin, DeleteEnd, ReaderLoop,
         ReaderReceived, Deliver, AppendBegin, AppendEnd, vars, history, DriverInv, TypeOK
<1>2. CASE Attach
  <2>1. accepted' = <<>>
    BY <1>2 DEF Attach, DriverInv, Placed, history
  <2> QED
    BY <2>1 DEF ToSet
<1>3. CASE ~Attach
  <2>1. member
    BY <1>3 DEF Next, Main, Sender, Reader, Worker, Quit, LoadFails, Run, StopThreads,
         JoinThreads, Close, RemoveClient, WakeLevel2, SenderLoop, SenderWake, SenderTimeout,
         SenderCount, SenderPeek, SendSucceeds, SendFails, DeleteBegin, DeleteEnd, ReaderLoop,
         ReaderReceived, Deliver, AppendBegin, AppendEnd, vars
  <2>2. ToSet(accepted) \subseteq Kept
    BY <1>1, <2>1 DEF NothingVanishes
  <2>3. CASE SendSucceeds
    <3>1. ToSet(served') = ToSet(served) \cup {held}
      BY <2>3, AppendSet DEF SendSucceeds, DriverInv, TypeOK, Working
    <3> QED
      BY <2>2, <2>3, <3>1 DEF SendSucceeds, list
  <2>4. CASE SendFails
    <3>1. ToSet(dropped) \subseteq ToSet(dropped')
      <4>1. held \in Events /\ dropped \in Seq(Events)
        BY <2>4 DEF SendFails, DriverInv, TypeOK, Working
      <4>2. ToSet(Append(dropped, held)) = ToSet(dropped) \cup {held}
        BY <4>1, AppendSet
      <4> QED
        BY <2>4, <4>2 DEF SendFails
    <3> QED
      BY <2>2, <2>4, <3>1 DEF SendFails, list
  <2>5. CASE DeleteEnd
    <3>1. queue \in Seq(Events) /\ queue # <<>> /\ Head(queue) \in ToSet(served) \cup ToSet(dropped)
      BY <2>5 DEF DeleteEnd, DriverInv, TypeOK, Working
    <3>2. ToSet(queue) \subseteq {Head(queue)} \cup ToSet(queue')
      BY <2>5, <3>1, TailSet DEF DeleteEnd
    <3> QED
      BY <2>2, <2>5, <3>1, <3>2 DEF DeleteEnd, history
  <2>6. CASE AppendEnd
    <3>1. load \in Events /\ queue \in Seq(Events) /\ accepted \in Seq(Events)
      BY <2>6 DEF AppendEnd, DriverInv, TypeOK, Placed
    <3>2. queue' = Append(queue, load) /\ accepted' = Append(accepted, load)
      BY <1>1, <2>6 DEF AppendEnd
    <3>3. /\ ToSet(queue') = ToSet(queue) \cup {load}
          /\ ToSet(accepted') = ToSet(accepted) \cup {load}
      BY <3>1, <3>2, AppendSet
    <3> QED
      BY <2>2, <2>6, <3>3 DEF AppendEnd
  <2>7. CASE RemoveClient
    BY <2>7 DEF RemoveClient
  <2>8. CASE ~(SendSucceeds \/ SendFails \/ DeleteEnd \/ AppendEnd \/ RemoveClient)
    <3>1. UNCHANGED <<accepted, served, dropped, queue>>
      BY <1>3, <2>8 DEF Next, Main, Sender, Reader, Worker, Quit, LoadFails, Run, StopThreads,
           JoinThreads, Close, WakeLevel2, SenderLoop, SenderWake, SenderTimeout, SenderCount,
           SenderPeek, DeleteBegin, ReaderLoop, ReaderReceived, Deliver, AppendBegin,
           vars, history, list
    <3> QED
      BY <2>2, <3>1
  <2> QED
    BY <2>3, <2>4, <2>5, <2>6, <2>7, <2>8
<1> QED
  BY <1>2, <1>3

(* As long as no append and deletion have overlapped, every event that was *)
(* accepted for the driver was sent, was refused or is still in the queue. *)
THEOREM AcceptedIsKept == Spec => []NothingVanishes
<1>1. Init => NothingVanishes
  BY DEF Init, NothingVanishes
<1> QED
  BY <1>1, KeptStep, DriverInvariant, PTL DEF Spec
-----------------------------------------------------------------------------
(* The order in which the driver is served.                                *)

(* Where a sequence has its elements, after an append and without the head.*)
LEMMA AppendAt ==
  ASSUME NEW S, NEW q \in Seq(S), NEW e \in S
  PROVE  /\ DOMAIN q = 1..Len(q) /\ Len(q) \in Nat
         /\ Append(q, e) \in Seq(S) /\ Len(Append(q, e)) = Len(q) + 1
         /\ DOMAIN Append(q, e) = 1..(Len(q) + 1)
         /\ \A i \in 1..Len(q) : Append(q, e)[i] = q[i]
         /\ Append(q, e)[Len(q) + 1] = e
OBVIOUS

LEMMA TailAt ==
  ASSUME NEW S, NEW q \in Seq(S), q # <<>>
  PROVE  /\ Len(q) \in Nat \ {0} /\ Tail(q) \in Seq(S) /\ Len(Tail(q)) = Len(q) - 1
         /\ Head(q) = q[1] /\ \A i \in 1..(Len(q) - 1) : Tail(q)[i] = q[i + 1]
OBVIOUS

(* An event is accepted once; the one on its way is not accepted yet.      *)
Once ==
  /\ \A i, j \in 1..Len(accepted) : accepted[i] = accepted[j] => i = j
  /\ worker # "idle" => load \notin ToSet(accepted)

(* The head is still in the queue while the sender deletes it.             *)
Deleting == sender \in {"delete", "deleting"}
Finished == Len(served) + Len(dropped)
Taken == IF Deleting THEN Finished - 1 ELSE Finished

(* The events finished with are the first that were accepted, and the      *)
(* queue is the rest of them.                                              *)
Ordered(at) ==
  /\ Finished <= Len(accepted)
  /\ \A i \in 1..Finished : accepted[i] \in Gone
  /\ \A e \in ToSet(dropped) : \E i \in 1..Finished : accepted[i] = e
  /\ \A k \in 1..Len(served) : at[k] \in 1..Finished /\ served[k] = accepted[at[k]]
  /\ \A k \in 1..Len(served) : served[k] \notin ToSet(dropped)
  /\ \A k, l \in 1..Len(served) : k < l => at[k] < at[l]

Waiting ==
  /\ main = "new" => queue = <<>>
  /\ member => Len(accepted) = Taken + Len(queue)
  /\ member => \A i \in 1..Len(queue) : queue[i] = accepted[Taken + i]

OrderInv == Once /\ (~raced => Waiting /\ \E at : Ordered(at))

(* Nothing but an append and a deletion changes the order.                 *)
LEMMA OrderKept ==
  ASSUME OrderInv, DriverInv, main' = "new" => main = "new", member' => member,
         UNCHANGED <<accepted, served, dropped, queue>>,
         worker' # "idle" => worker # "idle" /\ load' = load,
         Deleting' <=> Deleting, raced => raced'
  PROVE  OrderInv'
<1>1. Once'
  BY DEF OrderInv, Once
<1>2. ASSUME ~raced' PROVE Waiting' /\ \E at : Ordered(at)'
  <2>1. Waiting
    BY <1>2 DEF OrderInv
  <2>2. PICK at : Ordered(at)
    BY <1>2 DEF OrderInv
  <2>3. Ordered(at)'
    BY <2>2 DEF Ordered, Finished, Gone
  <2>4. Waiting'
    BY <2>1 DEF Waiting, Taken, Finished
  <2> QED
    BY <2>3, <2>4
<1> QED
  BY <1>1, <1>2 DEF OrderInv

(* The driver takes the head of the queue, or refuses it for good: one     *)
(* event more is finished with, and it is the next in order.               *)
LEMMA HeadIsNext ==
  ASSUME OrderInv, DriverInv, ~raced, sender = "send", NEW at, Ordered(at)
  PROVE  /\ Finished \in Nat /\ Finished + 1 <= Len(accepted) /\ held = accepted[Finished + 1]
         /\ \A i \in 1..Finished : accepted[i] # held
         /\ held \notin ToSet(dropped)
         /\ Len(accepted) = Finished + Len(queue)
         /\ \A i \in 1..Len(queue) : queue[i] = accepted[Finished + i]
<1>1. /\ accepted \in Seq(Events) /\ served \in Seq(Events) /\ dropped \in Seq(Events)
      /\ queue \in Seq(Events)
  BY DEF DriverInv, TypeOK
<1>2. queue # <<>> /\ held = Head(queue) /\ member /\ ~Deleting
  BY DEF DriverInv, Placed, Working, Busy, Deleting
<1>3. /\ Len(accepted) = Finished + Len(queue)
      /\ \A i \in 1..Len(queue) : queue[i] = accepted[Finished + i]
  BY <1>2 DEF OrderInv, Waiting, Taken
<1>4. Len(queue) \in Nat \ {0} /\ held = queue[1] /\ Len(accepted) \in Nat /\ Finished \in Nat
  BY <1>1, <1>2, TailAt DEF Finished
<1>5. Finished + 1 <= Len(accepted) /\ held = accepted[Finished + 1]
  BY <1>3, <1>4
<1>6. \A i \in 1..Finished : accepted[i] # held
  BY <1>4, <1>5 DEF OrderInv, Once
<1> QED
  BY <1>3, <1>4, <1>5, <1>6 DEF Ordered

LEMMA OrderSend == OrderInv /\ DriverInv /\ SendSucceeds => OrderInv'
<1> SUFFICES ASSUME OrderInv, DriverInv, SendSucceeds PROVE OrderInv'
  OBVIOUS
<1>1. /\ served' = Append(served, held) /\ sender = "send" /\ sender' = "delete"
      /\ UNCHANGED <<main, member, queue, worker, load, accepted, dropped, raced>>
  BY DEF SendSucceeds, list
<1>2. Once'
  BY <1>1 DEF OrderInv, Once
<1>3. ASSUME ~raced PROVE Waiting' /\ \E at : Ordered(at)'
  <2>1. PICK at : Ordered(at)
    BY <1>3 DEF OrderInv
  <2>2. /\ Finished \in Nat /\ Finished + 1 <= Len(accepted) /\ held = accepted[Finished + 1]
        /\ \A i \in 1..Finished : accepted[i] # held
        /\ held \notin ToSet(dropped)
        /\ Len(accepted) = Finished + Len(queue)
        /\ \A i \in 1..Len(queue) : queue[i] = accepted[Finished + i]
    BY <1>1, <1>3, <2>1, HeadIsNext
  <2>3. held \in Events /\ served \in Seq(Events) /\ dropped \in Seq(Events)
    BY <1>1 DEF DriverInv, TypeOK, Working
  <2>4. /\ Len(served) \in Nat /\ Len(dropped) \in Nat /\ Len(served') = Len(served) + 1
        /\ \A i \in 1..Len(served) : served'[i] = served[i]
        /\ served'[Len(served) + 1] = held
        /\ ToSet(served') = ToSet(served) \cup {held}
    BY <1>1, <2>3, AppendAt, AppendSet
  <2>5. Finished' = Finished + 1
    BY <1>1, <2>4 DEF Finished
  <2>6. Waiting'
    <3>1. main # "new"
      BY <1>1 DEF DriverInv, Placed, Busy
    <3>2. Taken' = Finished
      BY <1>1, <2>2, <2>5 DEF Taken, Deleting
    <3> QED
      BY <1>1, <2>2, <3>1, <3>2 DEF Waiting
  <2> DEFINE longer == [k \in 1..(Len(served) + 1) |-> IF k = Len(served) + 1 THEN Finished + 1 ELSE at[k]]
  <2>20. PICK to : to = longer
    OBVIOUS
  <2>7. /\ \A k \in 1..Len(served) : to[k] = at[k] /\ at[k] \in 1..Finished
        /\ to[Len(served) + 1] = Finished + 1
        /\ \A k \in 1..(Len(served) + 1) : k \in 1..Len(served) \/ k = Len(served) + 1
    BY <2>1, <2>4, <2>20 DEF Ordered
  <2>8. \A i \in 1..(Finished + 1) : i \in 1..Finished \/ i = Finished + 1
    BY <2>2
  <2>9. 1..Finished \subseteq 1..(Finished + 1) /\ Finished + 1 \in 1..(Finished + 1)
    BY <2>2
  <2>10. \A i \in 1..(Finished + 1) : accepted[i] \in ToSet(served') \cup ToSet(dropped)
    BY <2>1, <2>2, <2>4, <2>8 DEF Ordered, Gone
  <2>11. \A e \in ToSet(dropped) : \E i \in 1..(Finished + 1) : accepted[i] = e
    BY <2>1, <2>9 DEF Ordered
  <2>12. \A k \in 1..(Len(served) + 1) : /\ to[k] \in 1..(Finished + 1)
                                        /\ served'[k] = accepted[to[k]]
                                        /\ served'[k] \notin ToSet(dropped)
    BY <2>1, <2>2, <2>4, <2>7, <2>9 DEF Ordered
  <2>13. \A k, l \in 1..(Len(served) + 1) : k < l => to[k] < to[l]
    <3>1. SUFFICES ASSUME NEW k \in 1..(Len(served) + 1), NEW l \in 1..(Len(served) + 1), k < l
                   PROVE  to[k] < to[l]
      OBVIOUS
    <3>2. k \in 1..Len(served)
      BY <2>4, <3>1
    <3>3. CASE l \in 1..Len(served)
      BY <2>1, <2>7, <3>1, <3>2, <3>3 DEF Ordered
    <3>4. CASE l = Len(served) + 1
      BY <2>2, <2>7, <3>2, <3>4
    <3> QED
      BY <2>7, <3>3, <3>4
  <2>14. Ordered(to)'
    <3>1. Gone' = ToSet(served') \cup ToSet(dropped) /\ dropped' = dropped /\ accepted' = accepted
      BY <1>1 DEF Gone
    <3>2. Finished' <= Len(accepted') /\ \A i \in 1..Finished' : accepted'[i] \in Gone'
      BY <2>2, <2>5, <2>10, <3>1
    <3>3. \A e \in ToSet(dropped') : \E i \in 1..Finished' : accepted'[i] = e
      BY <2>5, <2>11, <3>1
    <3>4. /\ \A k \in 1..Len(served') : to[k] \in 1..Finished' /\ served'[k] = accepted'[to[k]]
          /\ \A k \in 1..Len(served') : served'[k] \notin ToSet(dropped')
          /\ \A k, l \in 1..Len(served') : k < l => to[k] < to[l]
      BY <2>4, <2>5, <2>12, <2>13, <3>1
    <3> QED
      BY <3>2, <3>3, <3>4 DEF Ordered
  <2> QED
    BY <2>6, <2>14
<1> QED
  BY <1>1, <1>2, <1>3 DEF OrderInv

LEMMA OrderRefused == OrderInv /\ DriverInv /\ SendFails => OrderInv'
<1> SUFFICES ASSUME OrderInv, DriverInv, SendFails PROVE OrderInv'
  OBVIOUS
<1>1. /\ sender = "send"
      /\ UNCHANGED <<main, member, queue, worker, load, accepted, served, raced>>
  BY DEF SendFails, list
<1>2. CASE mode # "polled"
  <2>1. sender' = "loop" /\ dropped' = dropped
    BY <1>2 DEF SendFails
  <2> QED
    BY <1>1, <2>1, OrderKept DEF Deleting
<1>3. CASE mode = "polled"
  <2>1. sender' = "delete" /\ dropped' = Append(dropped, held)
    BY <1>3 DEF SendFails
  <2>2. Once'
    BY <1>1 DEF OrderInv, Once
  <2>3. ASSUME ~raced PROVE Waiting' /\ \E at : Ordered(at)'
    <3>1. PICK at : Ordered(at)
      BY <2>3 DEF OrderInv
    <3>2. /\ Finished \in Nat /\ Finished + 1 <= Len(accepted) /\ held = accepted[Finished + 1]
          /\ \A i \in 1..Finished : accepted[i] # held
          /\ Len(accepted) = Finished + Len(queue)
          /\ \A i \in 1..Len(queue) : queue[i] = accepted[Finished + i]
      BY <1>1, <2>3, <3>1, HeadIsNext
    <3>3. held \in Events /\ served \in Seq(Events) /\ dropped \in Seq(Events)
      BY <1>1 DEF DriverInv, TypeOK, Working
    <3>4. /\ Len(served) \in Nat /\ Len(dropped) \in Nat /\ Len(dropped') = Len(dropped) + 1
          /\ ToSet(dropped') = ToSet(dropped) \cup {held}
      BY <2>1, <3>3, AppendAt, AppendSet
    <3>5. Finished' = Finished + 1
      BY <1>1, <3>4 DEF Finished
    <3>6. Waiting'
      <4>1. main # "new"
        BY <1>1 DEF DriverInv, Placed, Busy
      <4>2. Taken' = Finished
        BY <2>1, <3>2, <3>5 DEF Taken, Deleting
      <4> QED
        BY <1>1, <3>2, <4>1, <4>2 DEF Waiting
    <3>7. /\ \A i \in 1..(Finished + 1) : i \in 1..Finished \/ i = Finished + 1
          /\ 1..Finished \subseteq 1..(Finished + 1) /\ Finished + 1 \in 1..(Finished + 1)
      BY <3>2
    <3>8. /\ Gone' = ToSet(served) \cup ToSet(dropped') /\ served' = served
          /\ accepted' = accepted
      BY <1>1 DEF Gone
    <3>9. Finished' <= Len(accepted') /\ \A i \in 1..Finished' : accepted'[i] \in Gone'
      BY <3>1, <3>2, <3>4, <3>5, <3>7, <3>8 DEF Ordered, Gone
    <3>10. \A e \in ToSet(dropped') : \E i \in 1..Finished' : accepted'[i] = e
      BY <3>1, <3>2, <3>4, <3>5, <3>7, <3>8 DEF Ordered
    <3>11. /\ \A k \in 1..Len(served') : at[k] \in 1..Finished' /\ served'[k] = accepted'[at[k]]
           /\ \A k, l \in 1..Len(served') : k < l => at[k] < at[l]
      BY <3>1, <3>5, <3>7, <3>8 DEF Ordered
    <3>12. \A k \in 1..Len(served') : served'[k] \notin ToSet(dropped')
      BY <3>1, <3>2, <3>4, <3>8 DEF Ordered
    <3>13. Ordered(at)'
      BY <3>9, <3>10, <3>11, <3>12 DEF Ordered
    <3> QED
      BY <3>6, <3>13
  <2> QED
    BY <1>1, <2>2, <2>3 DEF OrderInv
<1> QED
  BY <1>2, <1>3

(* What was finished with leaves the queue.                                *)
LEMMA OrderDelete == OrderInv /\ DriverInv /\ DeleteEnd => OrderInv'
<1> SUFFICES ASSUME OrderInv, DriverInv, DeleteEnd PROVE OrderInv'
  OBVIOUS
<1>1. /\ sender = "deleting" /\ sender' = "loop" /\ queue' = Tail(queue)
      /\ UNCHANGED <<main, member, worker, load, accepted, served, dropped, raced>>
  BY DEF DeleteEnd, history
<1>2. /\ queue \in Seq(Events) /\ queue # <<>> /\ main # "new"
      /\ Len(served) \in Nat /\ Len(dropped) \in Nat
  BY <1>1 DEF DriverInv, TypeOK, Placed, Working, Busy
<1>3. Once'
  BY <1>1 DEF OrderInv, Once
<1>4. ASSUME ~raced PROVE Waiting' /\ \E at : Ordered(at)'
  <2>1. PICK at : Ordered(at)
    BY <1>4 DEF OrderInv
  <2>2. Ordered(at)'
    BY <1>1, <2>1 DEF Ordered, Finished, Gone
  <2>3. Taken' = Taken + 1 /\ Taken \in Int
    BY <1>1, <1>2 DEF Taken, Deleting, Finished
  <2>4. /\ Len(queue) \in Nat \ {0} /\ Len(queue') = Len(queue) - 1
        /\ \A i \in 1..(Len(queue) - 1) : queue'[i] = queue[i + 1]
    BY <1>1, <1>2, TailAt
  <2>5. member' => Len(accepted') = Taken' + Len(queue')
    BY <1>1, <1>4, <2>3, <2>4 DEF OrderInv, Waiting
  <2>6. ASSUME member', NEW i \in 1..Len(queue') PROVE queue'[i] = accepted'[Taken' + i]
    <3>1. i + 1 \in 1..Len(queue) /\ i \in 1..(Len(queue) - 1) /\ Taken + (i + 1) = Taken' + i
      BY <2>3, <2>4
    <3>2. queue[i + 1] = accepted[Taken + (i + 1)]
      BY <1>1, <1>4, <2>6, <3>1 DEF OrderInv, Waiting
    <3> QED
      BY <1>1, <2>4, <3>1, <3>2
  <2>7. Waiting'
    BY <1>1, <1>2, <2>5, <2>6 DEF Waiting
  <2> QED
    BY <2>2, <2>7
<1> QED
  BY <1>1, <1>3, <1>4 DEF OrderInv

(* A new event goes behind all the others, here and there.                 *)
LEMMA OrderAppend == OrderInv /\ DriverInv /\ AppendEnd => OrderInv'
<1> SUFFICES ASSUME OrderInv, DriverInv, AppendEnd PROVE OrderInv'
  OBVIOUS
<1>1. /\ worker = "append" /\ worker' = "idle" /\ accepted' = Append(accepted, load)
      /\ ~raced => queue' = Append(queue, load)
      /\ UNCHANGED <<main, sender, member, served, dropped, raced>>
  BY DEF AppendEnd, threads
<1>2. /\ load \in Events /\ accepted \in Seq(Events) /\ queue \in Seq(Events)
      /\ Len(served) \in Nat /\ Len(dropped) \in Nat /\ main # "new"
      /\ load \notin ToSet(accepted)
  BY <1>1 DEF DriverInv, TypeOK, Placed, OrderInv, Once
<1>3. /\ Len(accepted) \in Nat /\ Len(accepted') = Len(accepted) + 1
      /\ \A i \in 1..Len(accepted) : accepted'[i] = accepted[i] /\ accepted[i] # load
      /\ accepted'[Len(accepted) + 1] = load
      /\ \A i \in 1..Len(accepted') : i \in 1..Len(accepted) \/ i = Len(accepted) + 1
  BY <1>1, <1>2, AppendAt DEF ToSet
<1>4. Once'
  <2>1. \A i, j \in 1..Len(accepted') : accepted'[i] = accepted'[j] => i = j
    BY <1>3 DEF OrderInv, Once
  <2> QED
    BY <1>1, <2>1 DEF Once
<1>5. ASSUME ~raced PROVE Waiting' /\ \E at : Ordered(at)'
  <2>1. PICK at : Ordered(at)
    BY <1>5 DEF OrderInv
  <2>2. /\ Len(queue) \in Nat /\ Len(queue') = Len(queue) + 1
        /\ \A i \in 1..Len(queue) : queue'[i] = queue[i]
        /\ queue'[Len(queue) + 1] = load
    <3>1. queue' = Append(queue, load)
      BY <1>1, <1>5
    <3> QED
      BY <1>2, <3>1, AppendAt
  <2>3. /\ Finished' = Finished /\ Taken' = Taken /\ Gone' = Gone
        /\ Finished \in Nat /\ Taken \in Int /\ Finished <= Len(accepted)
    BY <1>1, <1>2, <2>1 DEF Finished, Taken, Gone, Deleting, Ordered
  <2>4. \A i \in 1..Finished : i \in 1..Len(accepted) /\ accepted'[i] = accepted[i]
    BY <1>3, <2>3
  <2>5. Ordered(at)'
    <3>1. Finished' <= Len(accepted') /\ \A i \in 1..Finished' : accepted'[i] \in Gone'
      BY <1>3, <2>1, <2>3, <2>4 DEF Ordered
    <3>2. \A e \in ToSet(dropped') : \E i \in 1..Finished' : accepted'[i] = e
      BY <1>1, <2>1, <2>3, <2>4 DEF Ordered
    <3>3. /\ \A k \in 1..Len(served') : at[k] \in 1..Finished' /\ served'[k] = accepted'[at[k]]
          /\ \A k \in 1..Len(served') : served'[k] \notin ToSet(dropped')
          /\ \A k, l \in 1..Len(served') : k < l => at[k] < at[l]
      BY <1>1, <2>1, <2>3, <2>4 DEF Ordered
    <3> QED
      BY <3>1, <3>2, <3>3 DEF Ordered
  <2>6. Len(accepted) = Taken + Len(queue) /\ member
    BY <1>1, <1>5 DEF OrderInv, Waiting, DriverInv, Placed
  <2>7. ASSUME NEW i \in 1..Len(queue') PROVE queue'[i] = accepted'[Taken' + i]
    <3>1. CASE i \in 1..Len(queue)
      <4>1. queue'[i] = accepted[Taken + i]
        BY <1>5, <2>2, <2>6, <3>1 DEF OrderInv, Waiting
      <4>2. Taken + i \in 1..Len(accepted)
        <5>1. Taken >= 0
          BY <1>1, <1>2, <2>3 DEF Taken, Finished, Deleting, DriverInv, Working, TypeOK, ToSet
        <5> QED
          BY <1>3, <2>2, <2>3, <2>6, <3>1, <5>1
      <4> QED
        BY <1>3, <2>3, <4>1, <4>2
    <3>2. CASE i = Len(queue) + 1
      <4>1. Taken + i = Len(accepted) + 1
        BY <2>2, <2>3, <2>6, <3>2
      <4> QED
        BY <1>3, <2>2, <2>3, <3>2, <4>1
    <3>3. i \in 1..Len(queue) \/ i = Len(queue) + 1
      BY <2>2
    <3> QED
      BY <3>1, <3>2, <3>3
  <2>8. Waiting'
    <3>1. Len(accepted') = Taken' + Len(queue')
      BY <1>3, <2>2, <2>3, <2>6
    <3> QED
      BY <1>1, <1>2, <2>7, <3>1 DEF Waiting
  <2> QED
    BY <2>5, <2>8
<1> QED
  BY <1>1, <1>4, <1>5 DEF OrderInv

(* Every step keeps the order.                                             *)
LEMMA OrderStep == OrderInv /\ DriverInv /\ [Next]_vars => OrderInv'
<1> SUFFICES ASSUME OrderInv, DriverInv, [Next]_vars PROVE OrderInv'
  OBVIOUS
<1> USE DEF threads, flags, list, history, Deleting
<1>1. CASE \/ LoadFails \/ StopThreads \/ JoinThreads \/ Close \/ WakeLevel2 \/ Quit
           \/ UNCHANGED vars
  BY <1>1, OrderKept DEF LoadFails, StopThreads, JoinThreads, Close, WakeLevel2, Quit, vars
<1>7. CASE Run
  <2>1. ~Deleting /\ ~Deleting'
    BY <1>7 DEF Run, DriverInv, Placed
  <2> QED
    BY <1>7, <2>1, OrderKept DEF Run
<1>2. CASE \/ SenderLoop \/ SenderWake \/ SenderTimeout \/ SenderCount \/ SenderPeek \/ Reader
  BY <1>2, OrderKept DEF SenderLoop, SenderWake, SenderTimeout, SenderCount, SenderPeek,
     Reader, ReaderLoop, ReaderReceived
<1>8. CASE DeleteBegin
  BY <1>8, OrderKept DEF DeleteBegin
<1>3. CASE AppendBegin
  BY <1>3, OrderKept DEF AppendBegin
<1>4. ASSUME NEW e \in Events, Deliver(e) PROVE OrderInv'
  <2>1. Once'
    BY <1>4 DEF Deliver, OrderInv, Once
  <2>2. ASSUME ~raced PROVE Waiting' /\ \E at : Ordered(at)'
    <3>1. PICK at : Ordered(at)
      BY <2>2 DEF OrderInv
    <3>2. Ordered(at)'
      BY <1>4, <3>1 DEF Deliver, Ordered, Finished, Gone
    <3>3. Waiting'
      BY <1>4, <2>2 DEF Deliver, OrderInv, Waiting, Taken, Finished
    <3> QED
      BY <3>2, <3>3
  <2> QED
    BY <1>4, <2>1, <2>2 DEF Deliver, OrderInv
<1>5. CASE Attach
  <2>1. (accepted = <<>> /\ queue = <<>>) \/ raced
    BY <1>5 DEF Attach, OrderInv, Waiting, DriverInv, Placed
  <2>2. Once'
    BY <1>5 DEF Attach, OrderInv, Once
  <2>3. ASSUME ~raced PROVE Waiting' /\ \E at : Ordered(at)'
    <3>1. PICK at : Ordered(at)
      BY <2>3 DEF OrderInv
    <3>2. Ordered(at)'
      BY <1>5, <3>1 DEF Attach, Ordered, Finished, Gone
    <3>3. Len(accepted) = 0 /\ Len(queue) = 0 /\ Len(served) \in Nat /\ Len(dropped) \in Nat
      BY <2>1, <2>3 DEF DriverInv, TypeOK
    <3>4. Finished = 0 /\ ~Deleting
      BY <1>5, <3>1, <3>3 DEF Ordered, Finished, Attach, DriverInv, Placed
    <3>5. Taken' = 0
      BY <1>5, <3>4 DEF Attach, Taken, Finished
    <3>6. Waiting'
      BY <1>5, <3>3, <3>5 DEF Attach, Waiting
    <3> QED
      BY <3>2, <3>6
  <2> QED
    BY <1>5, <2>2, <2>3 DEF Attach, OrderInv
<1>6. CASE RemoveClient
  <2>1. Once'
    BY <1>6 DEF RemoveClient, OrderInv, Once
  <2>2. ASSUME ~raced PROVE Waiting' /\ \E at : Ordered(at)'
    <3>1. PICK at : Ordered(at)
      BY <2>2 DEF OrderInv
    <3>2. Ordered(at)'
      BY <1>6, <3>1 DEF RemoveClient, Ordered, Finished, Gone
    <3>3. Waiting'
      BY <1>6 DEF RemoveClient, Waiting
    <3> QED
      BY <3>2, <3>3
  <2> QED
    BY <1>6, <2>1, <2>2 DEF RemoveClient, OrderInv
<1> QED
  BY <1>1, <1>2, <1>3, <1>4, <1>5, <1>6, <1>7, <1>8, OrderSend, OrderRefused, OrderDelete, OrderAppend
     DEF Next, Main, Sender, Worker

LEMMA OrderInit == Init => OrderInv
<1> SUFFICES ASSUME Init PROVE OrderInv
  OBVIOUS
<1>1. /\ accepted = <<>> /\ served = <<>> /\ dropped = <<>> /\ queue = <<>>
      /\ worker = "idle" /\ ~member
  BY DEF Init
<1>2. Len(<<>>) = 0 /\ ToSet(<<>>) = {}
  BY DEF ToSet
<1>3. Once /\ Waiting
  BY <1>1, <1>2 DEF Once, Waiting
<1>4. Finished = 0
  BY <1>1, <1>2 DEF Finished
<1>5. Ordered(<<>>)
  BY <1>1, <1>2, <1>4 DEF Ordered
<1> QED
  BY <1>3, <1>5 DEF OrderInv

(* As long as no append and deletion have overlapped, the driver gets what *)
(* was accepted for it in that order, each event once, and skips only what *)
(* it refused: whatever the two threads do between the look at the head    *)
(* and its deletion, and through every stop.                               *)
THEOREM OrderIsKept == Spec => []ServedInOrder
<1>1. OrderInv /\ DriverInv => ServedInOrder
  <2> SUFFICES ASSUME OrderInv, DriverInv, ~raced
               PROVE  \E at \in [DOMAIN served -> DOMAIN accepted] : ServedFrom(at)
    BY DEF ServedInOrder
  <2>1. PICK at : Ordered(at)
    BY DEF OrderInv
  <2>2. /\ DOMAIN served = 1..Len(served) /\ DOMAIN accepted = 1..Len(accepted)
        /\ Len(served) \in Nat /\ Len(accepted) \in Nat /\ Len(dropped) \in Nat
    BY DEF DriverInv, TypeOK
  <2>3. Finished \in Nat /\ Finished <= Len(accepted)
    BY <2>1, <2>2 DEF Finished, Ordered
  <2>4. 1..Finished \subseteq 1..Len(accepted)
    BY <2>2, <2>3
  <2> DEFINE to == [k \in DOMAIN served |-> at[k]]
  <2>5. \A k \in 1..Len(served) : to[k] = at[k] /\ at[k] \in 1..Finished
    BY <2>1, <2>2 DEF Ordered
  <2>6. to \in [DOMAIN served -> DOMAIN accepted]
    BY <2>2, <2>4, <2>5
  <2> HIDE DEF to
  <2>7. \A k \in 1..Len(served) : \A i \in 1..to[k] : i \in 1..Finished
    BY <2>3, <2>5
  <2>8. ServedFrom(to)
    BY <2>1, <2>2, <2>5, <2>7 DEF Ordered, ServedFrom
  <2> QED
    BY <2>6, <2>8
<1> QED
  BY <1>1, OrderInit, OrderStep, DriverInvariant, PTL DEF Spec
=============================================================================

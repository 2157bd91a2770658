---------------------------- MODULE DaemonProofs ----------------------------
(***************************************************************************)
(* Theorems about Daemon, for any configuration and any finite set of      *)
(* connections.                                                            *)
(*                                                                         *)
(* Placed says which of the states each kind of thread can be in, Unstarted*)
(* that init starts a thread only once, Listed how the list of the listen  *)
(* thread stands to the sessions, Entered how the client list does.        *)
(***************************************************************************)
EXTENDS Daemon, SequenceTheorems, TLAPS

Elements(q) == {q[i] : i \in 1..Len(q)}
OneEach(q) == \A i, j \in DOMAIN q : q[i] = q[j] => i = j
InList == Elements(tcpclients)

ListenStates == {"absent", "new", "accept", "append", "load", "store", "run", "exit", "wait",
                 "ended"}
ServiceStates == {"absent", "new", "added", "loop", "level2", "recvfrom", "hung", "ended"}
SessionStates == {"absent", "new", "welcome", "text", "rcvloop", "binary", "relock", "hung",
                  "leave", "load", "store", "flag", "return", "ended"}

(* Every thread is where its own code can be.                              *)
Placed ==
  /\ at["worker"] \in {"absent", "loop", "hung", "ended"}
  /\ at["listen"] \in ListenStates
  /\ \A s \in Services : at[s] \in ServiceStates /\ (at[s] = "level2" => s = "device")
  /\ \A c \in Conns : at[c] \in SessionStates

(* What init has yet to start has not been started, and what cleanup joins *)
(* was turned on.                                                          *)
Unstarted ==
  /\ main.at = "init" => \A k \in main.i..6 : Fixed[k] \in Running => at[Fixed[k]] = "absent"
  /\ main.at = "join" => main.i \in 1..6 /\ StopOrder[main.i] \in Running
  /\ main.at = "wait" => main.c \in Conns

(* Every session that runs is in the list, unless the list has lost it;    *)
(* what is in the list has been made, but for the one that is about to be. *)
Listed ==
  /\ accepted \in Conns <=> at["listen"] \in {"append", "load", "store", "run"}
  /\ accepted \in Conns => at[accepted] = "absent"
  /\ at["listen"] \in {"load", "store", "run"} => accepted \in lost \cup InList
  /\ \A c \in InList : at[c] = "absent" => c = accepted /\ at["listen"] # "append"
  /\ \A c \in Conns : at[c] \in {"absent", "ended"} \/ c \in lost \cup InList
  /\ at["listen"] = "ended" => tcpclients = <<>>

(* A thread has its entry while it works, not before, and not after unless *)
(* it gave up.                                                             *)
Entered ==
  /\ \A t \in Services \cup Conns :
       at[t] \in {"added", "loop", "level2", "recvfrom", "welcome", "text", "rcvloop", "binary",
                  "relock", "hung", "leave"} => t \in clients
  /\ \A t \in clients \ {"main"} :
       /\ t \in Services \cup Conns
       /\ at[t] \notin {"absent", "new", "load", "store", "flag", "return"}
       /\ at[t] = "ended" => t \in failed
  /\ main.at \in {"stop", "join", "done"} => "main" \notin clients

(* What has been freed has ended.                                          *)
Freed == \A t \in deleted : at[t] = "ended"

(* TypeOK in its parts.                                                    *)
States == {"absent", "new", "added", "loop", "level2", "recvfrom", "accept", "append", "load",
           "store", "run", "exit", "wait", "welcome", "text", "rcvloop", "binary", "relock",
           "hung", "leave", "flag", "return", "ended"}
FlagsOK == /\ quitting \in BOOLEAN /\ seized \in BOOLEAN
           /\ shaken \in BOOLEAN /\ astray \in BOOLEAN
MainOK == main \in [at: {"init", "loop", "wait", "hung", "stop", "join", "done"}, i: 1..7,
                    c: Conns \cup {"none"}]
AtOK == at \in [Threads -> States]
QuitOK == quit \in [Threads -> BOOLEAN]
SetsOK == /\ deleted \subseteq Threads /\ failed \subseteq Services /\ lost \subseteq Conns
          /\ clients \subseteq Threads \cup {"main"} /\ accepted \in Conns \cup {"none"}
PeerOK == peer \in [Conns -> {"none", "up", "down"}]
CountOK == count \in Int /\ loaded \in [Conns \cup {"listen"} -> Int]
ListOK == tcpclients \in Seq(Conns) /\ OneEach(tcpclients)
Types == FlagsOK /\ MainOK /\ AtOK /\ QuitOK /\ SetsOK /\ PeerOK /\ CountOK /\ ListOK

LifeInv == Types /\ Placed /\ Unstarted /\ Listed /\ Entered /\ Freed

-----------------------------------------------------------------------------
(* The list of the sessions.                                               *)

(* Appending what is not there.                                            *)
LEMMA AppendList ==
  ASSUME NEW S, NEW q \in Seq(S), NEW c \in S, OneEach(q), c \notin Elements(q)
  PROVE  /\ Append(q, c) \in Seq(S) /\ OneEach(Append(q, c))
         /\ Elements(Append(q, c)) = Elements(q) \cup {c}
<1>1. /\ Len(q) \in Nat /\ DOMAIN q = 1..Len(q)
      /\ Len(Append(q, c)) = Len(q) + 1 /\ DOMAIN Append(q, c) = 1..(Len(q) + 1)
      /\ Append(q, c) \in Seq(S)
  OBVIOUS
<1>2. /\ \A i \in 1..Len(q) : Append(q, c)[i] = q[i]
      /\ Append(q, c)[Len(q) + 1] = c
  OBVIOUS
<1>3. OneEach(Append(q, c))
  <2> SUFFICES ASSUME NEW i \in 1..(Len(q) + 1), NEW j \in 1..(Len(q) + 1),
                      Append(q, c)[i] = Append(q, c)[j]
               PROVE  i = j
    BY <1>1 DEF OneEach
  <2>1. CASE i \in 1..Len(q) /\ j \in 1..Len(q)
    BY <1>1, <1>2, <2>1 DEF OneEach
  <2>2. CASE i = Len(q) + 1 /\ j \in 1..Len(q)
    BY <1>2, <2>2 DEF Elements
  <2>3. CASE i \in 1..Len(q) /\ j = Len(q) + 1
    BY <1>2, <2>3 DEF Elements
  <2> QED
    BY <1>1, <2>1, <2>2, <2>3
<1>4. Elements(Append(q, c)) \subseteq Elements(q) \cup {c}
  <2> SUFFICES ASSUME NEW i \in 1..(Len(q) + 1) PROVE Append(q, c)[i] \in Elements(q) \cup {c}
    BY <1>1 DEF Elements
  <2>1. i \in 1..Len(q) \/ i = Len(q) + 1
    BY <1>1
  <2> QED
    BY <1>2, <2>1 DEF Elements
<1>5. Elements(q) \cup {c} \subseteq Elements(Append(q, c))
  <2>1. c \in Elements(Append(q, c))
    <3>1. Len(q) + 1 \in 1..Len(Append(q, c))
      BY <1>1
    <3> QED
      BY <1>2, <3>1 DEF Elements
  <2>2. ASSUME NEW i \in 1..Len(q) PROVE q[i] \in Elements(Append(q, c))
    <3>1. i \in 1..Len(Append(q, c))
      BY <1>1
    <3> QED
      BY <1>2, <3>1 DEF Elements
  <2> QED
    BY <2>1, <2>2 DEF Elements
<1> QED
  BY <1>1, <1>3, <1>4, <1>5

(* Taking the first away.                                                  *)
LEMMA TailList ==
  ASSUME NEW S, NEW q \in Seq(S), q # <<>>, OneEach(q)
  PROVE  /\ Head(q) \in S /\ Head(q) \in Elements(q)
         /\ Tail(q) \in Seq(S) /\ OneEach(Tail(q))
         /\ Elements(Tail(q)) \subseteq Elements(q)
         /\ Elements(q) \subseteq Elements(Tail(q)) \cup {Head(q)}
<1>1. Len(q) \in Nat \ {0} /\ DOMAIN q = 1..Len(q)
  OBVIOUS
<1>2. Tail(q) \in Seq(S) /\ Len(Tail(q)) = Len(q) - 1 /\ DOMAIN Tail(q) = 1..(Len(q) - 1)
  OBVIOUS
<1>3. \A i \in 1..(Len(q) - 1) : Tail(q)[i] = q[i + 1]
  OBVIOUS
<1>4. Head(q) = q[1] /\ Head(q) \in S
  OBVIOUS
<1>5. ASSUME NEW i \in 1..Len(q), i # 1 PROVE q[i] \in Elements(Tail(q))
  <2>1. i - 1 \in 1..(Len(q) - 1) /\ (i - 1) + 1 = i
    BY <1>1, <1>5
  <2>2. Tail(q)[i - 1] = q[i]
    BY <1>3, <2>1
  <2> QED
    BY <1>2, <2>1, <2>2 DEF Elements
<1>6. OneEach(Tail(q))
  <2> SUFFICES ASSUME NEW i \in 1..(Len(q) - 1), NEW j \in 1..(Len(q) - 1),
                      Tail(q)[i] = Tail(q)[j]
               PROVE  i = j
    BY <1>2 DEF OneEach
  <2>1. q[i + 1] = q[j + 1] /\ i + 1 \in DOMAIN q /\ j + 1 \in DOMAIN q
    BY <1>1, <1>3
  <2>2. i + 1 = j + 1
    BY <2>1 DEF OneEach
  <2> QED
    BY <2>2
<1>7. ASSUME NEW i \in 1..(Len(q) - 1) PROVE Tail(q)[i] \in Elements(q)
  <2>1. i + 1 \in 1..Len(q)
    BY <1>1
  <2> QED
    BY <1>3, <2>1 DEF Elements
<1>8. Elements(Tail(q)) \subseteq Elements(q)
  BY <1>2, <1>7 DEF Elements
<1>9. Elements(q) \subseteq Elements(Tail(q)) \cup {Head(q)}
  BY <1>4, <1>5 DEF Elements
<1>10. Head(q) \in Elements(q)
  BY <1>1, <1>4 DEF Elements
<1> QED
  BY <1>2, <1>4, <1>6, <1>8, <1>9, <1>10

(* What follows a place in a sequence.                                     *)
LEMMA SubTail ==
  ASSUME NEW S, NEW q \in Seq(S), NEW k \in 1..Len(q)
  PROVE  /\ SubSeq(q, k + 1, Len(q)) \in Seq(S)
         /\ Len(SubSeq(q, k + 1, Len(q))) = Len(q) - k
         /\ \A i \in 1..(Len(q) - k) : SubSeq(q, k + 1, Len(q))[i] = q[k + i]
<1>1. Len(q) \in Nat /\ k + 1 \in Int /\ Len(q) \in Int
  OBVIOUS
<1>2. \A i \in (k + 1)..Len(q) : q[i] \in S
  BY <1>1
<1> DEFINE b == SubSeq(q, k + 1, Len(q))
<1>3. /\ b \in Seq(S)
      /\ Len(b) = IF k + 1 <= Len(q) THEN Len(q) - (k + 1) + 1 ELSE 0
      /\ \A i \in 1..(Len(q) - (k + 1) + 1) : b[i] = q[(k + 1) + i - 1]
  BY <1>1, <1>2, SubSeqProperties
<1> HIDE DEF b
<1>4. Len(b) = Len(q) - k
  BY <1>1, <1>3
<1>5. ASSUME NEW i \in 1..(Len(q) - k) PROVE b[i] = q[k + i]
  <2>1. i \in 1..(Len(q) - (k + 1) + 1) /\ (k + 1) + i - 1 = k + i
    BY <1>1
  <2> QED
    BY <1>3, <2>1
<1> QED
  BY <1>3, <1>4, <1>5 DEF b

(* Taking one away, wherever it is.                                        *)
LEMMA WithoutList ==
  ASSUME NEW S, NEW q \in Seq(S), NEW c, OneEach(q)
  PROVE  /\ Without(q, c) \in Seq(S) /\ OneEach(Without(q, c))
         /\ Elements(Without(q, c)) \subseteq Elements(q)
         /\ Elements(q) \subseteq Elements(Without(q, c)) \cup {c}
         /\ q = <<>> => Without(q, c) = <<>>
<1>1. Len(q) \in Nat /\ DOMAIN q = 1..Len(q)
  OBVIOUS
<1>2. CASE ~\E i \in 1..Len(q) : q[i] = c
  <2>1. Without(q, c) = q
    BY <1>2 DEF Without
  <2> QED
    BY <2>1
<1>3. CASE \E i \in 1..Len(q) : q[i] = c
  <2> DEFINE k == CHOOSE i \in 1..Len(q) : q[i] = c
             a == SubSeq(q, 1, k - 1)
             b == SubSeq(q, k + 1, Len(q))
  <2>1. k \in 1..Len(q) /\ q[k] = c
    BY <1>3
  <2>2. Without(q, c) = a \o b
    BY <1>3 DEF Without
  <2> HIDE DEF k
  <2>3. a \in Seq(S) /\ Len(a) = k - 1 /\ \A i \in 1..(k - 1) : a[i] = q[i]
    BY <1>1, <2>1
  <2>4. b \in Seq(S) /\ Len(b) = Len(q) - k /\ \A i \in 1..(Len(q) - k) : b[i] = q[k + i]
    BY <2>1, SubTail
  <2> HIDE DEF a, b
  <2> DEFINE w == a \o b
  <2>5. w \in Seq(S) /\ Len(w) = Len(q) - 1
    <3>1. w \in Seq(S) /\ Len(w) = Len(a) + Len(b)
      BY <2>3, <2>4, ConcatProperties
    <3> QED
      BY <1>1, <2>1, <2>3, <2>4, <3>1
  <2>6. \A i \in 1..(Len(q) - 1) : w[i] = q[IF i < k THEN i ELSE i + 1]
    <3> TAKE i \in 1..(Len(q) - 1)
    <3>1. CASE i < k
      <4>1. i \in 1..(k - 1) /\ i \in 1..Len(a)
        BY <1>1, <2>1, <2>3, <3>1
      <4>2. w[i] = a[i]
        BY <2>3, <2>4, <4>1
      <4> QED
        BY <2>3, <3>1, <4>1, <4>2
    <3>2. CASE ~(i < k)
      <4>1. i - (k - 1) \in 1..(Len(q) - k) /\ k + (i - (k - 1)) = i + 1
        BY <1>1, <2>1, <3>2
      <4>2. w[i] = b[i - (k - 1)]
        BY <1>1, <2>1, <2>3, <2>4, <3>2
      <4>3. b[i - (k - 1)] = q[k + (i - (k - 1))]
        BY <2>4, <4>1
      <4> QED
        BY <3>2, <4>1, <4>2, <4>3
    <3> QED
      BY <3>1, <3>2
  <2> HIDE DEF w
  <2>7. DOMAIN w = 1..(Len(q) - 1)
    BY <2>5
  <2>8. OneEach(w)
    <3> SUFFICES ASSUME NEW i \in 1..(Len(q) - 1), NEW j \in 1..(Len(q) - 1), w[i] = w[j]
                 PROVE  i = j
      BY <2>7 DEF OneEach
    <3> DEFINE x == IF i < k THEN i ELSE i + 1
               y == IF j < k THEN j ELSE j + 1
    <3>1. x \in DOMAIN q /\ y \in DOMAIN q
      BY <1>1, <2>1
    <3>2. q[x] = q[y]
      BY <2>6
    <3>3. x = y
      BY <3>1, <3>2 DEF OneEach
    <3> QED
      BY <1>1, <2>1, <3>3
  <2>9. Elements(w) \subseteq Elements(q)
    <3> SUFFICES ASSUME NEW i \in 1..(Len(q) - 1) PROVE w[i] \in Elements(q)
      BY <2>5 DEF Elements
    <3>1. (IF i < k THEN i ELSE i + 1) \in 1..Len(q)
      BY <1>1, <2>1
    <3> QED
      BY <2>6, <3>1 DEF Elements
  <2>10. Elements(q) \subseteq Elements(w) \cup {c}
    <3> SUFFICES ASSUME NEW i \in 1..Len(q), i # k PROVE q[i] \in Elements(w)
      BY <2>1 DEF Elements
    <3> DEFINE x == IF i < k THEN i ELSE i - 1
    <3>1. x \in 1..(Len(q) - 1) /\ (IF x < k THEN x ELSE x + 1) = i
      BY <1>1, <2>1
    <3>2. w[x] = q[i]
      BY <2>6, <3>1
    <3> QED
      BY <2>5, <3>1, <3>2 DEF Elements
  <2>11. q # <<>>
    BY <2>1, <1>1
  <2> QED
    BY <2>2, <2>5, <2>8, <2>9, <2>10, <2>11 DEF w
<1> QED
  BY <1>2, <1>3

-----------------------------------------------------------------------------
(* The names of the threads.                                               *)
LEMMA Distinct ==
  /\ "main" \notin Threads /\ "none" \notin Conns /\ "listen" \notin Conns
  /\ "worker" \notin Conns /\ Services \cap Conns = {}
  /\ "listen" \notin Services /\ "worker" \notin Services
  /\ Running \subseteq Threads /\ Conns \subseteq Threads /\ Services \subseteq Running
  /\ "listen" \in Running /\ "worker" \in Running
  /\ Threads = Services \cup {"worker", "listen"} \cup Conns
<1>1. {Fixed[i] : i \in 1..6} = {"worker", "device", "listen", "udpSend", "udpReceive", "daemon"}
  BY DEF Fixed
<1>2. /\ Conns \cap ({"main", "none"} \cup {"worker", "device", "listen", "udpSend",
                                            "udpReceive", "daemon"}) = {}
      /\ Services \subseteq {"device", "udpSend", "udpReceive", "daemon"}
  BY <1>1, ConnsAssumption, ServicesAssumption
<1> QED
  BY <1>2 DEF Threads, Running

LEMMA TypesAre == TypeOK <=> Types
BY DEF TypeOK, Types, States, FlagsOK, MainOK, AtOK, QuitOK, SetsOK, PeerOK, CountOK, ListOK,
   OneEach

(* The daemon begins with nothing started.                                 *)
LEMMA LifeInit == Init => LifeInv
<1> SUFFICES ASSUME Init PROVE LifeInv
  OBVIOUS
<1> USE Distinct DEF Init
<1>1. <<>> \in Seq(Conns) /\ Len(<<>>) = 0 /\ DOMAIN <<>> = 1..0
  OBVIOUS
<1>2. FlagsOK /\ MainOK /\ AtOK /\ QuitOK /\ SetsOK /\ PeerOK /\ CountOK
  <2>1. MainOK
    BY DEF MainOK
  <2>2. AtOK /\ QuitOK /\ PeerOK
    BY DEF AtOK, QuitOK, PeerOK, States
  <2>3. FlagsOK /\ SetsOK
    BY DEF FlagsOK, SetsOK
  <2>4. CountOK
    BY DEF CountOK
  <2> QED
    BY <2>1, <2>2, <2>3, <2>4
<1>3. ListOK
  BY <1>1 DEF ListOK, OneEach
<1>4. Placed /\ Unstarted
  BY DEF Placed, Unstarted, ListenStates, ServiceStates, SessionStates
<1>5. InList = {}
  BY <1>1 DEF InList, Elements
<1>6. Listed
  BY <1>5 DEF Listed
<1>7. Entered /\ Freed
  BY DEF Entered, Freed
<1> QED
  BY <1>2, <1>3, <1>4, <1>6, <1>7 DEF LifeInv, Types

(* What a step leaves alone keeps what is said of it.                      *)
LEMMA Kept ==
  ASSUME LifeInv
  PROVE  /\ UNCHANGED <<quitting, seized, shaken, astray>> => FlagsOK'
         /\ UNCHANGED main => MainOK'
         /\ UNCHANGED at => AtOK'
         /\ UNCHANGED quit => QuitOK'
         /\ UNCHANGED <<deleted, failed, lost, clients, accepted>> => SetsOK'
         /\ UNCHANGED peer => PeerOK'
         /\ UNCHANGED <<count, loaded>> => CountOK'
         /\ UNCHANGED tcpclients => ListOK'
         /\ UNCHANGED <<at, main>> => Unstarted' /\ Placed'
         /\ UNCHANGED <<at, tcpclients, accepted, lost>> => Listed'
         /\ UNCHANGED <<at, clients, failed>> =>
              (main.at \in {"stop", "join", "done"} \/ main'.at \notin {"stop", "join", "done"}
                 => Entered')
         /\ UNCHANGED <<at, deleted>> => Freed'
         /\ UNCHANGED at => Placed'
<1> USE DEF LifeInv, Types
<1>1. /\ UNCHANGED <<quitting, seized, shaken, astray>> => FlagsOK'
      /\ UNCHANGED main => MainOK'
      /\ UNCHANGED at => AtOK'
      /\ UNCHANGED quit => QuitOK'
  BY DEF FlagsOK, MainOK, AtOK, QuitOK
<1>2. /\ UNCHANGED <<deleted, failed, lost, clients, accepted>> => SetsOK'
      /\ UNCHANGED peer => PeerOK'
      /\ UNCHANGED <<count, loaded>> => CountOK'
      /\ UNCHANGED tcpclients => ListOK'
  BY DEF SetsOK, PeerOK, CountOK, ListOK, OneEach
<1>3. UNCHANGED at => Placed'
  BY DEF Placed
<1>4. UNCHANGED <<at, main>> => Unstarted'
  BY DEF Unstarted
<1>5. UNCHANGED <<at, tcpclients, accepted, lost>> => Listed'
  BY DEF Listed, InList, Elements
<1>6. UNCHANGED <<at, clients, failed>> =>
        (main.at \in {"stop", "join", "done"} \/ main'.at \notin {"stop", "join", "done"}
           => Entered')
  BY DEF Entered
<1>7. UNCHANGED <<at, deleted>> => Freed'
  BY DEF Freed
<1> QED
  BY <1>1, <1>2, <1>3, <1>4, <1>5, <1>6, <1>7

-----------------------------------------------------------------------------
(* init makes each thread that is turned on, once.                         *)
LEMMA StartStep ==
  ASSUME LifeInv, NEW t, NEW first, Starts(t, first),
         \/ t = "worker" /\ first = "loop"
         \/ t \in {"device", "listen", "udpSend", "udpReceive", "daemon"} /\ first = "new"
  PROVE  LifeInv'
<1>1. main.i \in 1..6 /\ main.at = "init" /\ main' = [main EXCEPT !.i = @ + 1] /\ Fixed[main.i] = t
  BY DEF Starts, Fixed, LifeInv, Types, MainOK
<1>2. main'.i = main.i + 1 /\ main'.at = "init" /\ main'.c = main.c /\ MainOK'
  BY <1>1 DEF LifeInv, Types, MainOK
<1>3. UNCHANGED <<quitting, quit, deleted, clients, failed, seized, peer, tcpclients, accepted, shaken, astray,
                  lost, count, loaded>>
  BY DEF Starts, listener, counter
<1>4. CASE t \notin Running
  <2>1. at' = at
    BY <1>4 DEF Starts
  <2>2. Unstarted'
    BY <1>1, <1>2, <2>1 DEF LifeInv, Unstarted
  <2> QED
    BY <1>2, <1>3, <2>1, <2>2, Kept DEF LifeInv, Types
<1>5. CASE t \in Running
  <2>1. at' = [at EXCEPT ![t] = first] /\ at[t] = "absent" /\ t \in Threads
    BY <1>1, <1>5, Distinct DEF Starts, Unstarted, LifeInv
  <2>2. AtOK' /\ at'[t] = first /\ \A u \in Threads \ {t} : at'[u] = at[u]
    BY <2>1 DEF LifeInv, Types, AtOK, States
  <2>3. Placed'
    <3>1. at'["worker"] \in {"absent", "loop", "hung", "ended"}
      BY <2>2, Distinct DEF LifeInv, Placed
    <3>2. at'["listen"] \in ListenStates
      BY <2>2, Distinct DEF LifeInv, Placed, ListenStates
    <3>3. ASSUME NEW s \in Services
          PROVE  at'[s] \in ServiceStates /\ (at'[s] = "level2" => s = "device")
      BY <2>2, Distinct DEF LifeInv, Placed, ServiceStates
    <3>4. ASSUME NEW c \in Conns PROVE at'[c] \in SessionStates
      BY <1>5, <2>2, Distinct DEF LifeInv, Placed, Running
    <3> QED
      BY <3>1, <3>2, <3>3, <3>4 DEF Placed
  <2>4. \A k \in (main.i + 1)..6 : Fixed[k] # t
    BY <1>1 DEF Fixed
  <2>5. Unstarted'
    BY <1>1, <1>2, <2>2, <2>4, Distinct DEF LifeInv, Unstarted
  <2>6. InList' = InList /\ InList \subseteq Conns
    BY <1>3 DEF InList, Elements, LifeInv, Types, ListOK
  <2>7. \A c \in Conns : at'[c] = at[c]
    BY <1>5, <2>2, Distinct DEF Running
  <2>8. Listed'
    BY <1>3, <2>1, <2>2, <2>6, <2>7, Distinct DEF LifeInv, Listed
  <2>9. Entered'
    BY <1>1, <1>2, <1>3, <2>1, <2>2, Distinct DEF LifeInv, Entered
  <2>10. Freed'
    BY <1>3, <2>1, <2>2 DEF LifeInv, Freed, Types, SetsOK
  <2> QED
    BY <1>2, <1>3, <2>2, <2>3, <2>5, <2>8, <2>9, <2>10, Kept DEF LifeInv, Types
<1> QED
  BY <1>4, <1>5

(* cleanup tells a thread to quit.                                         *)
LEMMA TellStep == ASSUME LifeInv, NEW t, Tell(t) PROVE LifeInv'
<1>1. main.i \in 1..6 /\ main.at = "stop" /\ main.i + 1 \in 1..7
  BY DEF Tell, StopOrder, LifeInv, Types, MainOK
<1>2. UNCHANGED <<quitting, at, deleted, clients, failed, seized, peer, tcpclients, accepted, shaken, astray,
                  lost, count, loaded>>
  BY DEF Tell, listener, counter
<1>3. MainOK' /\ main'.at \in {"stop", "join"} /\ Unstarted'
  BY <1>1 DEF Tell, LifeInv, Types, MainOK, Unstarted
<1>4. QuitOK'
  <2>1. CASE t \in Running
    BY <2>1, Distinct DEF Tell, LifeInv, Types, QuitOK
  <2>2. CASE t \notin Running
    BY <2>2, Kept DEF Tell
  <2> QED
    BY <2>1, <2>2
<1> QED
  BY <1>1, <1>2, <1>3, <1>4, Kept DEF LifeInv, Types

(* cleanup waits for it and frees it.                                      *)
LEMMA JoinStep == ASSUME LifeInv, NEW t, Join(t) PROVE LifeInv'
<1>1. main.i \in 1..6 /\ t \in Running /\ main.at = "join" /\ main.i + 1 \in 1..7
  BY DEF Join, LifeInv, Unstarted
<1>2. UNCHANGED <<quitting, at, quit, clients, failed, seized, peer, tcpclients, accepted, shaken, astray, lost,
                  count, loaded>> /\ deleted' = deleted \cup {t} /\ at[t] = "ended"
  BY DEF Join, listener, counter
<1>3. MainOK' /\ main'.at = "stop" /\ Unstarted'
  BY <1>1 DEF Join, LifeInv, Types, MainOK, Unstarted
<1>4. SetsOK' /\ Freed'
  BY <1>1, <1>2, Distinct DEF LifeInv, Types, SetsOK, Freed
<1> QED
  BY <1>1, <1>2, <1>3, <1>4, Kept DEF LifeInv, Types

(* Every step of the main thread, and the order to stop, keeps LifeInv.    *)
LEMMA MainStep == LifeInv /\ (MainThread \/ Stop) => LifeInv'
<1> SUFFICES ASSUME LifeInv, MainThread \/ Stop PROVE LifeInv'
  OBVIOUS
<1>1. CASE init
  BY <1>1, StartStep DEF init, startClientWorkerThread, startDeviceWorkerThreads,
     startTcpWorkerThread, startUdpWorkerThreads, startDaemonWorkerThread
<1>2. CASE EnterLoop
  <2>1. main.at = "init" /\ main'.at = "loop" /\ clients' = clients \cup {"main"} /\ MainOK'
    BY <1>2 DEF EnterLoop, addClient, LifeInv, Types, MainOK
  <2>2. UNCHANGED <<quitting, at, quit, deleted, failed, seized, peer, tcpclients, accepted, shaken, astray,
                    lost, count, loaded>>
    BY <1>2 DEF EnterLoop, listener, counter
  <2>3. SetsOK' /\ Unstarted' /\ Entered'
    BY <2>1, <2>2 DEF LifeInv, Types, SetsOK, Unstarted, Entered
  <2> QED
    BY <2>1, <2>2, <2>3, Kept DEF LifeInv, Types
<1>3. CASE Collect
  <2>1. PICK i \in DOMAIN tcpclients : main' = [main EXCEPT !.at = "wait", !.c = tcpclients[i]]
    BY <1>3 DEF Collect
  <2>2. tcpclients[i] \in Conns
    BY DEF LifeInv, Types, ListOK
  <2>3. MainOK' /\ Unstarted' /\ main'.at = "wait"
    BY <2>1, <2>2 DEF LifeInv, Types, MainOK, Unstarted
  <2>4. UNCHANGED <<quitting, at, quit, deleted, clients, failed, seized, peer, tcpclients, accepted,
                    shaken, astray, lost, count, loaded>>
    BY <1>3 DEF Collect, listener, counter
  <2> QED
    BY <2>3, <2>4, Kept DEF LifeInv, Types
<1>4. CASE Reap
  <2>1. main.c \in Conns /\ at[main.c] = "ended" /\ main'.at = "loop" /\ main.at = "wait" /\ MainOK'
    BY <1>4 DEF Reap, Joined, LifeInv, Unstarted, Types, MainOK
  <2>2. /\ UNCHANGED <<quitting, at, quit, clients, failed, seized, peer, accepted, lost, count, loaded>>
        /\ tcpclients' = Without(tcpclients, main.c) /\ deleted' = deleted \cup {main.c}
        /\ shaken' \in BOOLEAN /\ astray' \in BOOLEAN
    BY <1>4 DEF Reap, counter, LifeInv, Types, FlagsOK
  <2>3. tcpclients \in Seq(Conns) /\ OneEach(tcpclients)
    BY DEF LifeInv, Types, ListOK
  <2>4. /\ tcpclients' \in Seq(Conns) /\ OneEach(tcpclients')
        /\ InList' \subseteq InList /\ InList \subseteq InList' \cup {main.c}
        /\ tcpclients = <<>> => tcpclients' = <<>>
    BY <2>2, <2>3, WithoutList DEF InList
  <2>5. FlagsOK' /\ SetsOK' /\ ListOK' /\ Freed' /\ Unstarted'
    BY <2>1, <2>2, <2>4, Distinct DEF LifeInv, Types, FlagsOK, SetsOK, ListOK, OneEach, Freed, Unstarted
  <2>6. Listed'
    BY <2>1, <2>2, <2>4 DEF LifeInv, Listed
  <2> QED
    BY <2>1, <2>2, <2>5, <2>6, Kept DEF LifeInv, Types
<1>5. CASE LeaveLoop
  <2>1. /\ main'.at = "stop" /\ main.at = "loop" /\ clients' = clients \ {"main"}
        /\ MainOK'
    <3>1. main' = [main EXCEPT !.at = "stop", !.i = 1]
      BY <1>5 DEF LeaveLoop
    <3>2. main.at = "loop" /\ clients' = clients \ {"main"}
      BY <1>5 DEF LeaveLoop, removeClient
    <3>3. /\ main'.at = "stop"
          /\ main' \in [at: {"init", "loop", "wait", "hung", "stop", "join", "done"}, i: 1..7,
                        c: Conns \cup {"none"}]
      <4>1. main \in [at: {"init", "loop", "wait", "hung", "stop", "join", "done"}, i: 1..7,
                      c: Conns \cup {"none"}]
        BY DEF LifeInv, Types, MainOK
      <4>2. main.c \in Conns \cup {"none"} /\ 1 \in 1..7
        BY <4>1
      <4>3. main' = [at |-> "stop", i |-> 1, c |-> main.c]
        BY <3>1, <4>1
      <4> QED
        BY <4>2, <4>3
    <3> QED
      BY <3>2, <3>3 DEF MainOK
  <2>2. UNCHANGED <<quitting, at, quit, deleted, failed, seized, peer, tcpclients, accepted, shaken, astray,
                    lost, count, loaded>>
    BY <1>5 DEF LeaveLoop, listener, counter
  <2>3. SetsOK' /\ Unstarted'
    BY <2>1, <2>2 DEF LifeInv, Types, SetsOK, Unstarted
  <2>4. Entered'
    BY <2>1, <2>2, Distinct DEF LifeInv, Entered
  <2> QED
    BY <2>1, <2>2, <2>3, <2>4, Kept DEF LifeInv, Types
<1>6. CASE cleanup
  <2>1. CASE CleanupDone
    <3>1. MainOK' /\ Unstarted' /\ main'.at = "done" /\ main.at = "stop"
      BY <2>1 DEF CleanupDone, LifeInv, Types, MainOK, Unstarted
    <3>2. UNCHANGED <<quitting, at, quit, deleted, clients, failed, seized, peer, tcpclients, accepted,
                      shaken, astray, lost, count, loaded>>
      BY <2>1 DEF CleanupDone, listener, counter
    <3> QED
      BY <3>1, <3>2, Kept DEF LifeInv, Types
  <2> QED
    BY <1>6, <2>1, TellStep, JoinStep DEF cleanup, stopDeviceWorkerThreads, stopUdpWorkerThreads,
       stopTcpWorkerThread, stopClientWorkerThread, stopDaemonWorkerThread, Ended
<1>7. CASE Stop
  <2>1. UNCHANGED <<main, at, quit, deleted, clients, failed, seized, peer, tcpclients, accepted,
                    shaken, astray, lost, count, loaded>> /\ quitting' = TRUE
    BY <1>7 DEF Stop, listener, counter
  <2>2. FlagsOK'
    BY <2>1 DEF FlagsOK, LifeInv, Types
  <2>3. Entered'
    BY <2>1 DEF Entered, LifeInv
  <2> QED
    BY <2>1, <2>2, <2>3, Kept DEF LifeInv, Types
<1> QED
  BY <1>1, <1>2, <1>3, <1>4, <1>5, <1>6, <1>7 DEF MainThread

-----------------------------------------------------------------------------
Working == {"added", "loop", "level2", "recvfrom", "welcome", "text", "rcvloop", "binary",
            "relock", "hung", "leave"}
Outside == {"absent", "new", "load", "store", "flag", "return"}

(* One thread goes on to another state.                                    *)
LEMMA Moved ==
  ASSUME LifeInv, NEW t \in Threads, NEW a \in States, at' = [at EXCEPT ![t] = a]
  PROVE  AtOK' /\ at'[t] = a /\ \A u \in Threads \ {t} : at'[u] = at[u]
BY DEF LifeInv, Types, AtOK

(* A service or a session that has begun goes on in its own code.          *)
LEMMA MoveStep ==
  ASSUME LifeInv, NEW t \in Services \cup Conns \cup {"worker"}, NEW a \in States \ {"absent"},
         at[t] \notin {"absent", "ended"}, at' = [at EXCEPT ![t] = a],
         t = "worker" => a \in {"hung", "ended"},
         t \in Services => a \in ServiceStates /\ (a = "level2" => t = "device"),
         t \in Conns => a \in SessionStates,
         UNCHANGED <<main, tcpclients, accepted, lost, deleted>>
  PROVE  AtOK' /\ Placed' /\ Unstarted' /\ Listed' /\ Freed'
<1>1. t \in Threads /\ t # "listen"
  BY Distinct
<1>2. AtOK' /\ at'[t] = a /\ \A u \in Threads \ {t} : at'[u] = at[u]
  BY <1>1, Moved
<1>3. Placed'
  <2>1. at'["worker"] \in {"absent", "loop", "hung", "ended"} /\ at'["listen"] \in ListenStates
    BY <1>1, <1>2, Distinct DEF LifeInv, Placed
  <2>2. ASSUME NEW s \in Services
        PROVE  at'[s] \in ServiceStates /\ (at'[s] = "level2" => s = "device")
    BY <1>2, Distinct DEF LifeInv, Placed
  <2>3. ASSUME NEW c \in Conns PROVE at'[c] \in SessionStates
    BY <1>2, Distinct DEF LifeInv, Placed
  <2> QED
    BY <2>1, <2>2, <2>3 DEF Placed
<1>4. Unstarted'
  BY <1>1, <1>2, Distinct DEF LifeInv, Unstarted
<1>5. InList' = InList /\ InList \subseteq Conns
  BY DEF InList, Elements, LifeInv, Types, ListOK
<1>6. Listed'
  BY <1>1, <1>2, <1>5, Distinct DEF LifeInv, Listed
<1>7. Freed'
  BY <1>1, <1>2 DEF LifeInv, Freed, Types, SetsOK
<1> QED
  BY <1>2, <1>3, <1>4, <1>6, <1>7

(* Its entry in the client list, when it goes on.                          *)
LEMMA EntryStep ==
  ASSUME LifeInv, NEW t \in Services \cup Conns, NEW a \in States, at' = [at EXCEPT ![t] = a],
         UNCHANGED main, failed \subseteq failed', failed' \subseteq Services,
         \/ clients' = clients
         \/ clients' = clients \cup {t}
         \/ clients' = clients \ {t},
         a \in Working => t \in clients',
         t \in clients' => a \notin Outside /\ (a = "ended" => t \in failed')
  PROVE  Entered' /\ clients' \subseteq Threads \cup {"main"}
<1>1. t \in Threads /\ t # "main"
  BY Distinct
<1>2. at'[t] = a /\ \A u \in Threads \ {t} : at'[u] = at[u]
  BY <1>1, Moved
<1>3. clients' \subseteq Threads \cup {"main"} /\ \A u \in Threads \cup {"main"} : u # t => (u \in clients' <=> u \in clients)
  BY <1>1 DEF LifeInv, Types, SetsOK
<1>4. ASSUME NEW u \in Services \cup Conns, at'[u] \in Working PROVE u \in clients'
  BY <1>2, <1>3, <1>4, Distinct DEF LifeInv, Entered, Working
<1>5. ASSUME NEW u \in clients' \ {"main"}
      PROVE  /\ u \in Services \cup Conns /\ at'[u] \notin Outside
             /\ at'[u] = "ended" => u \in failed'
  <2>1. CASE u = t
    BY <1>2, <2>1
  <2>2. CASE u # t
    BY <1>2, <1>3, <2>2 DEF LifeInv, Entered, Outside
  <2> QED
    BY <2>1, <2>2
<1>6. main'.at \in {"stop", "join", "done"} => "main" \notin clients'
  BY <1>1, <1>3 DEF LifeInv, Entered
<1> QED
  BY <1>3, <1>4, <1>5, <1>6 DEF Entered, Working, Outside

(* Every step of a session and of the client it serves keeps LifeInv.      *)
LEMMA SessionStep ==
  ASSUME LifeInv, NEW c \in Conns,
         Session(c) \/ Connect(c) \/ HangUp(c) \/ Command(c) \/ SessionHangs(c)
  PROVE  LifeInv'
<1>1. /\ UNCHANGED <<quitting, main, deleted, failed, seized, tcpclients, accepted, shaken, astray, lost>>
  BY DEF Session, Entry, Welcome, EndLoop, Leave, Connect, HangUp, Command, SessionHangs, Alone, listener
<1>2. FlagsOK' /\ MainOK' /\ ListOK'
  BY <1>1, Kept
<1>3. c \in Threads /\ c # "main" /\ c \notin Services
  BY Distinct
<1>4. at[c] \in SessionStates /\ failed \subseteq Services
  BY DEF LifeInv, Placed, Types, SetsOK
<1>5. PeerOK'
  BY DEF Session, Entry, Welcome, EndLoop, Leave, Connect, HangUp, Command, SessionHangs, LifeInv, Types, PeerOK
<1>6. QuitOK'
  BY <1>3 DEF Session, Entry, Welcome, EndLoop, Leave, Connect, HangUp, Command, SessionHangs, LifeInv, Types, QuitOK
<1>7. CountOK'
  <2>1. CASE UNCHANGED counter
    BY <2>1, Kept DEF counter
  <2>2. CASE Load(c)
    BY <2>2 DEF Load, LifeInv, Types, CountOK
  <2>3. CASE Store(c, -1)
    BY <2>3 DEF Store, LifeInv, Types, CountOK
  <2> QED
    BY <2>1, <2>2, <2>3 DEF Session, Entry, Welcome, EndLoop, Leave, Connect, HangUp, Command, SessionHangs
<1>8. CASE UNCHANGED <<at, clients>>
  <2>1. SetsOK' /\ Entered'
    BY <1>1, <1>8, Kept DEF LifeInv, Entered
  <2> QED
    BY <1>1, <1>2, <1>5, <1>6, <1>7, <1>8, <2>1, Kept DEF LifeInv, Types
<1>9. ASSUME NEW a \in SessionStates \ {"absent"}, at[c] \notin {"absent", "ended"},
             at' = [at EXCEPT ![c] = a],
             \/ clients' = clients
             \/ clients' = clients \cup {c}
             \/ clients' = clients \ {c},
             a \in Working => c \in clients',
             c \in clients' => a \notin Outside \cup {"ended"}
      PROVE  LifeInv'
  <2>1. a \in States \ {"absent"}
    BY DEF SessionStates, States
  <2>2. AtOK' /\ Placed' /\ Unstarted' /\ Listed' /\ Freed'
    BY <1>1, <1>3, <1>9, <2>1, MoveStep, Distinct
  <2>3. Entered' /\ clients' \subseteq Threads \cup {"main"}
    <3>1. failed \subseteq failed' /\ failed' \subseteq Services /\ UNCHANGED main
      BY <1>1, <1>4
    <3> QED
      BY <1>9, <2>1, <3>1, EntryStep
  <2>4. SetsOK'
    BY <1>1, <2>3 DEF LifeInv, Types, SetsOK
  <2> QED
    BY <1>2, <1>5, <1>6, <1>7, <2>2, <2>3, <2>4 DEF LifeInv, Types
<1>10. /\ at[c] \in Working => c \in clients
       /\ at[c] \in Outside => c \notin clients
  BY <1>3, <1>4 DEF LifeInv, Entered, Working, Outside
<1> USE DEF SessionStates, Working, Outside
<1>11. CASE Entry(c)
  BY <1>9, <1>10, <1>11 DEF Entry, Goes, addClient
<1>12. CASE Welcome(c)
  <2>1. PICK a \in {"leave", "text"} : at[c] = "welcome" /\ at' = [at EXCEPT ![c] = a] /\ clients' = clients
    BY <1>12 DEF Welcome, Goes
  <2> QED
    BY <1>9, <1>10, <2>1
<1>13. CASE EndLoop(c)
  <2>1. at[c] \in {"text", "rcvloop", "binary"} /\ clients' = clients
    BY <1>4, <1>13 DEF EndLoop, Ends
  <2>2. PICK a \in {"leave", "text"} : at' = [at EXCEPT ![c] = a]
    BY <1>13 DEF EndLoop
  <2> QED
    BY <1>9, <1>10, <2>1, <2>2
<1>14. CASE Leave(c)
  <2>1. CASE Goes(c, "leave", "load") /\ removeClient(c)
    BY <1>9, <1>10, <2>1 DEF Goes, removeClient
  <2>2. CASE Goes(c, "load", "store") /\ UNCHANGED clients
    BY <1>9, <1>10, <2>2 DEF Goes
  <2>3. CASE Goes(c, "store", "flag") /\ UNCHANGED clients
    BY <1>9, <1>10, <2>3 DEF Goes
  <2>4. CASE Goes(c, "flag", "return") /\ UNCHANGED clients
    BY <1>9, <1>10, <2>4 DEF Goes
  <2>5. CASE Goes(c, "return", "ended") /\ UNCHANGED clients
    BY <1>9, <1>10, <2>5 DEF Goes
  <2> QED
    BY <1>14, <2>1, <2>2, <2>3, <2>4, <2>5 DEF Leave
<1>15. CASE Command(c) \/ SessionHangs(c)
  BY <1>9, <1>10, <1>15 DEF Command, SessionHangs, Goes
<1>16. CASE Connect(c) \/ HangUp(c)
  BY <1>8, <1>16 DEF Connect, HangUp
<1> QED
  BY <1>11, <1>12, <1>13, <1>14, <1>15, <1>16 DEF Session

(* Every step of a thread of the configuration keeps LifeInv.              *)
LEMMA ServiceStep ==
  ASSUME LifeInv,
         \/ Receive \/ Datagram \/ CloseHangs \/ Worker
         \/ \E s \in Services : Service(s) \/ GiveUp(s)
  PROVE  LifeInv'
<1>1. UNCHANGED <<quitting, seized, main, quit, deleted, peer, tcpclients, accepted, shaken, astray,
                  lost, count, loaded>>
  BY DEF Receive, Datagram, CloseHangs, Worker, Service, Enter, Prepare, Finish, GiveUp, Quiet, listener, counter
<1>2. FlagsOK' /\ MainOK' /\ ListOK' /\ QuitOK' /\ PeerOK' /\ CountOK'
  BY <1>1, Kept
<1>3. failed \subseteq Services
  BY DEF LifeInv, Types, SetsOK
<1>4. ASSUME NEW s \in Services, NEW a \in ServiceStates \ {"absent"},
             at[s] \notin {"absent", "ended"}, at' = [at EXCEPT ![s] = a],
             a = "level2" => s = "device",
             failed' = failed \/ failed' = failed \cup {s},
             \/ clients' = clients
             \/ clients' = clients \cup {s}
             \/ clients' = clients \ {s},
             a \in Working => s \in clients',
             s \in clients' => a \notin Outside /\ (a = "ended" => s \in failed')
      PROVE  LifeInv'
  <2>1. a \in States \ {"absent"}
    BY DEF ServiceStates, States
  <2>2. AtOK' /\ Placed' /\ Unstarted' /\ Listed' /\ Freed'
    BY <1>1, <1>4, <2>1, MoveStep, Distinct
  <2>3. failed \subseteq failed' /\ failed' \subseteq Services /\ UNCHANGED main
    BY <1>1, <1>3, <1>4
  <2>4. Entered' /\ clients' \subseteq Threads \cup {"main"}
    BY <1>4, <2>1, <2>3, EntryStep
  <2>5. SetsOK'
    BY <1>1, <2>3, <2>4 DEF LifeInv, Types, SetsOK
  <2> QED
    BY <1>2, <2>2, <2>4, <2>5 DEF LifeInv, Types
<1>5. \A s \in Services : /\ at[s] \in Working => s \in clients
                          /\ at[s] = "level2" => s = "device"
                          /\ at[s] \in ServiceStates
                          /\ s # "main"
  BY Distinct DEF LifeInv, Entered, Placed, Working
<1> USE DEF ServiceStates, Working, Outside
<1>6. ASSUME NEW s \in Services, Enter(s) PROVE LifeInv'
  BY <1>4, <1>6 DEF Enter, Goes, addClient
<1>7. ASSUME NEW s \in Services, Prepare(s) PROVE LifeInv'
  <2>1. PICK a \in {"loop", "level2"} : at' = [at EXCEPT ![s] = a] /\ (a = "level2" => s = "device")
    BY <1>7 DEF Prepare
  <2>2. at[s] = "added" /\ UNCHANGED <<clients, failed>>
    BY <1>7 DEF Prepare
  <2> QED
    BY <1>4, <1>5, <2>1, <2>2
<1>8. ASSUME NEW s \in Services, Finish(s) PROVE LifeInv'
  <2>1. at[s] \in {"loop", "level2"} /\ at' = [at EXCEPT ![s] = "ended"]
    BY <1>8 DEF Finish, Goes
  <2>2. CASE clients' = clients \ {s} /\ UNCHANGED failed
    BY <1>4, <2>1, <2>2
  <2>3. CASE failed' = failed \cup {s} /\ UNCHANGED clients
    BY <1>4, <2>1, <2>3
  <2> QED
    BY <1>8, <2>2, <2>3 DEF Finish, Withdrawn
<1>9. ASSUME NEW s \in Services, GiveUp(s) PROVE LifeInv'
  BY <1>4, <1>9 DEF GiveUp, Goes
<1>10. CASE Receive
  <2>1. /\ "udpReceive" \in Services /\ at["udpReceive"] = "loop" /\ UNCHANGED <<clients, failed>>
        /\ at' = [at EXCEPT !["udpReceive"] = "recvfrom"]
    BY <1>10 DEF Receive, Goes
  <2> QED
    BY <1>4, <1>5, <2>1
<1>11. CASE Datagram
  <2>1. /\ "udpReceive" \in Services /\ at["udpReceive"] = "recvfrom" /\ UNCHANGED <<clients, failed>>
        /\ at' = [at EXCEPT !["udpReceive"] = "loop"]
    BY <1>11 DEF Datagram, Goes
  <2> QED
    BY <1>4, <1>5, <2>1
<1>12. CASE CloseHangs
  <2>1. /\ "device" \in Services /\ at["device"] = "loop" /\ UNCHANGED <<clients, failed>>
        /\ at' = [at EXCEPT !["device"] = "hung"]
    BY <1>12 DEF CloseHangs, Goes
  <2> QED
    BY <1>4, <1>5, <2>1
<1>13. CASE Worker
  <2>1. at["worker"] = "loop" /\ at' = [at EXCEPT !["worker"] = "ended"] /\ UNCHANGED <<clients, failed>>
    BY <1>13 DEF Worker, Goes
  <2>2. AtOK' /\ Placed' /\ Unstarted' /\ Listed' /\ Freed'
    <3>1. "ended" \in States \ {"absent"} /\ "worker" \in Services \cup Conns \cup {"worker"}
          /\ "worker" \notin Services /\ "worker" \notin Conns
      BY Distinct DEF States
    <3> QED
      BY <1>1, <2>1, <3>1, MoveStep
  <2>3. SetsOK'
    BY <1>1, <2>1, Kept
  <2>4. \A u \in Threads \ {"worker"} : at'[u] = at[u]
    BY <2>1, Distinct, Moved DEF States
  <2>5. Entered'
    BY <1>1, <2>1, <2>4, Distinct DEF LifeInv, Entered
  <2> QED
    BY <1>2, <2>2, <2>3, <2>5 DEF LifeInv, Types
<1> QED
  BY <1>6, <1>7, <1>8, <1>9, <1>10, <1>11, <1>12, <1>13 DEF Service

(* A thread hangs with m_wxClientMutex.                                    *)
LEMMA SeizeStep == ASSUME LifeInv, NEW t \in Conns \cup {"worker"}, Seize(t) PROVE LifeInv'
<1>1. /\ UNCHANGED <<quitting, main, quit, deleted, clients, failed, peer, tcpclients, accepted,
                     shaken, astray, lost, count, loaded>>
      /\ seized' = TRUE
  BY DEF Seize, Quiet, listener, counter
<1>2. FlagsOK' /\ MainOK' /\ QuitOK' /\ SetsOK' /\ PeerOK' /\ CountOK' /\ ListOK'
  BY <1>1, Kept DEF LifeInv, Types, FlagsOK
<1>3. /\ at' = [at EXCEPT ![t] = "hung"] /\ at[t] \in {"loop", "text"}
      /\ t \in Threads /\ t # "main" /\ t \notin Services
  BY Distinct DEF Seize, Goes
<1>4. AtOK' /\ Placed' /\ Unstarted' /\ Listed' /\ Freed'
  <2>1. "hung" \in States \ {"absent"} /\ "hung" \in SessionStates
    BY DEF States, SessionStates
  <2> QED
    BY <1>1, <1>3, <2>1, MoveStep
<1>5. at'[t] = "hung" /\ \A u \in Threads \ {t} : at'[u] = at[u]
  BY <1>3, Moved DEF States
<1>6. t \in Conns => at[t] = "text" /\ t \in clients
  BY Distinct DEF Seize, Goes, LifeInv, Entered
<1>7. Entered'
  BY <1>1, <1>5, <1>6, Distinct DEF LifeInv, Entered
<1> QED
  BY <1>2, <1>4, <1>7 DEF LifeInv, Types

(* The main thread hangs in the matrix.                                    *)
LEMMA HangStep == ASSUME LifeInv, MatrixHangs PROVE LifeInv'
<1>1. UNCHANGED <<quitting, at, quit, deleted, clients, failed, seized, peer, tcpclients, accepted,
                  shaken, astray, lost, count, loaded>>
  BY DEF MatrixHangs, listener, counter
<1>2. MainOK' /\ main'.at = "hung" /\ main.at = "loop"
  BY DEF MatrixHangs, LifeInv, Types, MainOK
<1>3. Unstarted'
  BY <1>2 DEF Unstarted
<1> QED
  BY <1>1, <1>2, <1>3, Kept DEF LifeInv, Types

-----------------------------------------------------------------------------
(* The listen thread goes on in its own code.                              *)
LEMMA ListenMoves ==
  ASSUME LifeInv, NEW a \in ListenStates \ {"absent"}, at["listen"] \notin {"absent", "ended"},
         at' = [at EXCEPT !["listen"] = a],
         UNCHANGED <<main, clients, failed, deleted>>
  PROVE  /\ AtOK' /\ Placed' /\ Unstarted' /\ Entered' /\ Freed'
         /\ at'["listen"] = a /\ \A c \in Conns : at'[c] = at[c]
<1>1. AtOK' /\ at'["listen"] = a /\ \A u \in Threads \ {"listen"} : at'[u] = at[u]
  <2>1. a \in States /\ "listen" \in Threads
    BY Distinct DEF ListenStates, States
  <2> QED
    BY <2>1, Moved
<1>2. \A c \in Services \cup Conns \cup {"worker"} : at'[c] = at[c]
  BY <1>1, Distinct
<1>3. Placed'
  BY <1>1, <1>2 DEF LifeInv, Placed
<1>4. Unstarted'
  BY <1>1, Distinct DEF LifeInv, Unstarted
<1>5. Entered'
  BY <1>2 DEF LifeInv, Entered
<1>6. Freed'
  BY <1>1, Distinct DEF LifeInv, Freed, Types, SetsOK
<1> QED
  BY <1>1, <1>2, <1>3, <1>4, <1>5, <1>6

(* Every step of the listen thread keeps LifeInv.                          *)
LEMMA ListenStep == ASSUME LifeInv, ListenThread PROVE LifeInv'
<1>1. UNCHANGED <<quitting, main, clients, failed, seized>> /\ MainOK'
  <2>1. UNCHANGED <<quitting, main, clients, failed, seized>>
    BY DEF ListenThread, Listen, Accept, Append_, CountUp, RunSession, StopListening, OnExitTell,
       OnExitWait, Aside
  <2> QED
    BY <2>1, Kept
<1>2. PeerOK'
  <2>1. UNCHANGED peer
    BY DEF ListenThread, Listen, Accept, Append_, CountUp, RunSession, StopListening, OnExitTell,
       OnExitWait
  <2> QED
    BY <2>1, Kept
<1>3. /\ tcpclients \in Seq(Conns) /\ OneEach(tcpclients) /\ InList \subseteq Conns
      /\ "none" \notin Conns /\ "listen" \notin Conns
  BY Distinct DEF LifeInv, Types, ListOK, InList, Elements
<1>4. CASE Listen
  <2>1. UNCHANGED <<quit, deleted, tcpclients, accepted, shaken, astray, lost, count, loaded>>
    BY <1>4 DEF Listen, listener, counter
  <2>2. PICK a \in {"accept", "exit"} : at' = [at EXCEPT !["listen"] = a]
    BY <1>4 DEF Listen
  <2>3. at["listen"] = "new" /\ a \in ListenStates \ {"absent"}
    BY <1>4 DEF Listen, ListenStates
  <2>4. /\ AtOK' /\ Placed' /\ Unstarted' /\ Entered' /\ Freed'
        /\ at'["listen"] = a /\ \A c \in Conns : at'[c] = at[c]
    BY <1>1, <2>1, <2>2, <2>3, ListenMoves
  <2>5. InList' = InList
    BY <2>1 DEF InList, Elements
  <2>6. Listed'
    BY <1>3, <2>1, <2>3, <2>4, <2>5 DEF LifeInv, Listed
  <2> QED
    BY <1>1, <1>2, <2>1, <2>4, <2>6, Kept DEF LifeInv, Types
<1>5. CASE Accept
  <2>1. /\ UNCHANGED <<quit, deleted, tcpclients, shaken, astray, lost, count, loaded>>
        /\ at["listen"] = "accept" /\ at' = [at EXCEPT !["listen"] = "append"]
    BY <1>5 DEF Accept, Goes, counter
  <2>2. accepted' \in Conns /\ at[accepted'] = "absent"
    BY <1>5 DEF Accept
  <2>3. /\ AtOK' /\ Placed' /\ Unstarted' /\ Entered' /\ Freed'
        /\ at'["listen"] = "append" /\ \A c \in Conns : at'[c] = at[c]
    BY <1>1, <2>1, ListenMoves DEF ListenStates
  <2>4. InList' = InList
    BY <2>1 DEF InList, Elements
  <2>5. Listed'
    BY <1>3, <2>1, <2>2, <2>3, <2>4 DEF LifeInv, Listed
  <2>6. SetsOK'
    BY <1>1, <2>1, <2>2 DEF LifeInv, Types, SetsOK
  <2> QED
    BY <1>1, <1>2, <2>1, <2>3, <2>5, <2>6, Kept DEF LifeInv, Types
<1>6. CASE Append_
  <2>1. /\ UNCHANGED <<quit, deleted, accepted, count, loaded>>
        /\ shaken' = FALSE /\ astray' \in BOOLEAN
        /\ at["listen"] = "append" /\ at' = [at EXCEPT !["listen"] = "load"]
    BY <1>6 DEF Append_, Goes, counter
  <2>2. accepted \in Conns /\ at[accepted] = "absent" /\ accepted \notin InList
    BY <2>1 DEF LifeInv, Listed
  <2>3. /\ AtOK' /\ Placed' /\ Unstarted' /\ Entered' /\ Freed'
        /\ at'["listen"] = "load" /\ \A c \in Conns : at'[c] = at[c]
    BY <1>1, <2>1, ListenMoves DEF ListenStates
  <2>4. /\ ListOK' /\ lost' \subseteq Conns
        /\ \/ InList' = InList \cup {accepted} /\ lost' = lost
           \/ InList' = InList /\ lost' = lost \cup {accepted}
    <3>1. CASE tcpclients' = Append(tcpclients, accepted) /\ UNCHANGED lost
      <4>1. /\ tcpclients' \in Seq(Conns) /\ OneEach(tcpclients')
            /\ Elements(tcpclients') = Elements(tcpclients) \cup {accepted}
        BY <1>3, <2>2, <3>1, AppendList DEF InList
      <4> QED
        BY <3>1, <4>1 DEF ListOK, OneEach, InList, Elements, LifeInv, Types, SetsOK
    <3>2. CASE lost' = lost \cup {accepted} /\ UNCHANGED tcpclients
      <4>1. ListOK'
        BY <3>2, Kept
      <4> QED
        BY <2>2, <3>2, <4>1 DEF InList, Elements, LifeInv, Types, SetsOK
    <3> QED
      BY <1>6, <3>1, <3>2 DEF Append_
  <2>5. Listed'
    <3>1. accepted \in lost' \cup InList' /\ lost \cup InList \subseteq lost' \cup InList'
      BY <2>4
    <3>2. InList' \subseteq InList \cup {accepted}
      BY <2>4
    <3> QED
      BY <1>3, <2>1, <2>2, <2>3, <3>1, <3>2 DEF LifeInv, Listed
  <2>6. SetsOK' /\ FlagsOK'
    BY <1>1, <2>1, <2>4 DEF LifeInv, Types, SetsOK, FlagsOK
  <2> QED
    BY <1>1, <1>2, <2>1, <2>3, <2>4, <2>5, <2>6, Kept DEF LifeInv, Types
<1>7. CASE CountUp
  <2>1. UNCHANGED <<quit, deleted, tcpclients, accepted, shaken, astray, lost>>
    BY <1>7 DEF CountUp, listener
  <2>2. PICK a \in {"store", "run"} : at' = [at EXCEPT !["listen"] = a]
    BY <1>7 DEF CountUp, Goes
  <2>3. at["listen"] \in {"load", "store"} /\ a \in ListenStates \ {"absent"}
    BY <1>7 DEF CountUp, Goes, ListenStates
  <2>4. /\ AtOK' /\ Placed' /\ Unstarted' /\ Entered' /\ Freed'
        /\ at'["listen"] = a /\ \A c \in Conns : at'[c] = at[c]
    BY <1>1, <2>1, <2>2, <2>3, ListenMoves
  <2>5. InList' = InList
    BY <2>1 DEF InList, Elements
  <2>6. Listed'
    BY <1>3, <2>1, <2>3, <2>4, <2>5 DEF LifeInv, Listed
  <2>7. CountOK'
    <3>1. CASE Load("listen")
      BY <3>1 DEF Load, LifeInv, Types, CountOK
    <3>2. CASE Store("listen", 1)
      BY <3>2 DEF Store, LifeInv, Types, CountOK
    <3> QED
      BY <1>7, <3>1, <3>2 DEF CountUp
  <2> QED
    BY <1>1, <1>2, <2>1, <2>4, <2>6, <2>7, Kept DEF LifeInv, Types
<1>8. CASE RunSession
  <2>1. /\ UNCHANGED <<quit, deleted, tcpclients, shaken, astray, lost, count, loaded>>
        /\ at["listen"] = "run" /\ accepted' = "none"
        /\ at' = [at EXCEPT !["listen"] = "accept", ![accepted] = "new"]
    BY <1>8 DEF RunSession, counter
  <2>2. /\ accepted \in Conns /\ at[accepted] = "absent" /\ accepted \in lost \cup InList
        /\ accepted \notin clients /\ accepted \notin deleted /\ accepted # "main"
    BY <2>1, Distinct DEF LifeInv, Listed, Entered, Freed
  <2>3. /\ AtOK' /\ at'["listen"] = "accept" /\ at'[accepted] = "new"
        /\ \A u \in Threads \ {"listen", accepted} : at'[u] = at[u]
    BY <1>3, <2>1, <2>2, Distinct DEF LifeInv, Types, AtOK, States
  <2>4. Placed'
    BY <1>3, <2>2, <2>3, Distinct DEF LifeInv, Placed, ListenStates, SessionStates
  <2>5. Unstarted'
    <3>1. \A u \in Running \ {"listen"} : at'[u] = at[u]
      BY <2>2, <2>3, Distinct DEF Running
    <3>2. ASSUME main.at = "init", NEW k \in main.i..6, Fixed[k] \in Running
          PROVE  at'[Fixed[k]] = "absent"
      <4>1. at[Fixed[k]] = "absent" /\ Fixed[k] # "listen"
        BY <2>1, <3>2 DEF LifeInv, Unstarted
      <4> QED
        BY <3>1, <3>2, <4>1
    <3> QED
      BY <1>1, <3>2 DEF LifeInv, Unstarted
  <2>6. InList' = InList
    BY <2>1 DEF InList, Elements
  <2>7. Listed'
    BY <1>3, <2>1, <2>2, <2>3, <2>6, Distinct DEF LifeInv, Listed
  <2>8. Entered'
    BY <1>1, <2>2, <2>3, Distinct DEF LifeInv, Entered
  <2>9. Freed'
    BY <2>1, <2>2, <2>3, Distinct DEF LifeInv, Freed, Types, SetsOK
  <2>10. SetsOK'
    BY <1>1, <2>1 DEF LifeInv, Types, SetsOK
  <2> QED
    BY <1>1, <1>2, <2>1, <2>3, <2>4, <2>5, <2>7, <2>8, <2>9, <2>10, Kept DEF LifeInv, Types
<1>9. CASE StopListening \/ OnExitTell
  <2>1. UNCHANGED <<deleted, tcpclients, accepted, shaken, astray, lost, count, loaded>>
    BY <1>9 DEF StopListening, OnExitTell, listener, counter
  <2>2. PICK a \in {"exit", "wait"} : at' = [at EXCEPT !["listen"] = a]
    BY <1>9 DEF StopListening, OnExitTell, Goes
  <2>3. at["listen"] \in {"accept", "exit"} /\ a \in ListenStates \ {"absent"}
    BY <1>9 DEF StopListening, OnExitTell, Goes, ListenStates
  <2>4. /\ AtOK' /\ Placed' /\ Unstarted' /\ Entered' /\ Freed'
        /\ at'["listen"] = a /\ \A c \in Conns : at'[c] = at[c]
    BY <1>1, <2>1, <2>2, <2>3, ListenMoves
  <2>5. InList' = InList
    BY <2>1 DEF InList, Elements
  <2>6. Listed'
    BY <1>3, <2>1, <2>3, <2>4, <2>5 DEF LifeInv, Listed
  <2>7. QuitOK'
    <3>1. CASE StopListening
      BY <3>1, Kept DEF StopListening
    <3>2. CASE OnExitTell
      BY <3>2 DEF OnExitTell, Told, LifeInv, Types, QuitOK
    <3> QED
      BY <1>9, <3>1, <3>2
  <2> QED
    BY <1>1, <1>2, <2>1, <2>4, <2>6, <2>7, Kept DEF LifeInv, Types
<1>10. CASE OnExitWait
  <2>1. UNCHANGED <<quit, accepted, shaken, astray, lost, count, loaded>> /\ at["listen"] = "wait"
    BY <1>10 DEF OnExitWait, counter
  <2>2. CASE tcpclients = <<>>
    <3>1. at' = [at EXCEPT !["listen"] = "ended"] /\ UNCHANGED <<deleted, tcpclients>>
      BY <1>10, <2>2 DEF OnExitWait
    <3>2. /\ AtOK' /\ Placed' /\ Unstarted' /\ Entered' /\ Freed'
          /\ at'["listen"] = "ended" /\ \A c \in Conns : at'[c] = at[c]
      BY <1>1, <2>1, <3>1, ListenMoves DEF ListenStates
    <3>3. InList' = InList
      BY <3>1 DEF InList, Elements
    <3>4. Listed'
      BY <1>3, <2>1, <2>2, <3>1, <3>2, <3>3 DEF LifeInv, Listed
    <3> QED
      BY <1>1, <1>2, <2>1, <3>1, <3>2, <3>4, Kept DEF LifeInv, Types
  <2>3. CASE tcpclients # <<>>
    <3>1. /\ at[Head(tcpclients)] = "ended" /\ deleted' = deleted \cup {Head(tcpclients)}
          /\ tcpclients' = Tail(tcpclients) /\ UNCHANGED at
      BY <1>10, <2>3 DEF OnExitWait
    <3>2. /\ Head(tcpclients) \in Conns
          /\ tcpclients' \in Seq(Conns) /\ OneEach(tcpclients')
          /\ InList' \subseteq InList /\ InList \subseteq InList' \cup {Head(tcpclients)}
      BY <1>3, <2>3, <3>1, TailList DEF InList
    <3>3. ListOK' /\ SetsOK' /\ Freed'
      BY <1>1, <2>1, <3>1, <3>2, Distinct DEF LifeInv, Types, ListOK, OneEach, SetsOK, Freed
    <3>4. Listed'
      BY <2>1, <3>1, <3>2 DEF LifeInv, Listed
    <3> QED
      BY <1>1, <1>2, <2>1, <3>1, <3>3, <3>4, Kept DEF LifeInv, Types
  <2> QED
    BY <2>2, <2>3
<1> QED
  BY <1>4, <1>5, <1>6, <1>7, <1>8, <1>9, <1>10 DEF ListenThread

-----------------------------------------------------------------------------
(* The invariant on which the others rest, for any configuration and any   *)
(* connections.                                                            *)
THEOREM LifeInvariant == Spec => []LifeInv
<1>1. LifeInv /\ [Next]_vars => LifeInv'
  <2> SUFFICES ASSUME LifeInv, [Next]_vars PROVE LifeInv'
    OBVIOUS
  <2>1. CASE UNCHANGED vars
    <3>1. UNCHANGED <<quitting, main, at, quit, deleted, clients, failed, seized, peer, tcpclients,
                      accepted, shaken, astray, lost, count, loaded>>
      BY <2>1 DEF vars, listener, counter
    <3>2. Entered'
      BY <3>1 DEF LifeInv, Entered
    <3> QED
      BY <3>1, <3>2, Kept DEF LifeInv, Types
  <2>2. CASE Next
    BY <2>2, MainStep, ListenStep, ServiceStep, SessionStep, SeizeStep, HangStep DEF Next
  <2> QED
    BY <2>1, <2>2
<1> QED
  BY <1>1, LifeInit, PTL DEF Spec

(* The states, lists and sets of the threads are of their types, and the   *)
(* list of sessions holds none twice.                                      *)
THEOREM LifeTypeCorrect == Spec => []TypeOK
<1>1. LifeInv => TypeOK
  BY TypesAre DEF LifeInv
<1> QED
  BY <1>1, LifeInvariant, PTL

(* A working thread has its entry in the client list, and one that has     *)
(* ended has none, unless it could not start or is a Level II device.      *)
THEOREM EntryAsLong == Spec => []EntryAsLongAsThread
<1>1. LifeInv => EntryAsLongAsThread
  <2> SUFFICES ASSUME LifeInv PROVE EntryAsLongAsThread
    OBVIOUS
  <2>1. \A t \in Threads \ {"listen", "worker"} : t \in Services \cup Conns
    BY Distinct
  <2> QED
    BY <2>1 DEF LifeInv, Entered, EntryAsLongAsThread
<1> QED
  BY <1>1, LifeInvariant, PTL

(* What is freed has ended, and the listen thread goes last of the         *)
(* sessions that its list holds.                                           *)
THEOREM NoneOutlives == Spec => []NoneOutlivesItsObject
<1>1. LifeInv => NoneOutlivesItsObject
  <2> SUFFICES ASSUME LifeInv PROVE NoneOutlivesItsObject
    OBVIOUS
  <2>1. \A t \in deleted : at[t] = "ended"
    BY DEF LifeInv, Freed
  <2>2. ASSUME "listen" \in deleted PROVE InList = {}
    <3>1. tcpclients = <<>>
      BY <2>1, <2>2 DEF LifeInv, Listed
    <3> QED
      BY <3>1 DEF InList, Elements
  <2> QED
    BY <2>1, <2>2 DEF LifeInv, Listed, NoneOutlivesItsObject
<1> QED
  BY <1>1, LifeInvariant, PTL
=============================================================================

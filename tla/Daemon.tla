------------------------------- MODULE Daemon --------------------------------
(***************************************************************************)
(* The life of the daemon: init starts its threads, run feeds the decision *)
(* matrix and collects the TCP sessions that have ended, cleanup stops and *)
(* joins every thread.  The listen thread makes a thread for each          *)
(* connection; the list of these is shared with the main thread without a  *)
(* lock, and so is the number of clients, which every session counts down. *)
(* A thread that works for the bus has an entry in the client list.        *)
(*                                                                         *)
(* Threads hang in what other modules have in detail: a driver's close     *)
(* (SocketCan), a READ of a session in binary mode (EventRouter), DM ADD   *)
(* and the rows of the matrix (DecisionMatrix).  Here each of them may     *)
(* happen wherever the thread can be at it.                                *)
(***************************************************************************)
EXTENDS Integers, Sequences, FiniteSets

CONSTANTS
  Services,    \* what the configuration turns on besides TCP/IP
  Conns,       \* the connections made, each with the thread that serves it
  MaxClients   \* VSCP_TCP_MAX_CLIENTS

Fixed == <<"worker", "device", "listen", "udpSend", "udpReceive", "daemon">>
StopOrder == <<"device", "udpSend", "udpReceive", "listen", "worker", "daemon">>

ASSUME ServicesAssumption == Services \subseteq {"device", "udpSend", "udpReceive", "daemon"}
ASSUME ConnsAssumption ==
  IsFiniteSet(Conns) /\ Conns \cap ({"main", "none"} \cup {Fixed[i] : i \in 1..6}) = {}

(* m_bTCPInterface is on: without it the collection of the main loop reads *)
(* through m_pTcpClientListenThread, which is NULL.                        *)
Running == Services \cup {"worker", "listen"}
Threads == Running \cup Conns

VARIABLES
  quitting,   \* m_bQuit of the control object
  main,       \* where the main thread is, the index it has come to, a session
  at,         \* where each thread is
  quit,       \* its m_bQuit (of the device item for a device)
  deleted,    \* thread objects freed
  clients,    \* m_clientItemList, by thread
  failed,     \* history: threads that ended with their entry in the list
  seized,     \* m_wxClientMutex is held by a thread that never goes on
  peer,       \* the other end of each connection
  tcpclients, \* m_tcpclients of the listen thread
  accepted,   \* the connection the listen thread is making a thread for
  shaken,     \* a node left the list while the listen thread was appending
  astray,     \* m_nodeLast is a node that is not linked to the others
  lost,       \* history: threads whose node is not in the list for that
  count,      \* m_numClients
  loaded      \* the value a thread has read of it and is about to change

listener == <<tcpclients, accepted, shaken, astray, lost>>
counter == <<count, loaded>>
vars == <<quitting, main, at, quit, deleted, clients, failed, seized, peer, listener, counter>>

Init ==
  /\ quitting = FALSE
  /\ main = [at |-> "init", i |-> 1, c |-> "none"]
  /\ at = [t \in Threads |-> "absent"]
  /\ quit = [t \in Threads |-> FALSE]
  /\ deleted = {} /\ clients = {} /\ failed = {} /\ seized = FALSE
  /\ peer = [c \in Conns |-> "none"]
  /\ tcpclients = <<>> /\ accepted = "none" /\ lost = {}
  /\ shaken = FALSE /\ astray = FALSE
  /\ count = 0 /\ loaded = [t \in Conns \cup {"listen"} |-> 0]

Goes(t, from, to) == at[t] = from /\ at' = [at EXCEPT ![t] = to]

(* addClient and removeClient, each under m_wxClientMutex.                 *)
addClient(t) == ~seized /\ clients' = clients \cup {t}
removeClient(t) == ~seized /\ clients' = clients \ {t}

-----------------------------------------------------------------------------
(* The main thread: init, run and cleanup.                                 *)

(* init goes through these in order; what is not turned on is passed over. *)
Starts(t, first) ==
  /\ main.at = "init" /\ main.i <= Len(Fixed) /\ Fixed[main.i] = t
  /\ main' = [main EXCEPT !.i = @ + 1]
  /\ at' = IF t \in Running THEN [at EXCEPT ![t] = first] ELSE at
  /\ UNCHANGED <<quitting, quit, deleted, clients, failed, seized, peer, listener, counter>>

startClientWorkerThread == Starts("worker", "loop")
startDeviceWorkerThreads == Starts("device", "new")
startTcpWorkerThread == Starts("listen", "new")
startUdpWorkerThreads == Starts("udpSend", "new") \/ Starts("udpReceive", "new")
startDaemonWorkerThread == Starts("daemon", "new")

(* The beginning of run: the client of the decision matrix joins.          *)
EnterLoop ==
  /\ main.at = "init" /\ main.i > Len(Fixed)
  /\ main' = [main EXCEPT !.at = "loop"]
  /\ addClient("main")
  /\ UNCHANGED <<quitting, at, quit, deleted, failed, seized, peer, listener, counter>>

(* sighandler, and SHUTDOWN from a session.                                *)
Stop ==
  /\ ~quitting /\ quitting' = TRUE
  /\ UNCHANGED <<main, at, quit, deleted, clients, failed, seized, peer, listener, counter>>

(* A turn of the main loop waits for the first session in the list that    *)
(* has raised m_bQuit.                                                     *)
Collect ==
  /\ main.at = "loop" /\ ~quitting
  /\ \E i \in DOMAIN tcpclients :
       /\ quit[tcpclients[i]]
       /\ \A j \in 1..(i - 1) : ~quit[tcpclients[j]]
       /\ main' = [main EXCEPT !.at = "wait", !.c = tcpclients[i]]
  /\ UNCHANGED <<quitting, at, quit, deleted, clients, failed, seized, peer, listener, counter>>

(* Mutant: the session is freed as soon as it has raised m_bQuit.          *)
JoinedAtOnce(c) == quit[c]

Joined(c) == at[c] = "ended"

(* A list that has c at most once, without it.                             *)
Without(list, c) ==
  IF \E i \in 1..Len(list) : list[i] = c
  THEN LET i == CHOOSE i \in 1..Len(list) : list[i] = c
       IN  SubSeq(list, 1, i - 1) \o SubSeq(list, i + 1, Len(list))
  ELSE list

(* wxThread::Wait has returned: out of the list and freed.  The node taken *)
(* may be the one that the listen thread is about to link the next to.     *)
(* When it is the last of the list m_nodeLast is set to the one before.    *)
Reap ==
  /\ main.at = "wait" /\ Joined(main.c)
  /\ tcpclients' = Without(tcpclients, main.c)
  /\ shaken' = (shaken \/ at["listen"] = "append")
  /\ astray' = (astray /\ tcpclients[Len(tcpclients)] # main.c)
  /\ deleted' = deleted \cup {main.c}
  /\ main' = [main EXCEPT !.at = "loop", !.c = "none"]
  /\ UNCHANGED <<quitting, at, quit, clients, failed, seized, peer, accepted, lost, counter>>

(* A row of the decision matrix does not end, or a session in DM ADD holds *)
(* m_mutexDM.                                                              *)
MatrixHangs ==
  /\ main.at = "loop"
  /\ main' = [main EXCEPT !.at = "hung"]
  /\ UNCHANGED <<quitting, at, quit, deleted, clients, failed, seized, peer, listener, counter>>

(* The end of run: the client of the decision matrix leaves.               *)
LeaveLoop ==
  /\ main.at = "loop" /\ quitting
  /\ main' = [main EXCEPT !.at = "stop", !.i = 1]
  /\ removeClient("main")
  /\ UNCHANGED <<quitting, at, quit, deleted, failed, seized, peer, listener, counter>>

(* Mutant: the thread is not told.                                         *)
TellQuietly(t) ==
  /\ main.at = "stop" /\ main.i <= Len(StopOrder) /\ StopOrder[main.i] = t
  /\ main' = IF t \in Running THEN [main EXCEPT !.at = "join"] ELSE [main EXCEPT !.i = @ + 1]
  /\ UNCHANGED <<quitting, at, quit, deleted, clients, failed, seized, peer, listener, counter>>

(* cleanup: each thread is told to quit, waited for and freed; one that    *)
(* was never made is passed over.                                          *)
Tell(t) ==
  /\ main.at = "stop" /\ main.i <= Len(StopOrder) /\ StopOrder[main.i] = t
  /\ IF t \in Running THEN main' = [main EXCEPT !.at = "join"] /\ quit' = [quit EXCEPT ![t] = TRUE]
     ELSE main' = [main EXCEPT !.i = @ + 1] /\ UNCHANGED quit
  /\ UNCHANGED <<quitting, at, deleted, clients, failed, seized, peer, listener, counter>>

Join(t) ==
  /\ main.at = "join" /\ StopOrder[main.i] = t /\ at[t] = "ended"
  /\ deleted' = deleted \cup {t}
  /\ main' = [main EXCEPT !.at = "stop", !.i = @ + 1]
  /\ UNCHANGED <<quitting, at, quit, clients, failed, seized, peer, listener, counter>>

Ended(t) == Tell(t) \/ Join(t)
stopDeviceWorkerThreads == Ended("device")
stopUdpWorkerThreads == Ended("udpSend") \/ Ended("udpReceive")
stopTcpWorkerThread == Ended("listen")
stopClientWorkerThread == Ended("worker")
stopDaemonWorkerThread == Ended("daemon")

CleanupDone ==
  /\ main.at = "stop" /\ main.i > Len(StopOrder)
  /\ main' = [main EXCEPT !.at = "done"]
  /\ UNCHANGED <<quitting, at, quit, deleted, clients, failed, seized, peer, listener, counter>>

init == \/ startClientWorkerThread \/ startDeviceWorkerThreads \/ startTcpWorkerThread
        \/ startUdpWorkerThreads \/ startDaemonWorkerThread
cleanup == \/ stopDeviceWorkerThreads \/ stopUdpWorkerThreads \/ stopTcpWorkerThread
           \/ stopClientWorkerThread \/ stopDaemonWorkerThread \/ CleanupDone

MainThread == init \/ EnterLoop \/ Collect \/ Reap \/ LeaveLoop \/ cleanup

-----------------------------------------------------------------------------
(* The threads that the configuration turns on.                            *)

Quiet == UNCHANGED <<quitting, main, quit, deleted, peer, listener, counter>>

Enter(s) == /\ Goes(s, "new", "added") /\ addClient(s)
            /\ UNCHANGED <<failed, seized>> /\ Quiet

(* The driver does not load or open, the host has no name, the socket of   *)
(* the receiver cannot be made or bound: each returns where it is.         *)
GiveUp(s) == /\ Goes(s, "added", "ended") /\ failed' = failed \cup {s}
             /\ UNCHANGED <<clients, seized>> /\ Quiet

Prepare(s) ==
  /\ at[s] = "added"
  /\ \E a \in IF s = "device" THEN {"loop", "level2"} ELSE {"loop"} :
       at' = [at EXCEPT ![s] = a]
  /\ UNCHANGED <<clients, failed, seized>> /\ Quiet

(* Mutant: a thread that stops leaves its entry in the list.               *)
WithdrawnNever(s) == clients

(* Every loop tests m_bQuit at least every 500 ms, a Level II driver every *)
(* 200 s, the receiver before each recvfrom.                               *)
Withdrawn(s) == clients \ {s}

Finish(s) ==
  /\ quit[s]
  /\ \/ /\ Goes(s, "loop", "ended") /\ ~seized
        /\ clients' = Withdrawn(s) /\ UNCHANGED failed
     \/ /\ Goes(s, "level2", "ended")
        /\ failed' = failed \cup {s} /\ UNCHANGED clients
  /\ UNCHANGED seized /\ Quiet

(* A driver's close, which comes before removeClient, may never return.    *)
CloseHangs ==
  /\ "device" \in Services /\ quit["device"] /\ Goes("device", "loop", "hung")
  /\ UNCHANGED <<clients, failed, seized>> /\ Quiet

(* recvfrom blocks until a datagram comes.                                 *)
Receive == /\ "udpReceive" \in Services /\ ~quit["udpReceive"]
           /\ Goes("udpReceive", "loop", "recvfrom")
           /\ UNCHANGED <<clients, failed, seized>> /\ Quiet
Datagram == /\ "udpReceive" \in Services
            /\ Goes("udpReceive", "recvfrom", "loop")
            /\ UNCHANGED <<clients, failed, seized>> /\ Quiet

(* The thread that empties the output queue has no entry in the list.  It  *)
(* hangs, as a session does that sends to one other, when it appends under *)
(* m_wxClientMutex to the queue of a session that hangs in READ.           *)
Seize(t) ==
  /\ \E c \in Conns : at[c] = "relock"
  /\ ~seized /\ seized' = TRUE
  /\ Goes(t, IF t = "worker" THEN "loop" ELSE "text", "hung")
  /\ UNCHANGED <<clients, failed>> /\ Quiet

Worker == /\ Goes("worker", "loop", "ended") /\ quit["worker"]
          /\ UNCHANGED <<clients, failed, seized>> /\ Quiet

Service(s) == Enter(s) \/ Prepare(s) \/ Finish(s)

-----------------------------------------------------------------------------
(* The listen thread.                                                      *)

Aside == UNCHANGED <<quitting, main, clients, failed, seized>>

(* The server socket is made, or is not Ok and the thread is done.         *)
Listen ==
  /\ at["listen"] = "new"
  /\ \E a \in {"accept", "exit"} : at' = [at EXCEPT !["listen"] = a]
  /\ UNCHANGED <<quit, deleted, peer, listener, counter>> /\ Aside

Accept ==
  /\ ~quit["listen"] /\ Goes("listen", "accept", "append")
  /\ \E c \in Conns : peer[c] # "none" /\ at[c] = "absent" /\ accepted' = c
  /\ UNCHANGED <<quit, deleted, peer, tcpclients, shaken, astray, lost, counter>> /\ Aside

(* Append while remove was at work: the node is linked or is not, and then *)
(* the next is linked to it, unless the list is empty by then.             *)
Append_ ==
  /\ Goes("listen", "append", "load")
  /\ \/ /\ ~astray \/ tcpclients = <<>>
        /\ tcpclients' = Append(tcpclients, accepted)
        /\ astray' = FALSE
        /\ UNCHANGED lost
     \/ /\ shaken \/ (astray /\ tcpclients # <<>>)
        /\ lost' = lost \cup {accepted}
        /\ astray' = TRUE
        /\ UNCHANGED tcpclients
  /\ shaken' = FALSE
  /\ UNCHANGED <<quit, deleted, peer, accepted, counter>> /\ Aside

(* m_numClients++ reads, and then writes.                                  *)
Load(t) == loaded' = [loaded EXCEPT ![t] = count] /\ UNCHANGED count
Store(t, d) == count' = loaded[t] + d /\ loaded' = [loaded EXCEPT ![t] = 0]

CountUp ==
  /\ \/ Goes("listen", "load", "store") /\ Load("listen")
     \/ Goes("listen", "store", "run") /\ Store("listen", 1)
  /\ UNCHANGED <<quit, deleted, peer, listener>> /\ Aside

(* Mutant: the thread is put in the list once more when it is run.         *)
RunSessionListed ==
  /\ at["listen"] = "run"
  /\ at' = [at EXCEPT !["listen"] = "accept", ![accepted] = "new"]
  /\ accepted' = "none" /\ tcpclients' = Append(tcpclients, accepted)
  /\ UNCHANGED <<quit, deleted, peer, shaken, astray, lost, counter>> /\ Aside

RunSession ==
  /\ at["listen"] = "run"
  /\ at' = [at EXCEPT !["listen"] = "accept", ![accepted] = "new"]
  /\ accepted' = "none"
  /\ UNCHANGED <<quit, deleted, peer, tcpclients, shaken, astray, lost, counter>> /\ Aside

StopListening ==
  /\ quit["listen"] /\ Goes("listen", "accept", "exit")
  /\ UNCHANGED <<quit, deleted, peer, listener, counter>> /\ Aside

Told == [t \in Threads |-> quit[t] \/ \E i \in DOMAIN tcpclients : tcpclients[i] = t]

(* OnExit: tell the sessions to terminate, then wait for each, free it,    *)
(* and empty the list.                                                     *)
OnExitTell ==
  /\ Goes("listen", "exit", "wait") /\ quit' = Told
  /\ UNCHANGED <<deleted, peer, listener, counter>> /\ Aside

OnExitWait ==
  /\ at["listen"] = "wait"
  /\ IF tcpclients = <<>> THEN at' = [at EXCEPT !["listen"] = "ended"] /\ UNCHANGED <<deleted, tcpclients>>
     ELSE /\ at[Head(tcpclients)] = "ended"
          /\ deleted' = deleted \cup {Head(tcpclients)}
          /\ tcpclients' = Tail(tcpclients)
          /\ UNCHANGED at
  /\ UNCHANGED <<quit, peer, accepted, shaken, astray, lost, counter>> /\ Aside

ListenThread == \/ Listen \/ Accept \/ Append_ \/ CountUp \/ RunSession
                \/ StopListening \/ OnExitTell \/ OnExitWait

-----------------------------------------------------------------------------
(* A session and the client at the other end.                              *)

Alone == UNCHANGED <<quitting, main, deleted, failed, seized, listener>>

Connect(c) ==
  /\ peer[c] = "none" /\ at["listen"] \notin {"absent", "new", "exit", "wait", "ended"}
  /\ peer' = [peer EXCEPT ![c] = "up"]
  /\ UNCHANGED <<at, quit, clients, counter>> /\ Alone

(* Where it makes a difference: the rest of a session looks at no peer.    *)
HangUp(c) ==
  /\ at[c] \in {"absent", "new", "text", "rcvloop", "binary"}
  /\ peer[c] = "up" /\ peer' = [peer EXCEPT ![c] = "down"]
  /\ UNCHANGED <<at, quit, clients, counter>> /\ Alone

(* Entry returns at once when the socket is found disconnected: m_bQuit    *)
(* stays down and the number of clients up.                                *)
Entry(c) ==
  /\ \/ Goes(c, "new", "welcome") /\ addClient(c)
     \/ Goes(c, "new", "ended") /\ peer[c] = "down" /\ UNCHANGED clients
  /\ UNCHANGED <<quit, peer, counter>> /\ Alone

Welcome(c) ==
  /\ Goes(c, "welcome", IF count > MaxClients THEN "leave" ELSE "text")
  /\ UNCHANGED <<quit, clients, peer, counter>> /\ Alone

(* RCVLOOP, BIN1, QUIT, the binary command CLOSE.                          *)
Command(c) ==
  /\ peer[c] = "up"
  /\ \/ ~quit[c] /\ \E a \in {"rcvloop", "binary", "leave"} : Goes(c, "text", a)
     \/ Goes(c, "binary", "text")
  /\ UNCHANGED <<quit, clients, peer, counter>> /\ Alone

(* What ends each loop without a word from the client.                     *)
Ends(c) == CASE at[c] = "text" -> quit[c] \/ peer[c] = "down"
             [] at[c] = "rcvloop" -> quitting \/ peer[c] = "down"
             [] at[c] = "binary" -> peer[c] = "down"
             [] OTHER -> FALSE

(* A receive loop that has lost its client has m_bRun down; the other two  *)
(* ways lead back to the command loop.                                     *)
EndLoop(c) ==
  /\ Ends(c)
  /\ at' = [at EXCEPT ![c] = IF @ = "text" \/ (@ = "rcvloop" /\ peer[c] = "down")
                             THEN "leave" ELSE "text"]
  /\ UNCHANGED <<quit, clients, peer, counter>> /\ Alone

(* A READ in binary mode of a queue that is not empty locks the mutex of   *)
(* the queue twice, DM ADD m_mutexDM.                                      *)
SessionHangs(c) ==
  /\ peer[c] = "up"
  /\ Goes(c, "binary", "relock") \/ Goes(c, "text", "hung")
  /\ UNCHANGED <<quit, clients, peer, counter>> /\ Alone

Leave(c) ==
  /\ \/ Goes(c, "leave", "load") /\ removeClient(c) /\ UNCHANGED <<quit, counter>>
     \/ Goes(c, "load", "store") /\ Load(c) /\ UNCHANGED <<quit, clients>>
     \/ Goes(c, "store", "flag") /\ Store(c, -1) /\ UNCHANGED <<quit, clients>>
     \/ /\ Goes(c, "flag", "return") /\ quit' = [quit EXCEPT ![c] = TRUE]
        /\ UNCHANGED <<clients, counter>>
     \/ Goes(c, "return", "ended") /\ UNCHANGED <<quit, clients, counter>>
  /\ peer' = IF at[c] = "flag" THEN [peer EXCEPT ![c] = "down"] ELSE peer
  /\ Alone

Session(c) == Entry(c) \/ Welcome(c) \/ EndLoop(c) \/ Leave(c)

-----------------------------------------------------------------------------
Next ==
  \/ MainThread \/ Stop \/ ListenThread \/ Receive \/ Datagram \/ Worker
  \/ MatrixHangs \/ CloseHangs \/ Seize("worker")
  \/ \E s \in Services : Service(s) \/ GiveUp(s)
  \/ \E c \in Conns : Session(c) \/ Connect(c) \/ HangUp(c) \/ Command(c)
                      \/ SessionHangs(c) \/ Seize(c)

Spec == Init /\ [][Next]_vars

(* Every thread that can go on does.  Nothing is assumed of the clients    *)
(* and of the network, and nothing makes the daemon stop.                  *)
Fairness ==
  /\ WF_vars(MainThread) /\ WF_vars(ListenThread) /\ WF_vars(Worker)
  /\ \A s \in Services : WF_vars(Service(s))
  /\ \A c \in Conns : WF_vars(Session(c))
FairSpec == Spec /\ Fairness

-----------------------------------------------------------------------------
(* The states and lists are of their types; the list of sessions holds     *)
(* each at most once, and only threads that have been made.                *)
TypeOK ==
  /\ quitting \in BOOLEAN /\ seized \in BOOLEAN /\ shaken \in BOOLEAN /\ astray \in BOOLEAN
  /\ main \in [at: {"init", "loop", "wait", "hung", "stop", "join", "done"},
               i: 1..7, c: Conns \cup {"none"}]
  /\ at \in [Threads -> {"absent", "new", "added", "loop", "level2", "recvfrom", "accept",
                         "append", "load", "store", "run", "exit", "wait", "welcome", "text",
                         "rcvloop", "binary", "relock", "hung", "leave", "flag", "return", "ended"}]
  /\ quit \in [Threads -> BOOLEAN]
  /\ deleted \subseteq Threads /\ failed \subseteq Services /\ lost \subseteq Conns
  /\ clients \subseteq Threads \cup {"main"}
  /\ peer \in [Conns -> {"none", "up", "down"}]
  /\ accepted \in Conns \cup {"none"}
  /\ count \in Int /\ loaded \in [Conns \cup {"listen"} -> Int]
  /\ tcpclients \in Seq(Conns)
  /\ \A i, j \in DOMAIN tcpclients : tcpclients[i] = tcpclients[j] => i = j

(* A session has its entry in the client list as long as the thread that   *)
(* reads its queue works or hangs, and of those that have ended only one   *)
(* that could not start and a Level II device leave theirs behind.         *)
EntryAsLongAsThread ==
  /\ \A t \in Threads \ {"listen", "worker"} :
       at[t] \in {"added", "loop", "level2", "recvfrom", "welcome", "text", "rcvloop", "binary",
                  "relock", "hung", "leave"} => t \in clients
  /\ \A t \in clients \ {"main"} : at[t] = "ended" => t \in failed
  /\ main.at \in {"stop", "join", "done"} => "main" \notin clients

(* A thread object is freed only when its thread has returned, and the     *)
(* listen thread, which owns the number of clients that every session      *)
(* counts down, only after every session that its list had not lost.       *)
NoneOutlivesItsObject ==
  /\ \A t \in deleted : at[t] = "ended"
  /\ "listen" \in deleted => \A c \in Conns \ lost : at[c] \in {"absent", "ended"}

(* The places where the stop hangs: in a row of the matrix or DM ADD, for  *)
(* m_wxClientMutex, and in the join of a driver that does not close, of a  *)
(* receiver whom nobody sends a datagram, of a listen thread that waits    *)
(* for a session that hangs or that is in binary mode, whose loop looks at *)
(* no m_bQuit, as long as its client stays.                                *)
Blocked ==
  \/ main.at = "hung"
  \/ main.at \in {"init", "loop", "join"} /\ seized
  \/ /\ main.at = "join"
     /\ CASE StopOrder[main.i] = "device" -> at["device"] = "hung"
          [] StopOrder[main.i] = "udpReceive" -> at["udpReceive"] = "recvfrom"
          [] StopOrder[main.i] = "listen" ->
               /\ at["listen"] = "wait"
               /\ \E c \in Conns : at[c] \in {"hung", "relock"} \/ (at[c] = "binary" /\ peer[c] = "up")
          [] OTHER -> FALSE

(* Told to stop, the daemon stops, whatever its threads and sessions were  *)
(* at, or it hangs for ever in one of the places that Blocked names.       *)
ShutdownEnds == quitting ~> (main.at = "done" \/ []Blocked)
=============================================================================

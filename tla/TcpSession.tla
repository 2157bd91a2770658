----------------------------- MODULE TcpSession -----------------------------
(***************************************************************************)
(* One TCP session of the daemon (TcpClientThread) and the client library  *)
(* (VscpTcpIf) at the other end of its socket: login and rights, one       *)
(* answer for each command, RETR, the receive loop, the binary frames, and *)
(* a session that ends when its client goes.                               *)
(*                                                                         *)
(* What the daemon writes arrives in order but in pieces of any size.  The *)
(* library looks for "+OK" and "-OK" in what has come so far, waits two    *)
(* seconds or so, and then gives up; the answer may still come later.      *)
(***************************************************************************)
EXTENDS Integers, Sequences, FiniteSets

CONSTANTS
  Users,        \* names in the user list
  NoUser,       \* no name
  Passwords,    \* what may be given as a password
  Password,     \* the password of each user
  Words,        \* the rights in the configuration of each user, in order
  Remotes,      \* the addresses each user may come from; wildcards are short
  Host,         \* the address of this client
  MaxCommands,  \* bound: commands the client writes
  MaxEvents,    \* bound: events for this session
  MaxFaults,    \* bound: kinds of trouble after which the client only closes
  MaxDown       \* bound: what waits in the socket when RCVLOOP is idle

(* CUserList::addUser: each word overwrites the rights.                    *)
RightOf(word) ==
  CASE word = "admin" -> 15 [] word = "user" -> 6 [] word = "driver" -> 4 [] OTHER -> 0
Rights(u) == IF Words[u] = <<>> THEN 0..15 ELSE {RightOf(Words[u][Len(Words[u])])}

(* CUserList::checkRemote: nothing listed, the address, or a wildcard for  *)
(* its last one, two or three numbers.                                     *)
FromThere(u) ==
  Remotes[u] = {} \/ \E k \in 1..Len(Host) : SubSeq(Host, 1, k) \in Remotes[u]

(* The rights that the command loop asks for: for NOOP none, not even a    *)
(* login; for VERS a login.  CDTA stands for STAT, INFO and CHID too,      *)
(* READVAR is VARIABLE READ and WRITEVAR VARIABLE WRITE.                   *)
Free == {"NOOP"}
Needs == [NOOP |-> 0, VERS |-> 0, SEND |-> 4, RETR |-> 2, CDTA |-> 1, SGID |-> 6, SFLT |-> 4, SMSK |-> 4,
          BIN1 |-> 4, RCVLOOP |-> 2, READVAR |-> 15, WRITEVAR |-> 15, INTERFACE |-> 15,
          SHUTDOWN |-> 15]
Names == DOMAIN Needs \cup {"USER", "PASS", "QUIT"}
Frames == {"noop", "send", "read", "close"}

(* The calls of the library: the commands each writes, one after the       *)
(* other's answer, and whether it refuses to in the receive loop.          *)
Method(cmds, guarded) == [cmds |-> cmds, guarded |-> guarded]
doCmdOpen == Method(<<"USER", "PASS">>, FALSE)
doCmdClose == Method(<<"QUIT">>, FALSE)
doCmdNOOP == Method(<<"NOOP">>, TRUE)
doCmdSend == Method(<<"SEND">>, TRUE)
doCmdSendEx == doCmdSend
doCmdSendLevel1 == doCmdSend
doCmdReceive == Method(<<"RETR">>, TRUE)
doCmdReceiveEx == doCmdReceive
doCmdReceiveLevel1 == doCmdReceive
doCmdEnterReceiveLoop == Method(<<"RCVLOOP">>, TRUE)
doCmdDataAvailable == Method(<<"CDTA">>, TRUE)
doCmdStatus == Method(<<"CDTA">>, TRUE)
doCmdStatistics == Method(<<"CDTA">>, TRUE)
doCmdVersion == Method(<<"VERS">>, TRUE)
doCmdFilter == Method(<<"SFLT", "SMSK">>, TRUE)
doCmdGetGUID == Method(<<"SGID">>, TRUE)
doCmdSetGUID == Method(<<"SGID">>, TRUE)
doCmdGetChannelInfo == Method(<<"CDTA", "SGID">>, TRUE)
doCmdGetChannelID == Method(<<"CDTA">>, FALSE)
doCmdInterfaceList == Method(<<"INTERFACE">>, FALSE)
doCmdShutDown == Method(<<"SHUTDOWN">>, FALSE)
doCmdBinary == Method(<<"BIN1">>, TRUE)

(* The calls for the variables differ in how they read and write a value.  *)
getVariable == Method(<<"READVAR">>, FALSE)
getVariableString == getVariable
getVariableBool == getVariable
getVariableInt == getVariable
getVariableLong == getVariable
getVariableDouble == getVariable
getVariableMeasurement == getVariable
getVariableEvent == getVariable
getVariableEventEx == getVariable
getVariableGUID == getVariable
getVariableVSCPdata == getVariable
getVariableVSCPclass == getVariable
getVariableVSCPtype == getVariable
setVariable == Method(<<"WRITEVAR">>, FALSE)
setVariableString == setVariable
setVariableBool == setVariable
setVariableInt == setVariable
setVariableLong == setVariable
setVariableDouble == setVariable
setVariableMeasurement == setVariable
setVariableEvent == setVariable
setVariableEventEx == setVariable
setVariableGUID == setVariable
setVariableVSCPdata == setVariable
setVariableVSCPclass == setVariable
setVariableVSCPtype == setVariable

Calls == {doCmdNOOP, doCmdSend, doCmdSendEx, doCmdSendLevel1, doCmdReceive,
          doCmdReceiveEx, doCmdReceiveLevel1, doCmdEnterReceiveLoop, doCmdDataAvailable, doCmdStatus, doCmdStatistics,
          doCmdVersion, doCmdFilter, doCmdGetGUID, doCmdSetGUID, doCmdGetChannelInfo,
          doCmdGetChannelID, doCmdInterfaceList, doCmdShutDown, doCmdBinary,
          getVariableString, getVariableBool, getVariableInt, getVariableLong,
          getVariableDouble, getVariableMeasurement, getVariableEvent, getVariableEventEx,
          getVariableGUID, getVariableVSCPdata, getVariableVSCPclass, getVariableVSCPtype,
          setVariableString, setVariableBool, setVariableInt, setVariableLong,
          setVariableDouble, setVariableMeasurement, setVariableEvent, setVariableEventEx,
          setVariableGUID, setVariableVSCPdata, setVariableVSCPclass, setVariableVSCPtype}

VARIABLES
  name,      \* m_wxUserName, once m_bUsername
  user,      \* m_pUserItem
  right,     \* its m_userRights
  verified,  \* m_bVerified
  mode,      \* the loop the session is in; "stuck" when it waits for a mutex
             \* that it holds, "gone" when it has ended
  queue,     \* m_clientInputQueue
  made,      \* events so far
  taken,     \* history: events taken off the queue for this client
  up, down,  \* what is in the socket, each way
  open,      \* the client's socket: m_psock
  inLoop,    \* m_bModeReceiveLoop
  call,      \* the call under way, the step it is at, who logs in
  reply,     \* m_strReply, while a call is under way
  buffer,    \* strBuf of doCmdBlockReceive, which is static
  got,       \* events handed to the caller
  n,         \* number of the last command written
  last,      \* history: a command and the one whose answer was taken for it
  faults     \* history: what happened on this connection

login == <<name, user, right, verified>>
server == <<login, mode, queue, made, taken>>
nobody == <<NoUser, NoUser>>
idle == [cmds |-> <<>>, at |-> 0, who |-> nobody]
client == <<open, inLoop, call, reply, buffer, got, n, last, faults>>
vars == <<server, up, down, client>>

Token == [k: {"ok", "no", "tail", "value", "quoted", "event", "frame"}, of: Nat, ev: Nat]
Mark(k, c) == [k |-> k, of |-> c, ev |-> 0]
Event(e, c) == [k |-> "event", of |-> c, ev |-> e]

(* A status line is what the library looks for and the rest of the line.   *)
Ok(c) == <<Mark("ok", c), Mark("tail", c)>>
No(c) == <<Mark("no", c), Mark("tail", c)>>

(* The client is not connected, or logged in with nothing under way.       *)
Init ==
  /\ open \in BOOLEAN
  /\ IF open
     THEN /\ mode = "text" /\ verified = TRUE
          /\ user \in {u \in Users : FromThere(u)} /\ name = user /\ right \in Rights(user)
     ELSE /\ mode = "gone" /\ verified = FALSE
          /\ user = NoUser /\ name = NoUser /\ right = 0
  /\ queue = <<>> /\ made = 0 /\ taken = {}
  /\ up = <<>> /\ down = <<>>
  /\ inLoop = FALSE /\ call = idle
  /\ reply = <<>> /\ buffer = <<>> /\ got = <<>>
  /\ n = 0
  /\ last = [asked |-> 0, answer |-> 0]
  /\ faults = {}

-----------------------------------------------------------------------------
(* The session.                                                            *)

(* Another thread gives the session an event, which it may do from the     *)
(* start of the session, before anybody has logged in.  A session that is  *)
(* stuck keeps the mutex of its queue.                                     *)
Arrive ==
  /\ mode \notin {"gone", "stuck"}
  /\ made < MaxEvents
  /\ made' = made + 1
  /\ queue' = Append(queue, made + 1)
  /\ UNCHANGED <<login, mode, taken, up, down, client>>

(* The next command in the text loop.                                      *)
Reads(c) == mode = "text" /\ up # <<>> /\ Head(up).c = c /\ up' = Tail(up)
This == Head(up).n
Allowed(c) == verified /\ right >= Needs[c]
Writes(tokens) == down' = IF open THEN down \o tokens ELSE down
Stays == UNCHANGED <<mode, queue, made, taken>>

(* Not logged in, or not enough rights for it.                             *)
Refused(c) ==
  /\ Reads(c)
  /\ c \notin Free /\ ~Allowed(c)
  /\ Writes(No(This))
  /\ Stays /\ UNCHANGED <<login, client>>

(* USER and PASS with nothing after them are unknown commands: the spaces  *)
(* are trimmed off before the command is looked up.  PASS needs a name.    *)
Unknown ==
  /\ Reads("USER") \/ Reads("PASS")
  /\ Head(up).arg = NoUser \/ (Head(up).c = "PASS" /\ ~verified /\ name = NoUser)
  /\ Writes(No(This))
  /\ Stays /\ UNCHANGED <<login, client>>

User ==
  /\ Reads("USER")
  /\ Head(up).arg # NoUser
  /\ name' = IF verified THEN name ELSE Head(up).arg
  /\ Writes(Ok(This))
  /\ Stays /\ UNCHANGED <<user, right, verified, client>>

(* Mutant: the address is not looked at.                                   *)
AcceptedAnywhere(u, p) == u \in Users /\ p = Password[u]

(* The password is right, and the user may come from this host.            *)
Accepted(u, p) == u \in Users /\ p = Password[u] /\ FromThere(u)

PassGood ==
  /\ Reads("PASS")
  /\ Head(up).arg # NoUser
  /\ verified \/ Accepted(name, Head(up).arg)
  /\ IF verified THEN UNCHANGED <<user, right, verified>>
     ELSE user' = name /\ verified' = TRUE /\ right' \in Rights(name)
  /\ Writes(Ok(This))
  /\ Stays /\ UNCHANGED <<name, client>>

(* Any other password ends the session; m_pUserItem is set all the same    *)
(* when only the address was wrong.                                        *)
PassBad ==
  /\ Reads("PASS")
  /\ Head(up).arg # NoUser /\ ~verified /\ name # NoUser
  /\ ~Accepted(name, Head(up).arg)
  /\ IF name \in Users /\ Head(up).arg = Password[name]
     THEN user' = name /\ right' \in Rights(name)
     ELSE UNCHANGED <<user, right>>
  /\ mode' = "gone"
  /\ Writes(No(This))
  /\ UNCHANGED <<name, verified, queue, made, taken, client>>

Noop ==
  /\ Reads("NOOP")
  /\ Writes(Ok(This))
  /\ Stays /\ UNCHANGED <<login, client>>

(* The event is sent, or is not well formed.                               *)
Send ==
  /\ Reads("SEND") /\ Allowed("SEND")
  /\ Writes(Ok(This)) \/ Writes(No(This))
  /\ Stays /\ UNCHANGED <<login, client>>

(* The output queue is full: the answer is that the buffer is full, and    *)
(* then, m_bOK being TRUE still, "+OK" as well.  (How full the queue is,   *)
(* is in EventRouter.)                                                     *)
SendFull ==
  /\ Reads("SEND") /\ Allowed("SEND")
  /\ Writes(No(This) \o Ok(This))
  /\ faults' = faults \cup {"full"}
  /\ Stays /\ UNCHANGED <<login, open, inLoop, call, reply, buffer, got, n, last>>

(* CDTA, STAT, INFO, CHID and VERS: a line, and the status.                *)
Query(c) ==
  /\ Reads(c) /\ Allowed(c)
  /\ Writes(<<Mark("value", This)>> \o Ok(This))
  /\ Stays /\ UNCHANGED <<login, client>>

DataAvailable == Query("CDTA")
GetStatistics == Query("CDTA")
GetStatus     == Query("CDTA")
GetChannelID  == Query("CDTA")
GetVersion    == Query("VERS")

(* The status alone.  SGID is not refused, with or without a GUID after it.*)
Settle(c) ==
  /\ Reads(c) /\ Allowed(c)
  /\ Writes(Ok(This)) \/ (c # "SGID" /\ Writes(No(This)))
  /\ Stays /\ UNCHANGED <<login, client>>

SetChannelGUID == Settle("SGID")
SetFilter      == Settle("SFLT")
SetMask        == Settle("SMSK")
WriteVariable  == Settle("WRITEVAR")

(* A variable or a device's name is sent as it is, whatever it contains.   *)
Text(c) ==
  /\ Reads(c) /\ Allowed(c)
  /\ \/ \E k \in {"value", "quoted"} : Writes(<<Mark(k, This)>> \o Ok(This))
     \/ c = "READVAR" /\ Writes(No(This))
  /\ Stays /\ UNCHANGED <<login, client>>

ReadVariable   == Text("READVAR")
ListInterfaces == Text("INTERFACE")

(* Mutant: the event stays in the queue.                                   *)
RetrieveKeeps ==
  /\ Reads("RETR") /\ Allowed("RETR")
  /\ IF queue = <<>> THEN Writes(No(This)) /\ UNCHANGED <<queue, taken>>
     ELSE Writes(<<Event(Head(queue), This)>> \o Ok(This)) /\ UNCHANGED queue
          /\ taken' = taken \cup {Head(queue)}
  /\ UNCHANGED <<login, mode, made, client>>

Retrieve ==
  /\ Reads("RETR") /\ Allowed("RETR")
  /\ IF queue = <<>> THEN Writes(No(This)) /\ UNCHANGED <<queue, taken>>
     ELSE Writes(<<Event(Head(queue), This)>> \o Ok(This)) /\ queue' = Tail(queue)
          /\ taken' = taken \cup {Head(queue)}
  /\ UNCHANGED <<login, mode, made, client>>

EnterRcvLoop ==
  /\ Reads("RCVLOOP") /\ Allowed("RCVLOOP")
  /\ mode' = "loop"
  /\ Writes(Ok(This))
  /\ UNCHANGED <<login, queue, made, taken, client>>

(* SHUTDOWN writes nothing to one who is logged in.                        *)
Shutdown ==
  /\ Reads("SHUTDOWN") /\ Allowed("SHUTDOWN")
  /\ mode' = "gone"
  /\ UNCHANGED <<login, queue, made, taken, down, client>>

Quit ==
  /\ Reads("QUIT")
  /\ Writes(Ok(This))
  /\ mode' = "gone"
  /\ UNCHANGED <<login, queue, made, taken, client>>

(* RCVLOOP: an event when there is one, "+OK" after two seconds without.   *)
(* Nothing is read from the socket any more.                               *)
LoopEvent ==
  /\ mode = "loop" /\ queue # <<>>
  /\ Writes(<<Event(Head(queue), 0)>>)
  /\ queue' = Tail(queue) /\ taken' = taken \cup {Head(queue)}
  /\ UNCHANGED <<login, mode, made, up, client>>

LoopIdle ==
  /\ mode = "loop" /\ queue = <<>> /\ open
  /\ Len(down) < MaxDown
  /\ Writes(Ok(0))
  /\ UNCHANGED <<server, up, client>>

EnterBinary ==
  /\ Reads("BIN1") /\ Allowed("BIN1")
  /\ mode' = "binary"
  /\ Writes(Ok(This))
  /\ UNCHANGED <<login, queue, made, taken, client>>

(* One read may return several frames; the first is handled.               *)
FirstFrame(commands) ==
  /\ mode = "binary" /\ up # <<>>
  /\ Head(up).c \in commands
  /\ \E k \in 1..Len(up) : up' = SubSeq(up, k + 1, Len(up))
  /\ UNCHANGED <<login, client>>

FrameNoop == FirstFrame({"noop"}) /\ Writes(<<Mark("frame", This)>>) /\ Stays

(* The event is queued, or an error frame says why not.                    *)
FrameSend == FirstFrame({"send"}) /\ Writes(<<Mark("frame", This)>>) /\ Stays

(* The first event of the queue, or a frame that there is none.            *)
FrameRead ==
  /\ FirstFrame({"read"})
  /\ IF queue = <<>> THEN Writes(<<Mark("frame", This)>>) /\ Stays
     ELSE /\ Writes(<<[Mark("frame", This) EXCEPT !.ev = Head(queue)]>>)
          /\ queue' = Tail(queue) /\ taken' = taken \cup {Head(queue)}
          /\ UNCHANGED <<mode, made>>

(* To take it the session locks the mutex of its queue, which it holds.    *)
(* Whether the second Lock blocks for ever or fails is left open.          *)
FrameHangs ==
  /\ FirstFrame({"read"}) /\ queue # <<>>
  /\ mode' = "stuck"
  /\ UNCHANGED <<queue, made, taken, down>>

FrameClose ==
  /\ FirstFrame({"close"})
  /\ mode' = "text"
  /\ UNCHANGED <<queue, made, taken, down>>

(* What is not a frame is passed over.                                     *)
FrameOther == FirstFrame(Names) /\ Stays /\ UNCHANGED down

Frame == FrameNoop \/ FrameSend \/ FrameRead \/ FrameHangs \/ FrameClose \/ FrameOther

(* Mutant: RCVLOOP does not look whether the client is still there.        *)
NoticeText ==
  /\ mode \in {"text", "binary"} /\ ~open
  /\ mode' = "gone"
  /\ UNCHANGED <<login, queue, made, taken, up, down, client>>

(* The client is gone: a read fails or returns nothing, or, in the receive *)
(* loop and the binary mode, IsDisconnected says so.                       *)
Notice ==
  /\ mode \notin {"gone", "stuck"} /\ ~open
  /\ mode' = "gone"
  /\ UNCHANGED <<login, queue, made, taken, up, down, client>>

-----------------------------------------------------------------------------
(* The library.                                                            *)

(* Write a command and wait for its status: checkReturnValue empties       *)
(* m_strReply first.                                                       *)
Command(c, arg, num) == [c |-> c, n |-> num, arg |-> arg]
Argument(c, w) == IF c = "USER" THEN w[1] ELSE IF c = "PASS" THEN w[2] ELSE NoUser
Post(c, w) ==
  /\ n' = n + 1
  /\ up' = IF mode = "gone" THEN up ELSE Append(up, Command(c, Argument(c, w), n + 1))

(* r is what m_strReply holds.                                             *)
(* Mutant: the reply is not emptied.                                       *)
AskDirty(cmds, at, w, r) ==
  /\ call' = [cmds |-> cmds, at |-> at, who |-> w]
  /\ Post(cmds[at], w)
  /\ reply' = r

Ask(cmds, at, w, r) ==
  /\ call' = [cmds |-> cmds, at |-> at, who |-> w]
  /\ Post(cmds[at], w)
  /\ reply' = <<>>

(* doCmdOpen.  The last session has ended; the daemon takes the connection *)
(* and greets, or has too many clients.  Waiting for the greeting is step  *)
(* 0.                                                                      *)
Connect ==
  /\ call = idle /\ mode = "gone"
  /\ n < MaxCommands
  /\ \E u \in Users \cup {NoUser}, p \in Passwords \cup {NoUser} :
       call' = [cmds |-> doCmdOpen.cmds, at |-> 0, who |-> <<u, p>>]
  /\ name' = NoUser /\ user' = NoUser /\ right' = 0 /\ verified' = FALSE
  /\ queue' = <<>> /\ taken' = {}
  /\ up' = <<>>
  /\ \/ mode' = "text" /\ down' = Ok(n + 1)
     \/ mode' = "gone" /\ down' = No(n + 1)
  /\ open' = TRUE
  /\ n' = n + 1
  /\ reply' = <<>>
  /\ faults' = {}
  /\ last' = [asked |-> n + 1, answer |-> n + 1]
  /\ UNCHANGED <<made, inLoop, buffer, got>>

Begin(m) ==
  /\ call = idle /\ open
  /\ n < MaxCommands /\ Cardinality(faults) <= MaxFaults
  /\ inLoop => ~m.guarded
  /\ Ask(m.cmds, 1, nobody, reply)
  /\ UNCHANGED <<server, down, open, inLoop, buffer, got, last, faults>>

Close ==
  /\ call = idle /\ open
  /\ Ask(doCmdClose.cmds, 1, nobody, reply)
  /\ UNCHANGED <<server, down, open, inLoop, buffer, got, last, faults>>

(* The binary calls write a frame.  Binary_WriteMsg returns false when it  *)
(* could write, so that they never read the answer; doBinaryReceive does,  *)
(* and Binary_ReadMsg returns false as well: what it read is lost.         *)
BinaryCall(f) ==
  /\ call = idle /\ open /\ ~inLoop
  /\ n < MaxCommands
  /\ "binary" \in faults /\ faults \cap {"gaveUp", "quoted"} = {}
  /\ Cardinality(faults) <= MaxFaults
  /\ n' = n + 1
  /\ up' = IF mode = "gone" THEN up ELSE Append(up, Command(f, NoUser, n + 1))
  /\ IF f = "read" /\ down # <<>> THEN down' = Tail(down) ELSE UNCHANGED down
  /\ UNCHANGED <<server, open, inLoop, call, reply, buffer, got, last, faults>>

doBinaryNOOP      == BinaryCall("noop")
doBinarySend      == BinaryCall("send")
doBinarySendEx    == BinaryCall("send")
doBinaryReceive   == BinaryCall("read")
doBinaryReceiveEx == BinaryCall("read")
doBinaryClose     == BinaryCall("close")

(* What a call does when it has succeeded.  The reply is kept until the    *)
(* next call empties it, but not used.                                     *)
Places(r, kinds) == {i \in 1..Len(r) : r[i].k \in kinds}
Firsts(S) == {i \in S : \A j \in S : i <= j}

(* doCmdReceive takes the first line of the reply, if it is an event.      *)
Received(r) == IF r[1].k = "event" THEN Append(got, r[1].ev) ELSE got

EndCall(r) ==
  /\ call' = idle
  /\ got' = IF call.cmds = doCmdReceive.cmds THEN Received(r) ELSE got
  /\ inLoop' = (inLoop \/ call.cmds = doCmdEnterReceiveLoop.cmds)
  /\ open' = (call.cmds # doCmdClose.cmds)

(* One Read of checkReturnValue returns what has come, at least a byte.    *)
(* "+OK" anywhere counts before "-OK".  When the time was up before the    *)
(* read, the answer is taken and the call fails.                           *)
Answers(r) == Places(r, {"ok", "quoted"})
Denials(r) == Places(r, {"no"})
Split(r) == r[Len(r)].k \in {"ok", "no"}
Quoted(r) == Answers(r) # {} /\ Places(r, {"ok"}) = {}

(* The receive loop drops what came with its "+OK".                        *)
Faults(r, late) ==
  (IF late THEN {"gaveUp"} ELSE {})
  \cup (IF Split(r) THEN {"split"} ELSE {})
  \cup (IF Quoted(r) THEN {"quoted"} ELSE {})
  \cup {IF c = "RCVLOOP" THEN "loop" ELSE "binary" :
           c \in {call.cmds[i] : i \in 1..Len(call.cmds)} \cap {"RCVLOOP", "BIN1"}}

Pieces(k) == reply \o SubSeq(down, 1, k)

Read(k) ==
  /\ call # idle /\ k \in 1..Len(down)
  /\ down' = SubSeq(down, k + 1, Len(down))
  /\ LET r      == Pieces(k)
         status == IF Answers(r) # {} THEN Answers(r) ELSE Denials(r)
     IN  IF status = {}
         THEN /\ reply' = r
              /\ UNCHANGED <<up, open, inLoop, call, got, n, last, faults>>
         ELSE /\ last' = [asked |-> n, answer |-> r[CHOOSE i \in Firsts(status) : TRUE].of]
              /\ \E late \in BOOLEAN :
                   /\ faults' = faults \cup Faults(r, late)
                   /\ IF ~late /\ Answers(r) # {} /\ call.at < Len(call.cmds)
                      THEN /\ Ask(call.cmds, call.at + 1, call.who, r)
                           /\ UNCHANGED <<open, inLoop, got>>
                      ELSE /\ reply' = <<>>
                           /\ UNCHANGED <<up, n>>
                           /\ IF ~late /\ Answers(r) # {} THEN EndCall(r)
                              ELSE /\ call' = idle
                                   /\ open' = (call.cmds # doCmdClose.cmds)
                                   /\ UNCHANGED <<inLoop, got>>
  /\ UNCHANGED <<server, buffer>>

(* Mutant: only a call of RCVLOOP or QUIT gives up.                        *)
GiveUpSeldom ==
  /\ call.cmds \in {doCmdEnterReceiveLoop.cmds, doCmdClose.cmds}
  /\ call' = idle
  /\ open' = (call.cmds # doCmdClose.cmds)
  /\ faults' = faults \cup {"gaveUp"}
  /\ reply' = <<>>
  /\ UNCHANGED <<server, up, down, inLoop, buffer, got, n, last>>

(* No status within the time, or the connection is lost.                   *)
GiveUp ==
  /\ call # idle
  /\ call' = idle
  /\ open' = (call.cmds # doCmdClose.cmds)
  /\ faults' = faults \cup {"gaveUp"}
  /\ reply' = <<>>
  /\ UNCHANGED <<server, up, down, inLoop, buffer, got, n, last>>

(* doCmdBlockReceive: complete lines that are no events are passed over,   *)
(* and the first event is handed out.                                      *)
Rest(b) == IF b # <<>> /\ b[Len(b)].k \in {"ok", "no"} THEN <<b[Len(b)]>> ELSE <<>>

BlockReceive(k) ==
  /\ call = idle /\ open /\ inLoop
  /\ k \in 1..Len(down)
  /\ down' = SubSeq(down, k + 1, Len(down))
  /\ LET b      == buffer \o SubSeq(down, 1, k)
         events == Places(b, {"event"})
     IN  IF events = {} THEN buffer' = Rest(b) /\ UNCHANGED got
         ELSE \E i \in Firsts(events) :
                /\ got' = Append(got, b[i].ev)
                /\ buffer' = SubSeq(b, i + 1, Len(b))
  /\ UNCHANGED <<server, up, open, inLoop, call, reply, n, last, faults>>

-----------------------------------------------------------------------------
Login == User \/ PassGood \/ PassBad \/ Unknown
Serve ==
  \/ \E c \in DOMAIN Needs : Refused(c)
  \/ DataAvailable \/ GetStatistics \/ GetStatus \/ GetChannelID \/ GetVersion
  \/ SetChannelGUID \/ SetFilter \/ SetMask \/ WriteVariable
  \/ ReadVariable \/ ListInterfaces
  \/ Noop \/ Send \/ Retrieve \/ EnterRcvLoop \/ Shutdown \/ Quit \/ EnterBinary
Server == Login \/ Serve \/ SendFull \/ LoopEvent \/ LoopIdle \/ Frame \/ Notice
Wait == (\E k \in 1..Len(down) : Read(k)) \/ GiveUp
Client ==
  \/ Connect \/ Close \/ Wait
  \/ \E m \in Calls : Begin(m)
  \/ doBinaryNOOP \/ doBinarySend \/ doBinarySendEx
  \/ doBinaryReceive \/ doBinaryReceiveEx \/ doBinaryClose
  \/ \E k \in 1..Len(down) : BlockReceive(k)

Next == Arrive \/ Server \/ Client

Spec == Init /\ [][Next]_vars

(* The session's thread and the thread that waits in the library run.      *)
Fairness == WF_vars(Notice) /\ WF_vars(Wait)

FairSpec == Spec /\ Fairness

-----------------------------------------------------------------------------
Verbs == Names \cup Frames
Asked == [c: Verbs, n: Nat, arg: Users \cup Passwords \cup {NoUser}]

(* The variables have their types; who is verified is a user who may come  *)
(* from here, and only such a one is in the receive loop or in binary mode.*)
TypeOK ==
  /\ name \in Users \cup {NoUser} /\ user \in Users \cup {NoUser}
  /\ right \in 0..15 /\ verified \in BOOLEAN
  /\ mode \in {"text", "loop", "binary", "stuck", "gone"}
  /\ queue \in Seq(Nat) /\ made \in Nat /\ taken \subseteq Nat
  /\ up \in Seq(Asked) /\ down \in Seq(Token) /\ reply \in Seq(Token) /\ buffer \in Seq(Token)
  /\ open \in BOOLEAN /\ inLoop \in BOOLEAN
  /\ call = idle \/ /\ call.cmds \in {m.cmds : m \in Calls \cup {doCmdOpen, doCmdClose}}
                    /\ call.at \in 0..Len(call.cmds)
  /\ got \in Seq(Nat) /\ n \in Nat
  /\ verified => user \in Users /\ FromThere(user)
  /\ mode \in {"loop", "binary"} => verified

(* The status a call goes by is that of the command it has just written,   *)
(* unless an earlier call gave up, a text contained "+OK", a SEND found    *)
(* the output queue full and was answered twice, or the session is in the  *)
(* receive loop.                                                           *)
OwnAnswer ==
  faults \cap {"gaveUp", "quoted", "full", "loop"} = {} => last.asked = last.answer

(* The caller gets the events in their order and none twice.  When every   *)
(* answer came whole, in time and once, and RCVLOOP and binary mode were   *)
(* not used, an event that has left the session's queue is with the caller *)
(* or on its way.                                                          *)
Carried(s) == {s[i].ev : i \in 1..Len(s)}
EventsArrive ==
  /\ \A i, j \in 1..Len(got) : i < j => got[i] < got[j]
  /\ faults = {} =>
       \A e \in taken : e \in Carried(down) \cup Carried(reply) \/ \E i \in 1..Len(got) : got[i] = e

(* Every call of the library returns.                                      *)
CallReturns == call # idle ~> call = idle

(* A session ends when its client has closed the connection, also one that *)
(* is in the receive loop, unless a binary READ with something to read has *)
(* locked the mutex of its queue twice and hangs there.                    *)
SessionEnds == ~open ~> mode \in {"gone", "stuck"}
=============================================================================

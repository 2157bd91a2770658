--------------------------- MODULE TcpSessionProofs ---------------------------
(***************************************************************************)
(* That the variables of TcpSession have their types, with what a login    *)
(* gives, that a call takes the answer to its own command, and that the    *)
(* events reach the caller in their order and, without faults, none is     *)
(* lost, for any users, passwords, rights and addresses and any number of  *)
(* commands and events.                                                    *)
(***************************************************************************)
EXTENDS TcpSession, SequenceTheorems, WellFoundedInduction, TLAPS

Somebody == Users \cup {NoUser}
Lists == {m.cmds : m \in Calls \cup {doCmdOpen, doCmdClose}}

(* TypeOK, with the name that USER is given.                               *)
LoginOK == /\ name \in Somebody /\ user \in Somebody
           /\ right \in 0..15 /\ verified \in BOOLEAN
           /\ verified => user \in Users /\ FromThere(user)
ModeOK == /\ mode \in {"text", "loop", "binary", "stuck", "gone"}
          /\ mode \in {"loop", "binary"} => verified
EventsOK == queue \in Seq(Nat) /\ made \in Nat /\ taken \subseteq Nat
UpOK == /\ up \in Seq(Asked)
        /\ \A i \in 1..Len(up) : up[i].c = "USER" => up[i].arg \in Somebody
DownOK == down \in Seq(Token)
HeldOK == reply \in Seq(Token) /\ buffer \in Seq(Token)
CallOK == /\ open \in BOOLEAN /\ inLoop \in BOOLEAN
          /\ call.who \in Somebody \X (Passwords \cup {NoUser})
          /\ call = idle \/ (call.cmds \in Lists /\ call.at \in 0..Len(call.cmds))
GotOK == got \in Seq(Nat) /\ n \in Nat
TypeInv == LoginOK /\ ModeOK /\ EventsOK /\ UpOK /\ DownOK /\ HeldOK /\ CallOK /\ GotOK

(* What the library looks for, and what makes it take a wrong answer.      *)
Status == {"ok", "no"}
Seen == Status \cup {"quoted"}
Trouble == {"gaveUp", "quoted", "full", "loop"}
Loops == call.cmds = doCmdEnterReceiveLoop.cmds

(* A piece of what the daemon writes: whose the answers in it are, and     *)
(* whether the first status is also the last thing the library may see.    *)
Holds(q) == \E i \in 1..Len(q) : q[i].k \in Seen
AllOf(q, c) == \A i \in 1..Len(q) : q[i].k \in Seen => q[i].of = c
Final(q) == \A i, j \in 1..Len(q) : i < j /\ q[i].k \in Status => q[j].k \notin Seen

(* Before any trouble at most one command is on its way, or its answer is, *)
(* and it is that of the call under way.                                   *)
Commands == {i \in 1..Len(up) : up[i].c \in Names}
OneCommand == /\ \A i \in Commands : up[i].n = n /\ call # idle
              /\ \A i \in Commands : up[i].c = "RCVLOOP" => Loops
              /\ \A i, j \in Commands : i = j
OneAnswer == /\ AllOf(down, n) /\ Final(down)
             /\ Holds(down) => call # idle /\ Commands = {}
OneExchange == /\ last.asked = last.answer
               /\ mode = "loop" => Loops
               /\ OneCommand
               /\ ~Loops => OneAnswer

(* No status is ever left in what the library has read.                    *)
AnswerInv == /\ ~Holds(reply)
             /\ faults \cap Trouble = {} => OneExchange

-----------------------------------------------------------------------------
(* What is written and read.                                               *)

LEMMA Quiet ==
  ASSUME NEW q \in Seq(Token), ~Holds(q), NEW c
  PROVE  AllOf(q, c) /\ Final(q)
<1>1. \A i \in 1..Len(q) : q[i].k \notin Seen
  BY DEF Holds
<1> QED
  BY <1>1 DEF AllOf, Final

(* What is left after a read of the first k.                               *)
LEMMA Suffix ==
  ASSUME NEW q \in Seq(Token), NEW k \in 0..Len(q), NEW c
  PROVE  LET r == SubSeq(q, k + 1, Len(q))
         IN  /\ r \in Seq(Token)
             /\ Holds(r) => Holds(q)
             /\ AllOf(q, c) => AllOf(r, c)
             /\ Final(q) => Final(r)
             /\ Final(q) /\ (\E i \in 1..k : q[i].k \in Status) => ~Holds(r)
<1> DEFINE r == SubSeq(q, k + 1, Len(q))
<1>1. Len(q) \in Nat /\ k \in Nat /\ k <= Len(q)
  OBVIOUS
<1>2. \A i \in (k + 1)..Len(q) : q[i] \in Token
  BY <1>1
<1>3. /\ r \in Seq(Token) /\ Len(r) = Len(q) - k
      /\ \A i \in 1..(Len(q) - k) : r[i] = q[k + i]
  BY <1>1, <1>2, SubSeqProperties
<1> HIDE DEF r
<1>4. \A i \in 1..Len(r) : k + i \in 1..Len(q) /\ r[i] = q[k + i]
  BY <1>1, <1>3
<1>5. Holds(r) => Holds(q)
  BY <1>4 DEF Holds
<1>6. AllOf(q, c) => AllOf(r, c)
  BY <1>4 DEF AllOf
<1>7. ASSUME Final(q) PROVE Final(r)
  <2>1. \A i, j \in 1..Len(r) : i < j => k + i < k + j
    BY <1>1, <1>3
  <2> QED
    BY <1>4, <1>7, <2>1 DEF Final
<1>8. ASSUME Final(q), NEW i \in 1..k, q[i].k \in Status PROVE ~Holds(r)
  <2>1. \A j \in 1..Len(r) : i < k + j /\ i \in 1..Len(q)
    BY <1>1, <1>3
  <2> QED
    BY <1>4, <1>8, <2>1 DEF Final, Holds
<1> QED
  BY <1>3, <1>5, <1>6, <1>7, <1>8 DEF r

(* An answer after what holds none, and what holds none after an answer.   *)
LEMMA Joint ==
  ASSUME NEW q \in Seq(Token), NEW t \in Seq(Token), NEW c
  PROVE  /\ q \o t \in Seq(Token)
         /\ ~Holds(q) /\ AllOf(t, c) /\ Final(t) => AllOf(q \o t, c) /\ Final(q \o t)
         /\ ~Holds(t) /\ AllOf(q, c) /\ Final(q) => AllOf(q \o t, c) /\ Final(q \o t)
         /\ Holds(q \o t) => Holds(q) \/ Holds(t)
<1> DEFINE r == q \o t
<1>1. Len(q) \in Nat /\ Len(t) \in Nat
  OBVIOUS
<1>2. r \in Seq(Token) /\ Len(r) = Len(q) + Len(t)
  BY ConcatProperties
<1>3. \A i \in 1..Len(r) :
        \/ i \in 1..Len(q) /\ r[i] = q[i]
        \/ i > Len(q) /\ i - Len(q) \in 1..Len(t) /\ r[i] = t[i - Len(q)]
  BY <1>1, <1>2, ConcatProperties
<1> HIDE DEF r
<1>4. Holds(r) => Holds(q) \/ Holds(t)
  BY <1>3 DEF Holds
<1>5. ASSUME ~Holds(q), AllOf(t, c), Final(t) PROVE AllOf(r, c) /\ Final(r)
  <2>1. \A i \in 1..Len(r) : r[i].k \in Seen => i > Len(q) /\ i - Len(q) \in 1..Len(t) /\ r[i] = t[i - Len(q)]
    BY <1>3, <1>5 DEF Holds
  <2>2. AllOf(r, c)
    BY <1>5, <2>1 DEF AllOf
  <2>3. ASSUME NEW i \in 1..Len(r), NEW j \in 1..Len(r), i < j, r[i].k \in Status PROVE r[j].k \notin Seen
    <3>1. r[i].k \in Seen
      BY <2>3 DEF Seen
    <3>2. i - Len(q) < j - Len(q)
      BY <1>1, <1>2, <2>3
    <3> QED
      BY <1>5, <2>1, <2>3, <3>1, <3>2 DEF Final
  <2> QED
    BY <2>2, <2>3 DEF Final
<1>6. ASSUME ~Holds(t), AllOf(q, c), Final(q) PROVE AllOf(r, c) /\ Final(r)
  <2>1. \A i \in 1..Len(r) : r[i].k \in Seen => i \in 1..Len(q) /\ r[i] = q[i]
    BY <1>3, <1>6 DEF Holds
  <2>2. AllOf(r, c)
    BY <1>6, <2>1 DEF AllOf
  <2>3. ASSUME NEW i \in 1..Len(r), NEW j \in 1..Len(r), i < j, r[i].k \in Status PROVE r[j].k \notin Seen
    <3>1. r[i].k \in Seen
      BY <2>3 DEF Seen
    <3> QED
      BY <1>6, <2>1, <2>3, <3>1 DEF Final
  <2> QED
    BY <2>2, <2>3 DEF Final
<1> QED
  BY <1>2, <1>4, <1>5, <1>6 DEF r

(* The answers of the text commands.                                       *)
Answers1(c) == {Ok(c), No(c), <<>>} \cup {<<Mark(k, c)>> \o Ok(c) : k \in {"value", "quoted"}}
LEMMA Shapes ==
  ASSUME NEW c \in Nat, NEW e \in Nat,
         NEW t \in Answers1(c) \cup {<<Event(e, c)>> \o Ok(c)}
  PROVE  t \in Seq(Token) /\ AllOf(t, c) /\ Final(t)
<1>1. \A k \in {"ok", "no", "tail", "value", "quoted"} : Mark(k, c) \in Token /\ Mark(k, c).k = k /\ Mark(k, c).of = c
  BY DEF Mark, Token
<1>2. Event(e, c) \in Token /\ Event(e, c).k = "event"
  BY DEF Event, Token
<1>3. CASE t = <<>>
  BY <1>3 DEF AllOf, Final
<1>4. CASE t \in {Ok(c), No(c)}
  <2>1. PICK k \in Status : t = <<Mark(k, c), Mark("tail", c)>>
    BY <1>4 DEF Ok, No, Status
  <2>2. k \in {"ok", "no"} /\ "tail" \notin Seen
    BY DEF Status, Seen
  <2>3. t \in Seq(Token) /\ Len(t) = 2 /\ t[1] = Mark(k, c) /\ t[2] = Mark("tail", c)
    BY <1>1, <2>1, <2>2
  <2> QED
    BY <1>1, <2>2, <2>3 DEF AllOf, Final
<1>5. ASSUME NEW x \in Token, x.k \in {"value", "quoted", "event"}, x.k = "quoted" => x.of = c,
             t = <<x>> \o Ok(c)
      PROVE  t \in Seq(Token) /\ AllOf(t, c) /\ Final(t)
  <2> DEFINE y == <<x>>
             z == Ok(c)
  <2>1. y \in Seq(Token) /\ Len(y) = 1 /\ y[1] = x
    BY <1>5
  <2>2. z \in Seq(Token) /\ Len(z) = 2 /\ z[1] = Mark("ok", c) /\ z[2] = Mark("tail", c)
    BY <1>1 DEF Ok
  <2> HIDE DEF y, z
  <2>4. y \o z \in Seq(Token) /\ Len(y \o z) = 3
        /\ \A i \in 1..3 : (y \o z)[i] = IF i <= 1 THEN y[i] ELSE z[i - 1]
    <3>1. /\ y \o z \in Seq(Token) /\ Len(y \o z) = Len(y) + Len(z)
          /\ \A i \in 1..(Len(y) + Len(z)) : (y \o z)[i] = IF i <= Len(y) THEN y[i] ELSE z[i - Len(y)]
      BY <2>1, <2>2, ConcatProperties
    <3> QED
      BY <2>1, <2>2, <3>1
  <2>5. t \in Seq(Token) /\ Len(t) = 3 /\ t[1] = x /\ t[2] = Mark("ok", c) /\ t[3] = Mark("tail", c)
    <3>1. t = y \o z
      BY <1>5 DEF y, z
    <3> QED
      BY <2>1, <2>2, <2>4, <3>1
  <2>3. "tail" \notin Seen /\ x.k \notin Status /\ (x.k \in Seen => x.k = "quoted")
    BY <1>5 DEF Status, Seen
  <2> QED
    BY <1>1, <1>5, <2>3, <2>5 DEF AllOf, Final
<1> QED
  BY <1>1, <1>2, <1>3, <1>4, <1>5 DEF Answers1

-----------------------------------------------------------------------------
(* What the calls write.                                                   *)
Shown == {<<"NOOP">>, <<"SEND">>, <<"RETR">>, <<"RCVLOOP">>, <<"CDTA">>, <<"VERS">>,
          <<"SFLT", "SMSK">>, <<"SGID">>, <<"CDTA", "SGID">>, <<"INTERFACE">>,
          <<"SHUTDOWN">>, <<"BIN1">>, <<"READVAR">>, <<"WRITEVAR">>,
          <<"USER", "PASS">>, <<"QUIT">>}

LEMMA ListsShown == Lists \subseteq Shown
  BY DEF Lists, Calls, Method, Shown, doCmdOpen, doCmdClose, doCmdNOOP,
         doCmdSend, doCmdSendEx, doCmdSendLevel1, doCmdReceive,
         doCmdReceiveEx, doCmdReceiveLevel1, doCmdEnterReceiveLoop,
         doCmdDataAvailable, doCmdStatus, doCmdStatistics, doCmdVersion,
         doCmdFilter, doCmdGetGUID, doCmdSetGUID, doCmdGetChannelInfo,
         doCmdGetChannelID, doCmdInterfaceList, doCmdShutDown, doCmdBinary,
         getVariable, getVariableString, getVariableBool, getVariableInt,
         getVariableLong, getVariableDouble, getVariableMeasurement,
         getVariableEvent, getVariableEventEx, getVariableGUID,
         getVariableVSCPdata, getVariableVSCPclass, getVariableVSCPtype,
         setVariable, setVariableString, setVariableBool, setVariableInt,
         setVariableLong, setVariableDouble, setVariableMeasurement,
         setVariableEvent, setVariableEventEx, setVariableGUID,
         setVariableVSCPdata, setVariableVSCPclass, setVariableVSCPtype

LEMMA CallLists ==
  ASSUME NEW l \in Lists
  PROVE  /\ Len(l) \in 1..2 /\ l # <<>>
         /\ \A i \in 1..Len(l) : l[i] \in Names
         /\ \A i \in 1..Len(l) : l[i] = "RCVLOOP" => l = doCmdEnterReceiveLoop.cmds
<1>1. l \in Shown
  BY ListsShown
<1>2. Names = {"NOOP", "VERS", "SEND", "RETR", "CDTA", "SGID", "SFLT", "SMSK", "BIN1",
               "RCVLOOP", "READVAR", "WRITEVAR", "INTERFACE", "SHUTDOWN", "USER", "PASS", "QUIT"}
  BY DEF Names, Needs
<1>3. doCmdEnterReceiveLoop.cmds = <<"RCVLOOP">>
  BY DEF doCmdEnterReceiveLoop, Method
<1>4. Len(l) \in 1..2 /\ l # <<>>
  BY <1>1 DEF Shown
<1>5. \A i \in 1..Len(l) : l[i] \in Names
  BY <1>1, <1>2 DEF Shown
<1>6. \A i \in 1..Len(l) : l[i] = "RCVLOOP" => l = <<"RCVLOOP">>
  BY <1>1 DEF Shown
<1> QED
  BY <1>3, <1>4, <1>5, <1>6

LEMMA FramesApart == Frames \cap Names = {}
BY DEF Frames, Names, Needs

-----------------------------------------------------------------------------
(* Commands go from the front of what is on its way, k at a time.          *)
LEMMA UpTaken ==
  ASSUME TypeInv, NEW k \in 1..Len(up),
         up' = SubSeq(up, k + 1, Len(up)), UNCHANGED <<n, call>>
  PROVE  /\ UpOK'
         /\ OneCommand => OneCommand'
         /\ Commands = {} => Commands' = {}
         /\ OneCommand /\ up[1].c \in Names => Commands' = {}
<1>1. up \in Seq(Asked) /\ Len(up) \in Nat /\ k \in Nat \ {0} /\ k <= Len(up)
  BY DEF TypeInv, UpOK
<1>2. \A i \in (k + 1)..Len(up) : up[i] \in Asked
  BY <1>1
<1>3. /\ up' \in Seq(Asked) /\ Len(up') = Len(up) - k
      /\ \A i \in 1..(Len(up) - k) : up'[i] = up[k + i]
  BY <1>1, <1>2, SubSeqProperties
<1>4. \A i \in 1..Len(up') : k + i \in 1..Len(up) /\ up'[i] = up[k + i]
  BY <1>1, <1>3
<1>5. UpOK'
  BY <1>3, <1>4 DEF UpOK, TypeInv
<1>6. \A i \in Commands' : i \in Nat /\ k + i \in Commands /\ up'[i] = up[k + i]
  BY <1>1, <1>4 DEF Commands
<1>7. n' = n /\ call' = call /\ Loops' = Loops
  BY DEF Loops
<1>8. ASSUME OneCommand PROVE OneCommand'
  <2>1. \A i, j \in Commands' : i = j
    <3> TAKE i, j \in Commands'
    <3>1. k + i = k + j
      BY <1>6, <1>8 DEF OneCommand
    <3> QED
      BY <1>1, <1>6, <3>1
  <2>2. \A i \in Commands' : up'[i].n = n' /\ call' # idle
    BY <1>6, <1>7, <1>8 DEF OneCommand
  <2>3. \A i \in Commands' : up'[i].c = "RCVLOOP" => Loops'
    BY <1>6, <1>7, <1>8 DEF OneCommand
  <2> QED
    BY <2>1, <2>2, <2>3 DEF OneCommand
<1>9. Commands = {} => Commands' = {}
  BY <1>6
<1>10. ASSUME OneCommand, up[1].c \in Names PROVE Commands' = {}
  <2>1. 1 \in Commands
    BY <1>1, <1>10 DEF Commands
  <2>2. \A i \in Commands' : k + i = 1
    BY <1>6, <1>10, <2>1 DEF OneCommand
  <2>3. \A i \in Commands' : i >= 1
    BY <1>4 DEF Commands
  <2> QED
    BY <1>1, <1>6, <2>2, <2>3
<1> QED
  BY <1>5, <1>8, <1>9, <1>10

(* What is written is put behind what is there, if the client listens.     *)
LEMMA Written ==
  ASSUME TypeInv, NEW t \in Seq(Token), Writes(t)
  PROVE  /\ DownOK'
         /\ ~Holds(down) /\ AllOf(t, n) /\ Final(t) => AllOf(down', n) /\ Final(down')
         /\ ~Holds(t) /\ AllOf(down, n) /\ Final(down) => AllOf(down', n) /\ Final(down')
         /\ Holds(down') => Holds(down) \/ Holds(t)
<1>1. down \in Seq(Token) /\ n \in Nat
  BY DEF TypeInv, DownOK, GotOK
<1>2. CASE down' = down
  <2>1. ~Holds(down) => AllOf(down, n) /\ Final(down)
    BY <1>1, Quiet
  <2> QED
    BY <1>1, <1>2, <2>1 DEF DownOK
<1>3. CASE down' = down \o t
  BY <1>1, <1>3, Joint DEF DownOK
<1> QED
  BY <1>2, <1>3 DEF Writes

(* A command of the text loop.                                             *)
LEMMA ServeStep ==
  ASSUME TypeInv, AnswerInv, NEW c \in Names, Reads(c), NEW t \in Seq(Token), Writes(t),
         AllOf(t, This), Final(t), UNCHANGED client,
         mode' = "loop" => c = "RCVLOOP"
  PROVE  UpOK' /\ DownOK' /\ HeldOK' /\ CallOK' /\ GotOK' /\ AnswerInv'
<1>1. up \in Seq(Asked) /\ up # <<>> /\ up[1] = Head(up) /\ up[1].c = c /\ Len(up) \in Nat \ {0}
  BY DEF TypeInv, UpOK, Reads
<1>2. up' = SubSeq(up, 1 + 1, Len(up)) /\ 1 \in 1..Len(up)
  BY <1>1, TailIsSubSeq DEF Reads
<1>3. UpOK' /\ (OneCommand => OneCommand' /\ Commands' = {})
  BY <1>1, <1>2, UpTaken DEF client
<1>4. HeldOK' /\ CallOK' /\ GotOK' /\ n' = n /\ call' = call /\ Loops' = Loops
  BY DEF TypeInv, HeldOK, CallOK, GotOK, client, Loops
<1>5. DownOK'
  BY Written
<1>6. ~Holds(reply')
  BY DEF client, AnswerInv
<1>7. ASSUME faults' \cap Trouble = {} PROVE OneExchange'
  <2>1. OneExchange /\ faults' = faults /\ last' = last
    BY <1>7 DEF client, AnswerInv
  <2>2. 1 \in Commands
    BY <1>1 DEF Commands
  <2>3. This = n /\ call # idle /\ (c = "RCVLOOP" => Loops)
    BY <1>1, <2>1, <2>2 DEF OneExchange, OneCommand, This
  <2>4. ASSUME ~Loops PROVE OneAnswer'
    <3>1. ~Holds(down)
      BY <2>1, <2>2, <2>4 DEF OneExchange, OneAnswer
    <3>2. AllOf(down', n) /\ Final(down')
      BY <2>3, <3>1, Written
    <3> QED
      BY <1>3, <1>4, <2>1, <2>3, <3>2 DEF OneAnswer, OneExchange
  <2> QED
    BY <1>3, <1>4, <2>1, <2>3, <2>4 DEF OneExchange
<1> QED
  BY <1>3, <1>4, <1>5, <1>6, <1>7 DEF AnswerInv

(* The receive loop: its answers are those of RCVLOOP, if there has been   *)
(* no trouble, and nobody waits for another.                               *)
LEMMA LoopStep ==
  ASSUME TypeInv, AnswerInv, mode = "loop", NEW t \in Seq(Token), Writes(t),
         UNCHANGED <<mode, up, client>>
  PROVE  DownOK' /\ AnswerInv'
<1>1. DownOK'
  BY Written
<1>2. ~Holds(reply') /\ n' = n /\ call' = call /\ Loops' = Loops /\ Commands' = Commands
  BY DEF client, AnswerInv, Loops, Commands
<1>3. ASSUME faults' \cap Trouble = {} PROVE OneExchange'
  <2>1. OneExchange /\ last' = last /\ Loops
    BY <1>3 DEF client, AnswerInv, OneExchange
  <2>2. OneCommand'
    BY <1>2, <2>1 DEF OneExchange, OneCommand
  <2> QED
    BY <1>2, <2>1, <2>2 DEF OneExchange
<1> QED
  BY <1>1, <1>2, <1>3 DEF AnswerInv

(* The binary mode: frames are not what the library looks for.             *)
LEMMA FrameStep ==
  ASSUME TypeInv, AnswerInv, NEW t \in Seq(Token), ~Holds(t), Writes(t) \/ UNCHANGED down,
         NEW k \in 1..Len(up), up' = SubSeq(up, k + 1, Len(up)), UNCHANGED client,
         mode' # "loop"
  PROVE  UpOK' /\ DownOK' /\ AnswerInv'
<1>1. UpOK' /\ (OneCommand => OneCommand') /\ (Commands = {} => Commands' = {})
  BY UpTaken DEF client
<1>2. ~Holds(reply') /\ n' = n /\ call' = call /\ Loops' = Loops
  BY DEF client, AnswerInv, Loops
<1>3. /\ DownOK'
      /\ AllOf(down, n) /\ Final(down) => AllOf(down', n) /\ Final(down')
      /\ Holds(down') => Holds(down)
  <2>1. CASE UNCHANGED down
    BY <2>1 DEF TypeInv, DownOK
  <2>2. CASE Writes(t)
    BY <2>2, Written
  <2> QED
    BY <2>1, <2>2
<1>4. ASSUME faults' \cap Trouble = {} PROVE OneExchange'
  <2>1. OneExchange /\ last' = last
    BY <1>4 DEF client, AnswerInv
  <2>2. OneAnswer => OneAnswer'
    BY <1>1, <1>2, <1>3 DEF OneAnswer
  <2> QED
    BY <1>1, <1>2, <2>1, <2>2 DEF OneExchange
<1> QED
  BY <1>1, <1>2, <1>3, <1>4 DEF AnswerInv

(* What touches none of what the two invariants speak of.                  *)
LEMMA SessionKept ==
  ASSUME TypeInv, AnswerInv, UNCHANGED <<login, up, down, client>>, EventsOK', ModeOK',
         mode' = "loop" => mode = "loop"
  PROVE  TypeInv' /\ AnswerInv'
<1>1. LoginOK' /\ UpOK' /\ DownOK' /\ HeldOK' /\ CallOK' /\ GotOK'
  BY DEF TypeInv, LoginOK, UpOK, DownOK, HeldOK, CallOK, GotOK, login, client
<1>2. ~Holds(reply') /\ n' = n /\ call' = call /\ Loops' = Loops /\ Commands' = Commands
  BY DEF client, AnswerInv, Loops, Commands
<1>3. OneExchange => OneExchange'
  BY <1>2 DEF OneExchange, OneCommand, OneAnswer, client
<1> QED
  BY <1>1, <1>2, <1>3 DEF TypeInv, AnswerInv, client

(* The command that is served next.                                        *)
LEMMA Front ==
  ASSUME TypeInv, NEW c, Reads(c)
  PROVE  mode = "text" /\ This \in Nat /\ (c = "USER" => Head(up).arg \in Somebody)
<1>1. up \in Seq(Asked) /\ up # <<>> /\ Head(up).c = c /\ mode = "text"
  BY DEF TypeInv, UpOK, Reads
<1>2. Head(up) \in Asked /\ Head(up) = up[1] /\ 1 \in 1..Len(up)
  BY <1>1
<1>3. This \in Nat
  BY <1>2 DEF This, Asked
<1> QED
  BY <1>1, <1>2, <1>3 DEF TypeInv, UpOK

(* USER and PASS.                                                          *)
LEMMA LoginStep == ASSUME TypeInv, AnswerInv, Login PROVE TypeInv' /\ AnswerInv'
<1>2. \A c : Reads(c) => /\ mode = "text" /\ This \in Nat
                         /\ c = "USER" => Head(up).arg \in Somebody
  BY Front
<1>3. \A u \in Users : Rights(u) \subseteq 0..15
  BY DEF Rights, RightOf
<1>4. EventsOK'
  BY DEF Login, User, PassGood, PassBad, Unknown, Stays, TypeInv, EventsOK
<1>5. ASSUME NEW c \in {"USER", "PASS"}, Reads(c), NEW t \in {Ok(This), No(This)}, Writes(t),
             UNCHANGED client, mode' # "loop", LoginOK', ModeOK'
      PROVE  TypeInv' /\ AnswerInv'
  <2>1. c \in Names /\ This \in Nat
    BY <1>2, <1>5 DEF Names
  <2>2. t \in Seq(Token) /\ AllOf(t, This) /\ Final(t)
    BY <2>1, Shapes DEF Answers1
  <2> QED
    BY <1>4, <1>5, <2>1, <2>2, ServeStep DEF TypeInv
<1>6. CASE Unknown
  <2>1. LoginOK' /\ ModeOK' /\ mode' # "loop" /\ UNCHANGED client
    BY <1>2, <1>6 DEF Unknown, Stays, TypeInv, LoginOK, ModeOK, login
  <2>2. Writes(No(This)) /\ \E c \in {"USER", "PASS"} : Reads(c)
    BY <1>6 DEF Unknown
  <2> QED
    BY <1>5, <2>1, <2>2
<1>7. CASE User
  <2>1. LoginOK' /\ ModeOK' /\ mode' # "loop" /\ UNCHANGED client
    BY <1>2, <1>7 DEF User, Stays, TypeInv, LoginOK, ModeOK
  <2> QED
    BY <1>5, <1>7, <2>1 DEF User
<1>8. CASE PassGood
  <2>1. LoginOK'
    BY <1>3, <1>8 DEF PassGood, Accepted, TypeInv, LoginOK, Somebody
  <2>2. ModeOK' /\ mode' # "loop" /\ UNCHANGED client
    BY <1>2, <1>8 DEF PassGood, Stays, TypeInv, ModeOK
  <2> QED
    BY <1>5, <1>8, <2>1, <2>2 DEF PassGood
<1>9. CASE PassBad
  <2>1. LoginOK'
    BY <1>3, <1>9 DEF PassBad, TypeInv, LoginOK, Somebody
  <2>2. ModeOK' /\ mode' # "loop" /\ UNCHANGED client
    BY <1>9 DEF PassBad, ModeOK
  <2> QED
    BY <1>5, <1>9, <2>1, <2>2 DEF PassBad
<1> QED
  BY <1>6, <1>7, <1>8, <1>9 DEF Login

(* The other commands of the text loop.                                    *)
LEMMA ServeTyped == ASSUME TypeInv, AnswerInv, Serve PROVE TypeInv' /\ AnswerInv'
<1>1. \A c : Reads(c) => mode = "text" /\ This \in Nat
  BY Front
<1>2. ASSUME NEW c \in Names, Reads(c), NEW e \in Nat,
             NEW t \in Answers1(This) \cup {<<Event(e, This)>> \o Ok(This)}, Writes(t),
             UNCHANGED <<login, client>>, ModeOK', EventsOK', mode' = "loop" => c = "RCVLOOP"
      PROVE  TypeInv' /\ AnswerInv'
  <2>1. t \in Seq(Token) /\ AllOf(t, This) /\ Final(t)
    BY <1>1, <1>2, Shapes
  <2>2. LoginOK'
    BY <1>2 DEF TypeInv, LoginOK, login
  <2> QED
    BY <1>2, <2>1, <2>2, ServeStep DEF TypeInv
<1>4. UNCHANGED login /\ Stays => ModeOK' /\ EventsOK' /\ mode' = mode
  BY DEF Stays, TypeInv, ModeOK, EventsOK, login
<1>5. ASSUME NEW c \in Names, Reads(c), NEW t \in Answers1(This), Writes(t),
             UNCHANGED <<login, client>>, Stays
      PROVE  TypeInv' /\ AnswerInv'
  <2>1. ModeOK' /\ EventsOK' /\ mode' # "loop"
    BY <1>1, <1>4, <1>5
  <2> QED
    BY <1>2, <1>5, <2>1
<1>6. DOMAIN Needs \subseteq Names
  BY DEF Names
<1>7. /\ {"NOOP", "VERS", "SEND", "RETR", "CDTA", "SGID", "SFLT", "SMSK", "BIN1", "RCVLOOP",
          "READVAR", "WRITEVAR", "INTERFACE", "SHUTDOWN", "QUIT"} \subseteq Names
  BY DEF Names, Needs
<1>8. /\ Ok(This) \in Answers1(This) /\ No(This) \in Answers1(This) /\ <<>> \in Answers1(This)
      /\ \A k \in {"value", "quoted"} : <<Mark(k, This)>> \o Ok(This) \in Answers1(This)
  BY DEF Answers1
<1>9. CASE \E c \in DOMAIN Needs : Refused(c)
  BY <1>5, <1>6, <1>8, <1>9 DEF Refused
<1>10. CASE DataAvailable \/ GetStatistics \/ GetStatus \/ GetChannelID \/ GetVersion
  <2>1. PICK c \in {"CDTA", "VERS"} : Query(c)
    BY <1>10 DEF DataAvailable, GetStatistics, GetStatus, GetChannelID, GetVersion
  <2> QED
    BY <1>5, <1>7, <1>8, <2>1 DEF Query
<1>11. CASE SetChannelGUID \/ SetFilter \/ SetMask \/ WriteVariable
  <2>1. PICK c \in {"SGID", "SFLT", "SMSK", "WRITEVAR"} : Settle(c)
    BY <1>11 DEF SetChannelGUID, SetFilter, SetMask, WriteVariable
  <2> QED
    BY <1>5, <1>7, <1>8, <2>1 DEF Settle
<1>12. CASE ReadVariable \/ ListInterfaces
  <2>1. PICK c \in {"READVAR", "INTERFACE"} : Text(c)
    BY <1>12 DEF ReadVariable, ListInterfaces
  <2> QED
    BY <1>5, <1>7, <1>8, <2>1 DEF Text
<1>13. CASE Noop \/ Send
  BY <1>5, <1>7, <1>8, <1>13 DEF Noop, Send
<1>14. CASE Retrieve
  <2>1. Reads("RETR") /\ UNCHANGED <<login, mode, client>>
    BY <1>14 DEF Retrieve
  <2>2. ModeOK' /\ mode' # "loop"
    BY <1>1, <2>1 DEF TypeInv, ModeOK, login
  <2>3. CASE queue = <<>>
    <3>1. EventsOK' /\ Writes(No(This))
      BY <1>14, <2>3 DEF Retrieve, TypeInv, EventsOK
    <3> QED
      BY <1>2, <1>7, <1>8, <2>1, <2>2, <3>1
  <2>4. CASE queue # <<>>
    <3>1. Head(queue) \in Nat /\ Tail(queue) \in Seq(Nat)
      BY <2>4 DEF TypeInv, EventsOK
    <3>2. EventsOK' /\ Writes(<<Event(Head(queue), This)>> \o Ok(This))
      BY <1>14, <2>4, <3>1 DEF Retrieve, TypeInv, EventsOK
    <3> QED
      BY <1>2, <1>7, <2>1, <2>2, <3>1, <3>2
  <2> QED
    BY <2>3, <2>4
<1>15. CASE EnterRcvLoop \/ EnterBinary
  <2>1. PICK c \in {"RCVLOOP", "BIN1"} :
          /\ Reads(c) /\ Allowed(c) /\ Writes(Ok(This))
          /\ UNCHANGED <<login, queue, made, taken, client>>
          /\ mode' = IF c = "RCVLOOP" THEN "loop" ELSE "binary"
    BY <1>15 DEF EnterRcvLoop, EnterBinary
  <2>2. ModeOK' /\ EventsOK'
    BY <2>1 DEF Allowed, TypeInv, ModeOK, EventsOK, login
  <2> QED
    BY <1>2, <1>7, <1>8, <2>1, <2>2
<1>16. CASE Shutdown \/ Quit
  <2>1. PICK c \in {"SHUTDOWN", "QUIT"}, t \in {<<>>, Ok(This)} :
          /\ Reads(c) /\ Writes(t)
          /\ UNCHANGED <<login, queue, made, taken, client>> /\ mode' = "gone"
    <3>1. down \o <<>> = down
      BY ConcatEmptySeq DEF TypeInv, DownOK
    <3> QED
      BY <1>16, <3>1 DEF Shutdown, Quit, Writes
  <2>2. ModeOK' /\ EventsOK'
    BY <2>1 DEF TypeInv, ModeOK, EventsOK
  <2> QED
    BY <1>2, <1>7, <1>8, <2>1, <2>2
<1> QED
  BY <1>9, <1>10, <1>11, <1>12, <1>13, <1>14, <1>15, <1>16 DEF Serve

(* A SEND that is answered twice: the trouble it makes is recorded.        *)
LEMMA FullStep == ASSUME TypeInv, AnswerInv, SendFull PROVE TypeInv' /\ AnswerInv'
<1> DEFINE t == No(This) \o Ok(This)
<1>1. Reads("SEND") /\ Writes(t) /\ faults' = faults \cup {"full"}
      /\ UNCHANGED <<login, mode, queue, made, taken>>
      /\ UNCHANGED <<open, inLoop, call, reply, buffer, got, n, last>>
  BY DEF SendFull, Stays
<1>2. This \in Nat
  BY <1>1, Front
<1>3. No(This) \in Seq(Token) /\ Ok(This) \in Seq(Token)
  BY <1>2, Shapes DEF Answers1
<1>4. t \in Seq(Token)
  BY <1>3, ConcatProperties
<1> HIDE DEF t
<1>5. DownOK'
  BY <1>1, <1>4, Written
<1>6. up \in Seq(Asked) /\ up # <<>> /\ up' = Tail(up) /\ Len(up) \in Nat \ {0}
  BY <1>1 DEF TypeInv, UpOK, Reads
<1>7. up' = SubSeq(up, 1 + 1, Len(up)) /\ 1 \in 1..Len(up)
  BY <1>6, TailIsSubSeq
<1>8. UpOK'
  BY <1>1, <1>7, UpTaken
<1>9. LoginOK' /\ ModeOK' /\ EventsOK' /\ HeldOK' /\ CallOK' /\ GotOK'
  BY <1>1 DEF TypeInv, LoginOK, ModeOK, EventsOK, HeldOK, CallOK, GotOK, login
<1>10. ~Holds(reply') /\ faults' \cap Trouble # {}
  BY <1>1 DEF AnswerInv, Holds, Trouble
<1> QED
  BY <1>5, <1>8, <1>9, <1>10 DEF TypeInv, AnswerInv

(* RCVLOOP.                                                                *)
LEMMA LoopTyped == ASSUME TypeInv, AnswerInv, LoopEvent \/ LoopIdle PROVE TypeInv' /\ AnswerInv'
<1>1. mode = "loop" /\ UNCHANGED <<login, mode, up, client>>
  BY DEF LoopEvent, LoopIdle, server
<1>2. EventsOK' /\ \E t \in Seq(Token) : Writes(t)
  <2>1. CASE LoopIdle
    <3>1. Ok(0) \in Seq(Token)
      BY Shapes DEF Answers1
    <3> QED
      BY <2>1, <3>1 DEF LoopIdle, server, TypeInv, EventsOK
  <2>2. CASE LoopEvent
    <3>1. Head(queue) \in Nat /\ Tail(queue) \in Seq(Nat)
      BY <2>2 DEF LoopEvent, TypeInv, EventsOK
    <3>2. Event(Head(queue), 0) \in Token
      BY <3>1 DEF Event, Token
    <3>3. <<Event(Head(queue), 0)>> \in Seq(Token)
      BY <3>2
    <3> QED
      BY <2>2, <3>1, <3>3 DEF LoopEvent, TypeInv, EventsOK
  <2> QED
    BY <2>1, <2>2
<1>3. DownOK' /\ AnswerInv'
  BY <1>1, <1>2, LoopStep
<1>4. LoginOK' /\ ModeOK' /\ UpOK' /\ HeldOK' /\ CallOK' /\ GotOK'
  BY <1>1 DEF TypeInv, LoginOK, ModeOK, UpOK, HeldOK, CallOK, GotOK, login, client
<1> QED
  BY <1>2, <1>3, <1>4 DEF TypeInv

(* Binary mode.                                                            *)
LEMMA FrameTyped == ASSUME TypeInv, AnswerInv, Frame PROVE TypeInv' /\ AnswerInv'
<1> DEFINE h == Head(up)
<1>1. ASSUME NEW S, FirstFrame(S)
      PROVE  /\ mode = "binary" /\ This \in Nat /\ UNCHANGED <<login, client>>
             /\ \E k \in 1..Len(up) : up' = SubSeq(up, k + 1, Len(up))
  <2>1. h \in Asked
    BY <1>1 DEF FirstFrame, TypeInv, UpOK
  <2>2. This \in Nat
    BY <2>1 DEF This, Asked
  <2> QED
    BY <1>1, <2>2 DEF FirstFrame
<1>2. PICK S : FirstFrame(S)
  BY DEF Frame, FrameNoop, FrameSend, FrameRead, FrameHangs, FrameClose, FrameOther
<1>3. /\ EventsOK' /\ mode' \in {"binary", "text", "stuck"}
      /\ (\E t \in Seq(Token) : ~Holds(t) /\ Writes(t)) \/ UNCHANGED down
  <2>1. \A c \in Nat, e \in Nat : LET q == <<[Mark("frame", c) EXCEPT !.ev = e]>>
                                  IN  q \in Seq(Token) /\ ~Holds(q)
    <3> TAKE c \in Nat, e \in Nat
    <3>1. [Mark("frame", c) EXCEPT !.ev = e] = [k |-> "frame", of |-> c, ev |-> e]
      BY DEF Mark
    <3> DEFINE x == [k |-> "frame", of |-> c, ev |-> e]
    <3>2. x \in Token /\ x.k \notin Seen
      BY DEF Token, Seen, Status
    <3> HIDE DEF x
    <3>3. <<x>> \in Seq(Token) /\ ~Holds(<<x>>)
      BY <3>2 DEF Holds
    <3> QED
      BY <3>1, <3>3 DEF x
  <2>2. \A c \in Nat : <<Mark("frame", c)>> \in Seq(Token) /\ ~Holds(<<Mark("frame", c)>>)
    <3> TAKE c \in Nat
    <3>1. Mark("frame", c) \in Token /\ Mark("frame", c).k \notin Seen
      BY DEF Mark, Token, Seen, Status
    <3> QED
      BY <3>1 DEF Holds
  <2>3. CASE FrameNoop \/ FrameSend
    <3>1. Stays /\ Writes(<<Mark("frame", This)>>) /\ mode = "binary" /\ This \in Nat
      BY <1>1, <2>3 DEF FrameNoop, FrameSend
    <3> QED
      BY <2>2, <3>1 DEF Stays, TypeInv, EventsOK
  <2>4. CASE FrameRead /\ queue = <<>>
    <3>1. Stays /\ Writes(<<Mark("frame", This)>>) /\ mode = "binary" /\ This \in Nat
      BY <1>1, <2>4 DEF FrameRead
    <3> QED
      BY <2>2, <3>1 DEF Stays, TypeInv, EventsOK
  <2>5. CASE FrameRead /\ queue # <<>>
    <3>1. /\ Writes(<<[Mark("frame", This) EXCEPT !.ev = Head(queue)]>>)
          /\ queue' = Tail(queue) /\ taken' = taken \cup {Head(queue)}
          /\ UNCHANGED <<mode, made>> /\ mode = "binary" /\ This \in Nat
      BY <1>1, <2>5 DEF FrameRead
    <3>2. Head(queue) \in Nat /\ Tail(queue) \in Seq(Nat)
      BY <2>5 DEF TypeInv, EventsOK
    <3>3. EventsOK'
      BY <3>1, <3>2 DEF TypeInv, EventsOK
    <3> QED
      BY <2>1, <3>1, <3>2, <3>3
  <2>6. CASE FrameHangs \/ FrameClose
    BY <2>6 DEF FrameHangs, FrameClose, TypeInv, EventsOK
  <2>7. CASE FrameOther
    BY <1>1, <2>7 DEF FrameOther, Stays, TypeInv, EventsOK
  <2> QED
    BY <2>3, <2>4, <2>5, <2>6, <2>7 DEF Frame
<1>4. <<>> \in Seq(Token) /\ ~Holds(<<>>)
  BY DEF Holds
<1>5. UpOK' /\ DownOK' /\ AnswerInv'
  BY <1>1, <1>2, <1>3, <1>4, FrameStep
<1>6. LoginOK' /\ HeldOK' /\ CallOK' /\ GotOK'
  BY <1>1, <1>2 DEF TypeInv, LoginOK, HeldOK, CallOK, GotOK, login, client
<1>7. ModeOK'
  BY <1>1, <1>2, <1>3 DEF TypeInv, ModeOK, login
<1> QED
  BY <1>3, <1>5, <1>6, <1>7 DEF TypeInv

-----------------------------------------------------------------------------
(* The library.  A call has none under way before it, and then, if there   *)
(* has been no trouble, nothing of an earlier one is on its way.           *)
LEMMA IdleQuiet ==
  ASSUME AnswerInv, call = idle, faults \cap Trouble = {}
  PROVE  /\ ~Loops /\ Commands = {} /\ ~Holds(down) /\ mode # "loop"
         /\ last.asked = last.answer
<1>1. ~Loops
  BY DEF Loops, idle, doCmdEnterReceiveLoop, Method
<1> QED
  BY <1>1 DEF AnswerInv, OneExchange, OneCommand, OneAnswer

(* Something new is put behind what is on its way to the session.          *)
LEMMA UpGrows ==
  ASSUME TypeInv, NEW x \in Asked, x.c = "USER" => x.arg \in Somebody,
         up' = IF mode = "gone" THEN up ELSE Append(up, x)
  PROVE  /\ UpOK'
         /\ Commands = {} => \A i, j \in Commands' : i = j /\ up'[i] = x
         /\ Commands = {} /\ x.c \notin Names => Commands' = {}
<1>1. up \in Seq(Asked) /\ Len(up) \in Nat
  BY DEF TypeInv, UpOK
<1>2. CASE up' = up
  BY <1>2 DEF TypeInv, UpOK, Commands
<1>3. CASE up' = Append(up, x)
  <2>1. /\ up' \in Seq(Asked) /\ Len(up') = Len(up) + 1
        /\ \A i \in 1..Len(up) : up'[i] = up[i]
        /\ up'[Len(up) + 1] = x
    BY <1>1, <1>3, AppendProperties
  <2>2. \A i \in 1..Len(up') : i \in 1..Len(up) \/ i = Len(up) + 1
    BY <1>1, <2>1
  <2>3. UpOK'
    BY <2>1, <2>2 DEF TypeInv, UpOK
  <2>4. Commands = {} => \A i \in Commands' : i = Len(up) + 1
    BY <2>1, <2>2 DEF Commands
  <2>5. Commands = {} => \A i, j \in Commands' : i = j /\ up'[i] = x
    BY <2>1, <2>4
  <2>6. \A i \in Commands' : up'[i].c \in Names
    BY DEF Commands
  <2> QED
    BY <2>3, <2>4, <2>1, <2>5, <2>6
<1> QED
  BY <1>2, <1>3

(* A command is written.                                                   *)
LEMMA AskStep ==
  ASSUME TypeInv, NEW l \in Lists, NEW i \in 1..Len(l),
         NEW w \in Somebody \X (Passwords \cup {NoUser}), NEW r, Ask(l, i, w, r),
         faults' \cap Trouble = {} =>
            mode' # "loop" /\ Commands = {} /\ ~Holds(down') /\ last'.asked = last'.answer,
         DownOK', open' \in BOOLEAN, inLoop' \in BOOLEAN
  PROVE  UpOK' /\ CallOK' /\ n' \in Nat /\ reply' = <<>> /\ AnswerInv'
<1> DEFINE x == Command(l[i], Argument(l[i], w), n + 1)
<1>1. l[i] \in Names /\ Len(l) \in 1..2 /\ l # <<>>
  BY CallLists
<1>2. n \in Nat /\ n' = n + 1
  BY DEF TypeInv, GotOK, Ask, Post
<1>3. x.c = l[i] /\ x.n = n'
  BY <1>2 DEF Command
<1>4. x \in Asked /\ (x.c = "USER" => x.arg \in Somebody)
  <2>1. /\ Argument(l[i], w) \in Users \cup Passwords \cup {NoUser}
        /\ l[i] = "USER" => Argument(l[i], w) \in Somebody
    BY DEF Argument, Somebody
  <2> QED
    BY <1>1, <1>2, <2>1 DEF Command, Asked, Verbs
<1>5. up' = IF mode = "gone" THEN up ELSE Append(up, x)
  BY DEF Ask, Post
<1> HIDE DEF x
<1>6. UpOK' /\ (Commands = {} => \A j, k \in Commands' : j = k /\ up'[j] = x)
  BY <1>4, <1>5, UpGrows
<1>7. call' = [cmds |-> l, at |-> i, who |-> w] /\ reply' = <<>>
  BY DEF Ask
<1>8. call' # idle
  BY <1>1, <1>7 DEF idle
<1>9. CallOK'
  BY <1>1, <1>7 DEF CallOK
<1>10. ~Holds(reply')
  BY <1>7 DEF Holds
<1>11. ASSUME faults' \cap Trouble = {} PROVE OneExchange'
  <2>1. OneCommand'
    <3>1. \A j \in Commands' : up'[j].n = n' /\ up'[j].c = l[i]
      BY <1>3, <1>6, <1>11
    <3>2. l[i] = "RCVLOOP" => Loops'
      BY <1>7, CallLists DEF Loops
    <3> QED
      BY <1>6, <1>8, <1>11, <3>1, <3>2 DEF OneCommand
  <2>2. OneAnswer'
    <3>1. down' \in Seq(Token) /\ ~Holds(down')
      BY <1>11 DEF DownOK
    <3>2. AllOf(down', n') /\ Final(down')
      BY <3>1, Quiet
    <3> QED
      BY <3>1, <3>2 DEF OneAnswer
  <2> QED
    BY <1>11, <2>1, <2>2 DEF OneExchange
<1> QED
  BY <1>2, <1>6, <1>7, <1>9, <1>10, <1>11 DEF AnswerInv

(* A call of one or two commands, or doCmdClose.                           *)
LEMMA BeginStep ==
  ASSUME TypeInv, AnswerInv, Close \/ \E m \in Calls : Begin(m)
  PROVE  TypeInv' /\ AnswerInv'
<1>1. PICK m \in Calls \cup {doCmdClose} :
        /\ call = idle /\ Ask(m.cmds, 1, nobody, reply)
        /\ UNCHANGED <<server, down, open, inLoop, buffer, got, last, faults>>
  BY DEF Close, Begin
<1>2. m.cmds \in Lists /\ 1 \in 1..Len(m.cmds)
  <2>1. m.cmds \in Lists
    BY DEF Lists
  <2> QED
    BY <2>1, CallLists
<1>3. nobody \in Somebody \X (Passwords \cup {NoUser})
  BY DEF nobody, Somebody
<1>4. DownOK' /\ open' \in BOOLEAN /\ inLoop' \in BOOLEAN
  BY <1>1 DEF TypeInv, DownOK, CallOK
<1>5. faults' \cap Trouble = {} =>
         mode' # "loop" /\ Commands = {} /\ ~Holds(down') /\ last'.asked = last'.answer
  BY <1>1, IdleQuiet DEF server
<1>6. UpOK' /\ CallOK' /\ n' \in Nat /\ reply' = <<>> /\ AnswerInv'
  BY <1>1, <1>2, <1>3, <1>4, <1>5, AskStep
<1>7. LoginOK' /\ ModeOK' /\ EventsOK'
  BY <1>1 DEF TypeInv, LoginOK, ModeOK, EventsOK, server, login
<1>8. HeldOK' /\ GotOK'
  <2>1. <<>> \in Seq(Token)
    OBVIOUS
  <2> QED
    BY <1>1, <1>6, <2>1 DEF TypeInv, HeldOK, GotOK
<1> QED
  BY <1>4, <1>6, <1>7, <1>8 DEF TypeInv

(* doCmdOpen: a new session.                                               *)
LEMMA ConnectStep == ASSUME TypeInv, AnswerInv, Connect PROVE TypeInv' /\ AnswerInv'
<1>1. /\ <<>> \in Seq(Token) /\ <<>> \in Seq(Nat) /\ <<>> \in Seq(Asked)
      /\ Len(<<>>) = 0
  OBVIOUS
<1>2. n \in Nat /\ n' = n + 1 /\ up' = <<>> /\ reply' = <<>> /\ faults' = {}
  BY DEF Connect, TypeInv, GotOK
<1>3. LoginOK' /\ ModeOK'
  <2>1. /\ name' = NoUser /\ user' = NoUser /\ right' = 0 /\ verified' = FALSE
        /\ mode' = "text" \/ mode' = "gone"
    BY DEF Connect
  <2>2. 0 \in 0..15 /\ NoUser \in Somebody
    BY DEF Somebody
  <2>3. LoginOK'
    BY <2>1, <2>2 DEF LoginOK
  <2> QED
    BY <2>1, <2>3 DEF ModeOK
<1>4. EventsOK' /\ UpOK' /\ HeldOK' /\ GotOK'
  BY <1>1, <1>2 DEF Connect, TypeInv, EventsOK, UpOK, HeldOK, GotOK
<1>5. PICK u \in Users \cup {NoUser}, p \in Passwords \cup {NoUser} :
        call' = [cmds |-> doCmdOpen.cmds, at |-> 0, who |-> <<u, p>>]
  BY DEF Connect
<1>6. doCmdOpen.cmds \in Lists /\ Len(doCmdOpen.cmds) \in 1..2 /\ doCmdOpen.cmds # <<>>
  <2>1. doCmdOpen.cmds \in Lists
    BY DEF Lists
  <2> QED
    BY <2>1, CallLists
<1>7. CallOK' /\ call' # idle
  <2>1. open' \in BOOLEAN /\ inLoop' \in BOOLEAN
    BY DEF Connect, TypeInv, CallOK
  <2>2. call'.who \in Somebody \X (Passwords \cup {NoUser})
    BY <1>5 DEF Somebody
  <2>3. call'.cmds \in Lists /\ call'.at \in 0..Len(call'.cmds) /\ call' # idle
    BY <1>5, <1>6 DEF idle
  <2> QED
    BY <2>1, <2>2, <2>3 DEF CallOK
<1>8. down' \in Seq(Token) /\ AllOf(down', n') /\ Final(down')
  <2>1. down' \in Answers1(n') /\ n' \in Nat
    BY <1>2 DEF Connect, Answers1
  <2> QED
    BY <2>1, Shapes
<1>9. Commands' = {} /\ ~Holds(reply')
  BY <1>2 DEF Commands, Holds
<1>10. OneExchange'
  <2>1. last'.asked = last'.answer /\ mode' # "loop"
    BY DEF Connect
  <2> QED
    BY <1>7, <1>8, <1>9, <2>1 DEF OneExchange, OneCommand, OneAnswer
<1> QED
  BY <1>3, <1>4, <1>7, <1>8, <1>9, <1>10 DEF TypeInv, AnswerInv, DownOK

(* A frame of the binary mode, and perhaps a frame read.                   *)
LEMMA BinaryStep ==
  ASSUME TypeInv, AnswerInv, NEW f \in Frames, BinaryCall(f)
  PROVE  TypeInv' /\ AnswerInv'
<1> DEFINE x == Command(f, NoUser, n + 1)
<1>1. n \in Nat /\ n' = n + 1 /\ down \in Seq(Token) /\ call = idle
  BY DEF BinaryCall, TypeInv, GotOK, DownOK
<1>2. f \notin Names /\ f # "USER"
  BY FramesApart DEF Frames
<1>3. x \in Asked /\ x.c = f
  BY <1>1 DEF Command, Asked, Verbs
<1>4. up' = IF mode = "gone" THEN up ELSE Append(up, x)
  BY DEF BinaryCall
<1> HIDE DEF x
<1>5. UpOK' /\ (Commands = {} => Commands' = {})
  BY <1>2, <1>3, <1>4, UpGrows
<1>6. down' \in Seq(Token) /\ (Holds(down') => Holds(down))
  <2>1. CASE down # <<>> /\ down' = Tail(down)
    <3>1. Len(down) \in Nat /\ 1 \in 0..Len(down) /\ down' = SubSeq(down, 1 + 1, Len(down))
      BY <1>1, <2>1, TailIsSubSeq
    <3> QED
      BY <1>1, <3>1, Suffix
  <2>2. CASE down' = down
    BY <1>1, <2>2
  <2> QED
    BY <2>1, <2>2 DEF BinaryCall
<1>7. /\ LoginOK' /\ ModeOK' /\ EventsOK' /\ HeldOK' /\ CallOK' /\ GotOK' /\ DownOK'
      /\ ~Holds(reply') /\ call' = idle
  <2>1. LoginOK' /\ ModeOK' /\ EventsOK'
    BY DEF BinaryCall, TypeInv, LoginOK, ModeOK, EventsOK, server, login
  <2>2. HeldOK' /\ CallOK' /\ GotOK'
    BY <1>1 DEF BinaryCall, TypeInv, HeldOK, CallOK, GotOK
  <2> QED
    BY <1>1, <1>6, <2>1, <2>2 DEF BinaryCall, DownOK, AnswerInv
<1>8. ASSUME faults' \cap Trouble = {} PROVE OneExchange'
  <2>1. Commands' = {} /\ ~Holds(down') /\ mode' # "loop" /\ last'.asked = last'.answer
    BY <1>1, <1>5, <1>6, <1>8, IdleQuiet DEF BinaryCall, server
  <2>2. AllOf(down', n') /\ Final(down')
    BY <1>6, <2>1, Quiet
  <2> QED
    BY <2>1, <2>2 DEF OneExchange, OneCommand, OneAnswer
<1> QED
  BY <1>5, <1>7, <1>8 DEF TypeInv, AnswerInv

(* The end of a call, in trouble or with nothing more on its way.          *)
LEMMA EndStep ==
  ASSUME TypeInv, UNCHANGED <<server, up, buffer, n>>, DownOK', GotOK',
         call' = idle, reply' = <<>>, open' \in BOOLEAN, inLoop' \in BOOLEAN,
         faults' \cap Trouble = {} =>
            mode # "loop" /\ Commands = {} /\ ~Holds(down') /\ last'.asked = last'.answer
  PROVE  TypeInv' /\ AnswerInv'
<1>1. LoginOK' /\ ModeOK' /\ EventsOK' /\ UpOK'
  BY DEF TypeInv, LoginOK, ModeOK, EventsOK, UpOK, server, login
<1>2. HeldOK' /\ ~Holds(reply')
  <2>1. <<>> \in Seq(Token)
    OBVIOUS
  <2> QED
    BY <2>1 DEF TypeInv, HeldOK, Holds
<1>3. CallOK'
  BY DEF CallOK, idle, nobody, Somebody
<1>4. ASSUME faults' \cap Trouble = {} PROVE OneExchange'
  <2>1. Commands' = {} /\ mode' # "loop"
    BY <1>4 DEF Commands, server
  <2>2. AllOf(down', n') /\ Final(down')
    BY <1>4, Quiet DEF DownOK
  <2> QED
    BY <1>4, <2>1, <2>2 DEF OneExchange, OneCommand, OneAnswer
<1> QED
  BY <1>1, <1>2, <1>3, <1>4 DEF TypeInv, AnswerInv

LEMMA GiveUpStep == ASSUME TypeInv, AnswerInv, GiveUp PROVE TypeInv' /\ AnswerInv'
<1>1. faults' \cap Trouble # {}
  BY DEF GiveUp, Trouble
<1>2. DownOK' /\ GotOK' /\ open' \in BOOLEAN /\ inLoop' \in BOOLEAN
  BY DEF GiveUp, TypeInv, DownOK, GotOK, CallOK
<1> QED
  BY <1>1, <1>2, EndStep DEF GiveUp

(* doCmdBlockReceive takes from the front of what is there.                *)
LEMMA BlockStep ==
  ASSUME TypeInv, AnswerInv, NEW k \in 1..Len(down), BlockReceive(k)
  PROVE  TypeInv' /\ AnswerInv'
<1> DEFINE b == buffer \o SubSeq(down, 1, k)
<1>1. down \in Seq(Token) /\ Len(down) \in Nat /\ k \in 0..Len(down)
  BY DEF TypeInv, DownOK
<1>2. down' = SubSeq(down, k + 1, Len(down)) /\ call = idle
      /\ UNCHANGED <<server, up, open, inLoop, call, reply, n, last, faults>>
  BY DEF BlockReceive
<1>3. down' \in Seq(Token) /\ (Holds(down') => Holds(down))
  BY <1>1, <1>2, Suffix
<1>4. b \in Seq(Token) /\ Len(b) \in Nat /\ \A i \in 1..Len(b) : b[i] \in Token
  <2>1. \A i \in 1..k : down[i] \in Token
    BY <1>1
  <2>2. SubSeq(down, 1, k) \in Seq(Token)
    BY <1>1, <2>1, SubSeqProperties
  <2> HIDE DEF b
  <2>3. b \in Seq(Token)
    BY <2>2, ConcatProperties DEF b, TypeInv, HeldOK
  <2> QED
    BY <2>3
<1> HIDE DEF b
<1>5. buffer' \in Seq(Token) /\ got' \in Seq(Nat)
  <2>1. CASE buffer' = Rest(b) /\ UNCHANGED got
    <3>1. b # <<>> => b[Len(b)] \in Token
      BY <1>4
    <3>2. Rest(b) \in Seq(Token)
      BY <3>1 DEF Rest
    <3> QED
      BY <2>1, <3>2 DEF TypeInv, GotOK
  <2>2. ASSUME NEW i \in 1..Len(b), got' = Append(got, b[i].ev), buffer' = SubSeq(b, i + 1, Len(b))
        PROVE  buffer' \in Seq(Token) /\ got' \in Seq(Nat)
    <3>1. b[i].ev \in Nat
      BY <1>4 DEF Token
    <3>2. \A j \in (i + 1)..Len(b) : b[j] \in Token
      BY <1>4
    <3>3. SubSeq(b, i + 1, Len(b)) \in Seq(Token)
      BY <1>4, <3>2, SubSeqProperties
    <3> QED
      BY <2>2, <3>1, <3>3 DEF TypeInv, GotOK
  <2>3. \A i \in Firsts(Places(b, {"event"})) : i \in 1..Len(b)
    BY DEF Firsts, Places
  <2> QED
    BY <2>1, <2>2, <2>3 DEF BlockReceive, b
<1>6. LoginOK' /\ ModeOK' /\ EventsOK' /\ UpOK'
  BY <1>2 DEF TypeInv, LoginOK, ModeOK, EventsOK, UpOK, server, login
<1>7. HeldOK' /\ CallOK' /\ GotOK' /\ DownOK' /\ ~Holds(reply')
  BY <1>2, <1>3, <1>5 DEF TypeInv, HeldOK, CallOK, GotOK, DownOK, AnswerInv
<1>8. ASSUME faults' \cap Trouble = {} PROVE OneExchange'
  <2>1. Commands' = {} /\ ~Holds(down') /\ mode' # "loop" /\ last'.asked = last'.answer
    <3>1. Commands' = Commands /\ mode' = mode /\ last' = last /\ faults' = faults
      BY <1>2 DEF Commands, server
    <3> QED
      BY <1>2, <1>3, <1>8, <3>1, IdleQuiet
  <2>2. AllOf(down', n') /\ Final(down')
    BY <1>3, <2>1, Quiet
  <2> QED
    BY <2>1, <2>2 DEF OneExchange, OneCommand, OneAnswer
<1> QED
  BY <1>6, <1>7, <1>8 DEF TypeInv, AnswerInv

(* A set of places that is not empty has a first.                          *)
LEMMA FirstsOf ==
  ASSUME NEW S \in SUBSET Nat, S # {}
  PROVE  (CHOOSE i \in Firsts(S) : TRUE) \in S
<1>1. PICK k \in S : \A j \in S : ~(<<j, k>> \in OpToRel(<, Nat))
  BY NatLessThanWellFounded, WFMin
<1>2. \A j \in S : k <= j
  <2> TAKE j \in S
  <2>1. ~(j < k)
    <3>1. <<j, k>> \in Nat \X Nat
      OBVIOUS
    <3> QED
      BY <1>1, <3>1 DEF OpToRel
  <2> QED
    BY <2>1
<1>3. k \in Firsts(S)
  BY <1>2 DEF Firsts
<1>4. (CHOOSE i \in Firsts(S) : TRUE) \in Firsts(S)
  BY <1>3
<1> QED
  BY <1>4 DEF Firsts

(* What has come so far.                                                   *)
LEMMA PiecesOf ==
  ASSUME TypeInv, ~Holds(reply), NEW k \in 1..Len(down)
  PROVE  LET r == Pieces(k)
         IN  /\ r \in Seq(Token)
             /\ \A i \in 1..Len(r) : r[i].k \in Seen => \E j \in 1..k : r[i] = down[j]
<1> DEFINE q == SubSeq(down, 1, k)
           r == Pieces(k)
<1>1. down \in Seq(Token) /\ Len(down) \in Nat /\ k \in Nat \ {0} /\ k <= Len(down)
      /\ reply \in Seq(Token) /\ Len(reply) \in Nat
  BY DEF TypeInv, DownOK, HeldOK
<1>2. \A i \in 1..k : down[i] \in Token
  BY <1>1
<1>3. q \in Seq(Token) /\ Len(q) = k /\ \A i \in 1..k : q[i] = down[i]
  BY <1>1, <1>2, SubSeqProperties
<1> HIDE DEF q
<1>4. /\ r \in Seq(Token) /\ Len(r) = Len(reply) + k
      /\ \A i \in 1..(Len(reply) + k) : r[i] = IF i <= Len(reply) THEN reply[i] ELSE q[i - Len(reply)]
  BY <1>1, <1>3, ConcatProperties DEF Pieces, q
<1> HIDE DEF r
<1>5. ASSUME NEW i \in 1..Len(r), r[i].k \in Seen PROVE \E j \in 1..k : r[i] = down[j]
  <2>1. ~(i <= Len(reply))
    BY <1>1, <1>4, <1>5 DEF Holds
  <2>2. i - Len(reply) \in 1..k /\ r[i] = q[i - Len(reply)]
    BY <1>1, <1>4, <2>1
  <2> QED
    BY <1>3, <2>2
<1> QED
  BY <1>4, <1>5 DEF r

(* A status has come: with no trouble it is that of the last command, and  *)
(* what is still to be read holds none.                                    *)
LEMMA StatusRead ==
  ASSUME TypeInv, AnswerInv, NEW k \in 1..Len(down), call # idle, NEW late \in BOOLEAN,
         NEW a \in 1..Len(Pieces(k)), Pieces(k)[a].k \in Seen,
         Answers(Pieces(k)) # {} \/ Denials(Pieces(k)) # {},
         (faults \cup Faults(Pieces(k), late)) \cap Trouble = {}
  PROVE  /\ Pieces(k)[a].of = n /\ Commands = {} /\ mode # "loop"
         /\ ~Holds(SubSeq(down, k + 1, Len(down)))
<1> DEFINE r == Pieces(k)
<1>1. down \in Seq(Token) /\ k \in 0..Len(down)
  BY DEF TypeInv, DownOK
<1>2. r \in Seq(Token) /\ \A i \in 1..Len(r) : r[i].k \in Seen => \E j \in 1..k : r[i] = down[j]
  BY PiecesOf DEF AnswerInv
<1>3. faults \cap Trouble = {} /\ Faults(r, late) \cap Trouble = {}
  OBVIOUS
<1>4. ~Loops
  <2>1. SUFFICES ASSUME Loops PROVE FALSE
    OBVIOUS
  <2>2. call.cmds = <<"RCVLOOP">>
    BY <2>1 DEF Loops, doCmdEnterReceiveLoop, Method
  <2>3. Len(call.cmds) = 1 /\ call.cmds[1] = "RCVLOOP"
    BY <2>2
  <2>4. "RCVLOOP" \in {call.cmds[i] : i \in 1..Len(call.cmds)} \cap {"RCVLOOP", "BIN1"}
    BY <2>3
  <2>5. "loop" \in Faults(r, late)
    BY <2>4 DEF Faults
  <2> QED
    BY <1>3, <2>5 DEF Trouble
<1>5. OneExchange /\ OneAnswer
  BY <1>3, <1>4 DEF AnswerInv, OneExchange
<1>6. PICK s \in 1..Len(r) : r[s].k \in Status
  <2>1. ~Quoted(r)
    <3>1. Quoted(r) => "quoted" \in Faults(r, late)
      BY DEF Faults
    <3> QED
      BY <1>3, <3>1 DEF Trouble
  <2> QED
    BY <2>1 DEF Quoted, Answers, Denials, Places, Status
<1>7. Status \subseteq Seen
  BY DEF Seen
<1>8. PICK j \in 1..k : r[s] = down[j]
  BY <1>2, <1>6, <1>7
<1>9. PICK m \in 1..k : r[a] = down[m]
  BY <1>2
<1>10. j \in 1..Len(down) /\ m \in 1..Len(down)
  BY <1>1
<1>11. r[a].of = n
  BY <1>5, <1>9, <1>10 DEF OneAnswer, AllOf
<1>12. Holds(down)
  BY <1>9, <1>10 DEF Holds
<1>13. ~Holds(SubSeq(down, k + 1, Len(down)))
  <2>1. Final(down) /\ down[j].k \in Status
    BY <1>5, <1>6, <1>8 DEF OneAnswer
  <2> QED
    BY <1>1, <2>1, Suffix
<1> QED
  BY <1>4, <1>5, <1>11, <1>12, <1>13 DEF OneExchange, OneAnswer

LEMMA ReadStep ==
  ASSUME TypeInv, AnswerInv, NEW k \in 1..Len(down), Read(k)
  PROVE  TypeInv' /\ AnswerInv'
<1> DEFINE r == Pieces(k)
           status == IF Answers(r) # {} THEN Answers(r) ELSE Denials(r)
           a == CHOOSE i \in Firsts(status) : TRUE
<1>1. down \in Seq(Token) /\ Len(down) \in Nat /\ k \in 0..Len(down)
  BY DEF TypeInv, DownOK
<1>2. down' = SubSeq(down, k + 1, Len(down)) /\ call # idle /\ UNCHANGED <<server, buffer>>
  BY DEF Read
<1>3. /\ down' \in Seq(Token) /\ (Holds(down') => Holds(down))
      /\ AllOf(down, n) => AllOf(down', n)
      /\ Final(down) => Final(down')
  BY <1>1, <1>2, Suffix
<1>4. r \in Seq(Token)
  BY PiecesOf DEF AnswerInv
<1>5. status \subseteq 1..Len(r) /\ \A i \in status : r[i].k \in Seen
  BY DEF Answers, Denials, Places, Seen, Status
<1>6. LoginOK' /\ ModeOK' /\ EventsOK'
  BY <1>2 DEF TypeInv, LoginOK, ModeOK, EventsOK, server, login
<1>7. CASE status = {}
  <2>1. reply' = r /\ UNCHANGED <<up, open, inLoop, call, got, n, last, faults>>
    BY <1>7 DEF Read
  <2>2. ~Holds(reply')
    BY <1>7, <2>1 DEF Holds, Answers, Denials, Places, Seen, Status
  <2>3. UpOK' /\ HeldOK' /\ CallOK' /\ GotOK' /\ DownOK'
    BY <1>2, <1>3, <1>4, <2>1 DEF TypeInv, UpOK, HeldOK, CallOK, GotOK, DownOK
  <2>4. OneExchange => OneExchange'
    <3>1. Commands' = Commands /\ Loops' = Loops /\ mode' = mode
      BY <1>2, <2>1 DEF Commands, Loops, server
    <3> QED
      BY <1>3, <2>1, <3>1 DEF OneExchange, OneCommand, OneAnswer
  <2> QED
    BY <1>6, <2>1, <2>2, <2>3, <2>4 DEF TypeInv, AnswerInv
<1>8. CASE status # {}
  <2>1. a \in status
    <3>1. status \in SUBSET Nat
      BY <1>4, <1>5
    <3> HIDE DEF status
    <3> QED
      BY <1>8, <3>1, FirstsOf
  <2>2. PICK late \in BOOLEAN :
          /\ last' = [asked |-> n, answer |-> r[a].of]
          /\ faults' = faults \cup Faults(r, late)
          /\ IF ~late /\ Answers(r) # {} /\ call.at < Len(call.cmds)
             THEN /\ Ask(call.cmds, call.at + 1, call.who, r)
                  /\ UNCHANGED <<open, inLoop, got>>
             ELSE /\ reply' = <<>>
                  /\ UNCHANGED <<up, n>>
                  /\ IF ~late /\ Answers(r) # {} THEN EndCall(r)
                     ELSE /\ call' = idle
                          /\ open' = (call.cmds # doCmdClose.cmds)
                          /\ UNCHANGED <<inLoop, got>>
    BY <1>8 DEF Read
  <2>3. a \in 1..Len(r) /\ r[a].k \in Seen /\ (Answers(r) # {} \/ Denials(r) # {})
    BY <1>5, <1>8, <2>1
  <2> HIDE DEF a, status
  <2>4. faults' \cap Trouble = {} =>
           mode # "loop" /\ Commands = {} /\ ~Holds(down') /\ last'.asked = last'.answer
    BY <1>2, <2>2, <2>3, StatusRead
  <2>5. DownOK' /\ mode' = mode
    BY <1>2, <1>3 DEF DownOK, server
  <2>6. CASE ~late /\ Answers(r) # {} /\ call.at < Len(call.cmds)
    <3>1. Ask(call.cmds, call.at + 1, call.who, r) /\ UNCHANGED <<open, inLoop, got>>
      BY <2>2, <2>6
    <3>2. call.cmds \in Lists /\ call.at + 1 \in 1..Len(call.cmds)
      <4>1. call.cmds \in Lists /\ call.at \in 0..Len(call.cmds)
        BY <1>2 DEF TypeInv, CallOK
      <4>2. Len(call.cmds) \in 1..2
        BY <4>1, CallLists
      <4> QED
        BY <2>6, <4>1, <4>2
    <3>3. call.who \in Somebody \X (Passwords \cup {NoUser}) /\ open' \in BOOLEAN /\ inLoop' \in BOOLEAN
      BY <3>1 DEF TypeInv, CallOK
    <3>4. UpOK' /\ CallOK' /\ n' \in Nat /\ reply' = <<>> /\ AnswerInv'
      BY <2>4, <2>5, <3>1, <3>2, <3>3, AskStep
    <3>5. HeldOK' /\ GotOK'
      <4>1. <<>> \in Seq(Token)
        OBVIOUS
      <4> QED
        BY <1>2, <3>1, <3>4, <4>1 DEF TypeInv, HeldOK, GotOK
    <3> QED
      BY <1>6, <2>5, <3>4, <3>5 DEF TypeInv
  <2>7. CASE ~(~late /\ Answers(r) # {} /\ call.at < Len(call.cmds))
    <3>1. /\ reply' = <<>> /\ UNCHANGED <<up, n>>
          /\ \/ EndCall(r)
             \/ call' = idle /\ open' = (call.cmds # doCmdClose.cmds) /\ UNCHANGED <<inLoop, got>>
      BY <2>2, <2>7
    <3>2. call' = idle /\ open' \in BOOLEAN /\ inLoop' \in BOOLEAN
      BY <3>1 DEF EndCall, TypeInv, CallOK
    <3>3. GotOK'
      <4>1. r[1] \in Token
        BY <1>4, <2>3
      <4>2. Received(r) \in Seq(Nat)
        BY <4>1 DEF Received, Token, TypeInv, GotOK
      <4> QED
        BY <3>1, <4>2 DEF EndCall, TypeInv, GotOK
    <3> QED
      BY <1>2, <2>4, <2>5, <3>1, <3>2, <3>3, EndStep
  <2> QED
    BY <2>6, <2>7
<1> QED
  BY <1>7, <1>8

-----------------------------------------------------------------------------
SessionInv == TypeInv /\ AnswerInv

LEMMA SessionInit == Init => SessionInv
<1> SUFFICES ASSUME Init PROVE SessionInv
  OBVIOUS
<1>1. /\ <<>> \in Seq(Token) /\ <<>> \in Seq(Nat) /\ <<>> \in Seq(Asked)
      /\ Len(<<>>) = 0
  OBVIOUS
<1>2. /\ queue = <<>> /\ up = <<>> /\ down = <<>> /\ reply = <<>> /\ buffer = <<>> /\ got = <<>>
      /\ call = idle /\ made = 0 /\ n = 0 /\ taken = {} /\ inLoop = FALSE /\ open \in BOOLEAN
      /\ last = [asked |-> 0, answer |-> 0]
  BY DEF Init
<1>3. LoginOK /\ ModeOK /\ mode # "loop"
  <2>1. CASE open
    <3>1. \A u \in Users : Rights(u) \subseteq 0..15
      BY DEF Rights, RightOf
    <3>2. /\ mode = "text" /\ verified = TRUE /\ user \in Users /\ FromThere(user)
          /\ name = user /\ right \in Rights(user)
      BY <2>1 DEF Init
    <3> QED
      BY <3>1, <3>2 DEF LoginOK, ModeOK, Somebody
  <2>2. CASE ~open
    <3>1. mode = "gone" /\ verified = FALSE /\ user = NoUser /\ name = NoUser /\ right = 0
      BY <2>2 DEF Init
    <3>2. 0 \in 0..15
      OBVIOUS
    <3> QED
      BY <3>1, <3>2 DEF LoginOK, ModeOK, Somebody
  <2> QED
    BY <2>1, <2>2
<1>4. EventsOK /\ UpOK /\ DownOK /\ HeldOK /\ GotOK
  BY <1>1, <1>2 DEF EventsOK, UpOK, DownOK, HeldOK, GotOK
<1>5. CallOK
  BY <1>2 DEF CallOK, idle, nobody, Somebody
<1>6. ~Holds(reply) /\ Commands = {} /\ ~Holds(down)
  BY <1>1, <1>2 DEF Holds, Commands
<1>7. AllOf(down, n) /\ Final(down)
  BY <1>4, <1>6, Quiet DEF DownOK
<1>8. OneExchange
  BY <1>2, <1>3, <1>6, <1>7 DEF OneExchange, OneCommand, OneAnswer
<1> QED
  BY <1>3, <1>4, <1>5, <1>6, <1>8 DEF SessionInv, TypeInv, AnswerInv

LEMMA SessionStep == SessionInv /\ [Next]_vars => SessionInv'
<1> SUFFICES ASSUME TypeInv, AnswerInv, [Next]_vars PROVE TypeInv' /\ AnswerInv'
  BY DEF SessionInv
<1>1. CASE Arrive
  <2>1. /\ UNCHANGED <<login, up, down, client>> /\ mode' = mode
        /\ queue' = Append(queue, made + 1) /\ made' = made + 1 /\ taken' = taken
    BY <1>1 DEF Arrive
  <2>2. EventsOK' /\ ModeOK'
    BY <2>1 DEF TypeInv, EventsOK, ModeOK, login
  <2> QED
    BY <2>1, <2>2, SessionKept
<1>2. CASE Notice
  <2>1. EventsOK' /\ ModeOK' /\ mode' = "gone" /\ UNCHANGED <<login, up, down, client>>
    BY <1>2 DEF Notice, TypeInv, EventsOK, ModeOK
  <2> QED
    BY <2>1, SessionKept
<1>3. CASE Login
  BY <1>3, LoginStep
<1>4. CASE Serve \/ SendFull
  BY <1>4, ServeTyped, FullStep
<1>5. CASE LoopEvent \/ LoopIdle
  BY <1>5, LoopTyped
<1>6. CASE Frame
  BY <1>6, FrameTyped
<1>7. CASE Connect
  BY <1>7, ConnectStep
<1>8. CASE Close \/ \E m \in Calls : Begin(m)
  BY <1>8, BeginStep
<1>9. CASE Wait
  BY <1>9, ReadStep, GiveUpStep DEF Wait
<1>10. ASSUME NEW f \in Frames, BinaryCall(f) PROVE TypeInv' /\ AnswerInv'
  BY <1>10, BinaryStep
<1>11. CASE \/ doBinaryNOOP \/ doBinarySend \/ doBinarySendEx
            \/ doBinaryReceive \/ doBinaryReceiveEx \/ doBinaryClose
  BY <1>10, <1>11 DEF doBinaryNOOP, doBinarySend, doBinarySendEx, doBinaryReceive,
                      doBinaryReceiveEx, doBinaryClose, Frames
<1>12. CASE \E k \in 1..Len(down) : BlockReceive(k)
  BY <1>12, BlockStep
<1>13. CASE UNCHANGED vars
  <2>1. UNCHANGED <<login, up, down, client>> /\ UNCHANGED <<mode, queue, made, taken>>
    BY <1>13 DEF vars, server
  <2>2. EventsOK' /\ ModeOK'
    BY <2>1 DEF TypeInv, EventsOK, ModeOK, login
  <2> QED
    BY <2>1, <2>2, SessionKept
<1> QED
  BY <1>1, <1>2, <1>3, <1>4, <1>5, <1>6, <1>7, <1>8, <1>9, <1>11, <1>12, <1>13
     DEF Next, Server, Client

(* The types, and before any trouble at most one command or its answer is  *)
(* on its way: the invariant from which the two others follow.             *)
THEOREM SessionInvariant == Spec => []SessionInv
<1>1. Init => SessionInv
  BY SessionInit
<1>2. SessionInv /\ [Next]_vars => SessionInv'
  BY SessionStep
<1> QED
  BY <1>1, <1>2, PTL DEF Spec

(* Every variable has its type; who is verified is a user who gave the     *)
(* password from a permitted address, and nobody else ever gets into the   *)
(* receive loop or binary mode: the tests before the commands and of PASS. *)
THEOREM SessionTypeCorrect == Spec => []TypeOK
<1>1. SessionInv => TypeOK
  BY DEF SessionInv, TypeInv, LoginOK, ModeOK, EventsOK, UpOK, DownOK, HeldOK, CallOK, GotOK,
         Somebody, Lists, TypeOK
<1> QED
  BY <1>1, SessionInvariant, PTL

(* checkReturnValue takes the answer to the command that was written last, *)
(* however the answers are cut up and whatever else comes between, as long *)
(* as no call has given up, no text held "+OK", no SEND found the output   *)
(* queue full (it is answered twice) and the receive loop was not entered. *)
THEOREM AnswersMatch == Spec => []OwnAnswer
<1>1. SessionInv => OwnAnswer
  BY DEF SessionInv, AnswerInv, OneExchange, Trouble, OwnAnswer
<1> QED
  BY <1>1, SessionInvariant, PTL

-----------------------------------------------------------------------------
(* The events on their way to the caller: those handed out, those that     *)
(* doCmdBlockReceive has kept, those of the reply, those in the socket,    *)
(* and the session's queue are in their order, each before the next.       *)
Listed(q) == {q[i] : i \in 1..Len(q)}
Climbs(q) == \A i, j \in 1..Len(q) : i < j => q[i] < q[j]
Found(s) == {s[i].ev : i \in Places(s, {"event"})}
Rising(s) == \A i, j \in Places(s, {"event"}) : i < j => s[i].ev < s[j].ev
Before(A, B) == \A x \in A, y \in B : x < y

Order ==
  /\ Climbs(got) /\ Rising(buffer) /\ Rising(reply) /\ Rising(down) /\ Climbs(queue)
  /\ Before(Listed(got), Found(buffer)) /\ Before(Listed(got), Found(reply))
  /\ Before(Listed(got), Found(down)) /\ Before(Listed(got), Listed(queue))
  /\ Before(Found(buffer), Found(reply)) /\ Before(Found(buffer), Found(down))
  /\ Before(Found(buffer), Listed(queue))
  /\ Before(Found(reply), Found(down)) /\ Before(Found(reply), Listed(queue))
  /\ Before(Found(down), Listed(queue))
  /\ taken \subseteq 1..made /\ Listed(got) \subseteq 1..made /\ Found(buffer) \subseteq 1..made
  /\ Found(reply) \subseteq 1..made /\ Found(down) \subseteq 1..made
  /\ Listed(queue) \subseteq 1..made

(* There is a reply only during a call, and doCmdReceive and               *)
(* doCmdBlockReceive are never at work in the same session.                *)
Holding ==
  /\ call = idle => reply = <<>>
  /\ call # idle => open
  /\ ~inLoop => buffer = <<>>
  /\ call.cmds = doCmdReceive.cmds => ~inLoop

(* q is p with r behind it.                                                *)
Joined(p, r, q) ==
  /\ Len(q) = Len(p) + Len(r)
  /\ \A i \in 1..Len(p) : q[i] = p[i]
  /\ \A i \in 1..Len(r) : q[Len(p) + i] = r[i]

LEMMA JoinedByConcat ==
  ASSUME NEW p \in Seq(Token), NEW r \in Seq(Token), NEW q, q = p \o r
  PROVE  q \in Seq(Token) /\ Joined(p, r, q)
<1>1. Len(p) \in Nat /\ Len(r) \in Nat
  OBVIOUS
<1>2. /\ q \in Seq(Token) /\ Len(q) = Len(p) + Len(r)
      /\ \A i \in 1..(Len(p) + Len(r)) : q[i] = IF i <= Len(p) THEN p[i] ELSE r[i - Len(p)]
  BY ConcatProperties
<1>3. \A i \in 1..Len(p) : q[i] = p[i]
  BY <1>1, <1>2
<1>4. \A i \in 1..Len(r) : q[Len(p) + i] = r[i]
  <2> TAKE i \in 1..Len(r)
  <2>1. Len(p) + i \in 1..(Len(p) + Len(r)) /\ ~(Len(p) + i <= Len(p)) /\ (Len(p) + i) - Len(p) = i
    BY <1>1
  <2> QED
    BY <1>2, <2>1
<1> QED
  BY <1>2, <1>3, <1>4 DEF Joined

Cut(p, k, r, q) == p \in Seq(Token) /\ r \in Seq(Token) /\ Len(p) = k /\ Joined(p, r, q)

LEMMA JoinedByCut ==
  ASSUME NEW q \in Seq(Token), NEW k \in 0..Len(q)
  PROVE  Cut(SubSeq(q, 1, k), k, SubSeq(q, k + 1, Len(q)), q)
<1>p. PICK p : p = SubSeq(q, 1, k)
  OBVIOUS
<1>r. PICK r : r = SubSeq(q, k + 1, Len(q))
  OBVIOUS
<1>1. Len(q) \in Nat /\ k \in Nat /\ k <= Len(q)
  OBVIOUS
<1>2. (\A i \in 1..k : q[i] \in Token) /\ (\A i \in (k + 1)..Len(q) : q[i] \in Token)
  BY <1>1
<1>3. /\ r \in Seq(Token) /\ Len(r) = Len(q) - k
      /\ \A i \in 1..(Len(q) - k) : r[i] = q[k + i]
  BY <1>1, <1>2, <1>r, SubSeqProperties
<1>4. /\ p \in Seq(Token) /\ Len(p) = k
      /\ \A i \in 1..k : p[i] = q[i]
  BY <1>1, <1>2, <1>p, SubSeqProperties
<1>5. Len(q) = Len(p) + Len(r)
  <2>1. \A a, b \in Nat : a = b + (a - b)
    OBVIOUS
  <2> QED
    BY <1>1, <1>3, <1>4, <2>1, Zenon
<1>6. \A i \in 1..Len(r) : q[Len(p) + i] = r[i]
  BY <1>3, <1>4, <1>1
<1> QED
  BY <1>p, <1>r, <1>3, <1>4, <1>5, <1>6, Zenon DEF Joined, Cut

(* The events of the two parts are those of the whole, and in order if     *)
(* those of the whole are.                                                 *)
LEMMA JoinedEvents ==
  ASSUME NEW p \in Seq(Token), NEW r \in Seq(Token), NEW q \in Seq(Token), Joined(p, r, q)
  PROVE  /\ Found(q) = Found(p) \cup Found(r)
         /\ Carried(q) = Carried(p) \cup Carried(r)
         /\ Rising(q) <=> Rising(p) /\ Rising(r) /\ Before(Found(p), Found(r))
<1>1. Len(p) \in Nat /\ Len(r) \in Nat /\ Len(q) = Len(p) + Len(r)
  BY DEF Joined
<1>2. \A i \in 1..Len(p) : i \in 1..Len(q) /\ q[i] = p[i]
  BY <1>1 DEF Joined
<1>3. \A i \in 1..Len(r) : Len(p) + i \in 1..Len(q) /\ q[Len(p) + i] = r[i]
  BY <1>1 DEF Joined
<1>4. \A j \in 1..Len(q) : j \in 1..Len(p) \/ \E i \in 1..Len(r) : j = Len(p) + i
  <2> TAKE j \in 1..Len(q)
  <2>1. CASE j <= Len(p)
    BY <1>1, <2>1
  <2>2. CASE ~(j <= Len(p))
    <3>1. j - Len(p) \in 1..Len(r) /\ j = Len(p) + (j - Len(p))
      BY <1>1, <2>2
    <3> QED
      BY <3>1
  <2> QED
    BY <2>1, <2>2
<1>5. Carried(q) = Carried(p) \cup Carried(r)
  <2>1. \A j \in 1..Len(q) : q[j].ev \in Carried(p) \cup Carried(r)
    BY <1>2, <1>3, <1>4 DEF Carried
  <2>2. \A i \in 1..Len(p) : p[i].ev \in Carried(q)
    BY <1>2, Zenon DEF Carried
  <2>3. \A i \in 1..Len(r) : r[i].ev \in Carried(q)
    BY <1>3, Zenon DEF Carried
  <2> QED
    BY <2>1, <2>2, <2>3 DEF Carried
<1>6. Found(q) = Found(p) \cup Found(r)
  <2>0. \A s : Found(s) = {s[i].ev : i \in {j \in 1..Len(s) : s[j].k = "event"}}
    BY DEF Found, Places
  <2>1. \A j \in 1..Len(q) : q[j].k = "event" => q[j].ev \in Found(p) \cup Found(r)
    BY <1>2, <1>3, <1>4, <2>0
  <2>2. \A i \in 1..Len(p) : p[i].k = "event" => p[i].ev \in Found(q)
    BY <1>2, <2>0
  <2>3. \A i \in 1..Len(r) : r[i].k = "event" => r[i].ev \in Found(q)
    BY <1>3, <2>0
  <2> QED
    BY <2>0, <2>1, <2>2, <2>3
<1>7. ASSUME Rising(q) PROVE Rising(p) /\ Rising(r) /\ Before(Found(p), Found(r))
  <2>1. Rising(p)
    BY <1>2, <1>7 DEF Rising, Places
  <2>2. \A i, j \in 1..Len(r) : i < j => Len(p) + i < Len(p) + j
    BY <1>1
  <2>3. Rising(r)
    BY <1>3, <1>7, <2>2 DEF Rising, Places
  <2>4. \A i \in 1..Len(p), j \in 1..Len(r) : i < Len(p) + j
    BY <1>1
  <2>5. Before(Found(p), Found(r))
    <3>1. ASSUME NEW i \in 1..Len(p), NEW j \in 1..Len(r), p[i].k = "event", r[j].k = "event"
          PROVE  p[i].ev < r[j].ev
      BY <1>2, <1>3, <1>7, <2>4, <3>1 DEF Rising, Places
    <3> QED
      BY <3>1 DEF Places, Found, Before
  <2> QED
    BY <2>1, <2>3, <2>5
<1>8. ASSUME Rising(p), Rising(r), Before(Found(p), Found(r)) PROVE Rising(q)
  <2> SUFFICES ASSUME NEW i \in 1..Len(q), NEW j \in 1..Len(q), i < j,
                      q[i].k = "event", q[j].k = "event"
               PROVE  q[i].ev < q[j].ev
    BY DEF Rising, Places
  <2>1. CASE i \in 1..Len(p) /\ j \in 1..Len(p)
    BY <1>2, <1>8, <2>1 DEF Rising, Places
  <2>2. ASSUME i \in 1..Len(p), NEW m \in 1..Len(r), j = Len(p) + m PROVE q[i].ev < q[j].ev
    BY <1>2, <1>3, <1>8, <2>2 DEF Places, Found, Before
  <2>3. ASSUME NEW l \in 1..Len(r), NEW m \in 1..Len(r), i = Len(p) + l, j = Len(p) + m
        PROVE  q[i].ev < q[j].ev
    <3>1. l < m
      BY <1>1, <2>3
    <3> QED
      BY <1>3, <1>8, <2>3, <3>1 DEF Rising, Places
  <2>4. ~(i \notin 1..Len(p) /\ j \in 1..Len(p))
    BY <1>1
  <2> QED
    BY <1>4, <2>1, <2>2, <2>3, <2>4
<1> QED
  BY <1>5, <1>6, <1>7, <1>8

(* Numbers in order, one more behind them, and without the first.          *)
LEMMA OneMore ==
  ASSUME NEW q \in Seq(Nat), Climbs(q), NEW x \in Nat, Before(Listed(q), {x}),
         NEW s, s = Append(q, x)
  PROVE  s \in Seq(Nat) /\ Climbs(s) /\ Listed(s) = Listed(q) \cup {x}
<1>1. Len(q) \in Nat
  OBVIOUS
<1>2. /\ s \in Seq(Nat) /\ Len(s) = Len(q) + 1
      /\ \A i \in 1..Len(q) : s[i] = q[i]
      /\ s[Len(q) + 1] = x
  BY AppendProperties
<1>3. \A i \in 1..Len(s) : i \in 1..Len(q) \/ i = Len(q) + 1
  BY <1>1, <1>2
<1>4. \A i \in 1..Len(q) : i \in 1..Len(s)
  BY <1>1, <1>2
<1>5. Len(q) + 1 \in 1..Len(s)
  BY <1>1, <1>2
<1>6. Listed(s) = Listed(q) \cup {x}
  BY <1>2, <1>3, <1>4, <1>5 DEF Listed
<1>7. ASSUME NEW i \in 1..Len(s), NEW j \in 1..Len(s), i < j PROVE s[i] < s[j]
  <2>1. i \in 1..Len(q)
    BY <1>1, <1>2, <1>7
  <2>2. CASE j \in 1..Len(q)
    BY <1>2, <1>7, <2>1, <2>2 DEF Climbs
  <2>3. CASE j = Len(q) + 1
    BY <1>2, <2>1, <2>3 DEF Before, Listed
  <2> QED
    BY <1>3, <2>2, <2>3
<1> QED
  BY <1>2, <1>6, <1>7 DEF Climbs

LEMMA OneLess ==
  ASSUME NEW q \in Seq(Nat), Climbs(q), q # <<>>, NEW s, s = Tail(q)
  PROVE  /\ s \in Seq(Nat) /\ Climbs(s) /\ Listed(s) \subseteq Listed(q)
         /\ Head(q) \in Listed(q) /\ Before({Head(q)}, Listed(s))
<1>1. Len(q) \in Nat /\ Len(q) >= 1 /\ Head(q) = q[1]
  BY EmptySeq
<1>2. s \in Seq(Nat) /\ Len(s) = Len(q) - 1 /\ \A i \in 1..Len(s) : s[i] = q[i + 1]
  BY HeadTailProperties
<1>3. \A i \in 1..Len(s) : i + 1 \in 1..Len(q) /\ 1 < i + 1
  BY <1>1, <1>2
<1>4. Listed(s) \subseteq Listed(q)
  BY <1>2, <1>3 DEF Listed
<1>5. 1 \in 1..Len(q)
  BY <1>1
<1>6. Head(q) \in Listed(q) /\ Before({Head(q)}, Listed(s))
  BY <1>1, <1>2, <1>3, <1>5 DEF Listed, Before, Climbs
<1>7. \A i, j \in 1..Len(s) : i < j => i + 1 < j + 1
  BY <1>1, <1>2
<1>8. Climbs(s)
  BY <1>2, <1>3, <1>7 DEF Climbs
<1> QED
  BY <1>2, <1>4, <1>6, <1>8

-----------------------------------------------------------------------------
(* Nothing but the order of what is left.                                  *)
LEMMA OrderLess ==
  ASSUME Order, UNCHANGED <<got, made>>,
         Rising(buffer'), Rising(reply'), Rising(down'), Climbs(queue'), taken' \subseteq taken,
         Found(buffer') \subseteq Found(buffer), Found(reply') \subseteq Found(reply),
         Found(down') \subseteq Found(down), Listed(queue') \subseteq Listed(queue)
  PROVE  Order'
BY DEF Order, Before

LEMMA NoEvents ==
  ASSUME NEW t, \A i \in 1..Len(t) : t[i].k # "event"
  PROVE  Found(t) = {} /\ Rising(t)
BY DEF Found, Rising, Places

LEMMA OneEvent ==
  ASSUME NEW t, NEW e, \A i \in 1..Len(t) : t[i].k = "event" => i = 1 /\ t[i].ev = e
  PROVE  Found(t) \subseteq {e} /\ Rising(t)
<1>1. Found(t) \subseteq {e}
  BY DEF Found, Places
<1>2. \A i, j \in Places(t, {"event"}) : i = j
  BY DEF Places
<1>3. \A i \in Places(t, {"event"}) : i \in Nat
  BY DEF Places
<1>4. Rising(t)
  BY <1>2, <1>3 DEF Rising
<1> QED
  BY <1>1, <1>4

LEMMA Nothing == Found(<<>>) = {} /\ Rising(<<>>) /\ Listed(<<>>) = {} /\ Climbs(<<>>) /\ Carried(<<>>) = {}
<1>1. Len(<<>>) = 0 /\ 1..0 = {}
  OBVIOUS
<1> QED
  BY <1>1 DEF Found, Rising, Places, Listed, Climbs, Carried

(* The session writes, with or without the first event of its queue.       *)
Moves(t) ==
  \/ UNCHANGED <<queue, taken>> /\ Found(t) = {}
  \/ /\ queue # <<>> /\ queue' = Tail(queue) /\ taken' = taken \cup {Head(queue)}
     /\ Found(t) \subseteq {Head(queue)}

LEMMA ServerOrder ==
  ASSUME TypeInv, Order, UNCHANGED <<got, buffer, reply, made>>,
         NEW t \in Seq(Token), Rising(t), Writes(t) \/ UNCHANGED down, Moves(t)
  PROVE  Order'
<1>1. down \in Seq(Token) /\ queue \in Seq(Nat)
  BY DEF TypeInv, DownOK, EventsOK
<1>2. Before(Found(down), Found(t))
  <2>1. CASE Found(t) = {}
    BY <2>1 DEF Before
  <2>2. CASE queue # <<>> /\ Found(t) \subseteq {Head(queue)}
    <3>1. Head(queue) \in Listed(queue)
      BY <1>1, <2>2, OneLess DEF Order
    <3> QED
      BY <2>2, <3>1 DEF Order, Before
  <2> QED
    BY <2>1, <2>2 DEF Moves
<1>3. Found(down') \subseteq Found(down) \cup Found(t) /\ Rising(down')
  <2>1. CASE down' = down \o t
    <3>1. down' \in Seq(Token) /\ Joined(down, t, down')
      BY <1>1, <2>1, JoinedByConcat
    <3> QED
      BY <1>1, <1>2, <3>1, JoinedEvents DEF Order
  <2>2. CASE down' = down
    BY <2>2 DEF Order
  <2> QED
    BY <2>1, <2>2 DEF Writes
<1>4. CASE UNCHANGED <<queue, taken>> /\ Found(t) = {}
  BY <1>3, <1>4, OrderLess DEF Order
<1>5. CASE /\ queue # <<>> /\ queue' = Tail(queue) /\ taken' = taken \cup {Head(queue)}
           /\ Found(t) \subseteq {Head(queue)}
  <2>1. /\ Climbs(queue') /\ Listed(queue') \subseteq Listed(queue)
        /\ Head(queue) \in Listed(queue) /\ Before({Head(queue)}, Listed(queue'))
    BY <1>1, <1>5, OneLess DEF Order
  <2>2. PICK h : h = Head(queue)
    OBVIOUS
  <2>3. Found(down') \subseteq Found(down) \cup {h} /\ h \in Listed(queue) /\ Before({h}, Listed(queue'))
        /\ taken' = taken \cup {h}
    BY <1>3, <1>5, <2>1, <2>2
  <2>4. /\ Before(Listed(got), Found(down')) /\ Before(Found(buffer), Found(down'))
        /\ Before(Found(reply), Found(down')) /\ Before(Found(down'), Listed(queue'))
    BY <2>1, <2>3 DEF Order, Before
  <2>5. /\ Before(Listed(got), Listed(queue')) /\ Before(Found(buffer), Listed(queue'))
        /\ Before(Found(reply), Listed(queue'))
    BY <2>1 DEF Order, Before
  <2>6. /\ taken' \subseteq 1..made /\ Found(down') \subseteq 1..made /\ Listed(queue') \subseteq 1..made
    BY <2>1, <2>3 DEF Order
  <2> QED
    BY <1>3, <2>1, <2>4, <2>5, <2>6 DEF Order
<1> QED
  BY <1>4, <1>5 DEF Moves

LEMMA ArriveOrder == ASSUME TypeInv, Order, Arrive PROVE Order'
<1>1. queue \in Seq(Nat) /\ made \in Nat
  BY DEF TypeInv, EventsOK
<1>2. /\ made' = made + 1 /\ queue' = Append(queue, made + 1)
      /\ UNCHANGED <<taken, down, got, buffer, reply>>
  BY DEF Arrive, client
<1>3. PICK m \in Nat : m = made + 1
  BY <1>1
<1>4. \A x \in 1..made : x < m /\ x \in 1..m
  BY <1>1, <1>3
<1>5. Before(Listed(queue), {m})
  BY <1>4 DEF Order, Before
<1>6. Climbs(queue') /\ Listed(queue') = Listed(queue) \cup {m}
  BY <1>1, <1>2, <1>3, <1>5, OneMore DEF Order
<1>7. /\ Before(Listed(got), Listed(queue')) /\ Before(Found(buffer), Listed(queue'))
      /\ Before(Found(reply), Listed(queue')) /\ Before(Found(down), Listed(queue'))
  BY <1>4, <1>6 DEF Order, Before
<1>8. m \in 1..m
  BY <1>3, <1>1
<1> QED
  BY <1>2, <1>3, <1>4, <1>6, <1>7, <1>8 DEF Order

-----------------------------------------------------------------------------
(* What an answer looks like: its status is the last but one, and only the *)
(* first piece may be an event, when the status is "+OK".                  *)
StatusLast(s) == \A i \in 1..Len(s) : s[i].k \in Status => i = Len(s) - 1
Bare(s) == \A i \in 1..Len(s) : s[i].k # "event" /\ s[i].ev = 0
Brings(s, e) ==
  /\ Len(s) > 1 /\ s[1].k = "event" /\ s[1].ev = e /\ \E j \in 1..Len(s) : s[j].k = "ok"
  /\ \A i \in 1..Len(s) : i # 1 => s[i].k # "event" /\ s[i].ev = 0

LEMMA Marks ==
  ASSUME NEW c \in Nat, NEW k \in {"ok", "no", "tail", "value", "quoted", "frame"}
  PROVE  /\ Mark(k, c) \in Token /\ Mark(k, c).k = k /\ Mark(k, c).ev = 0
         /\ Mark(k, c).k # "event"
BY DEF Mark, Token

LEMMA Lines ==
  ASSUME NEW c \in Nat, NEW k \in Status, NEW t, t = <<Mark(k, c), Mark("tail", c)>>
  PROVE  t \in Seq(Token) /\ Bare(t) /\ StatusLast(t)
<1>1. k \in {"ok", "no"}
  BY DEF Status
<1>2. t \in Seq(Token) /\ Len(t) = 2 /\ t[1] = Mark(k, c) /\ t[2] = Mark("tail", c)
  BY <1>1, Marks
<1>3. \A i \in 1..2 : i = 1 \/ i = 2
  OBVIOUS
<1>4. Bare(t)
  BY <1>1, <1>2, <1>3, Marks DEF Bare
<1>5. t[2].k \notin Status
  BY <1>2, Marks DEF Status
<1>6. StatusLast(t)
  BY <1>2, <1>3, <1>5 DEF StatusLast
<1> QED
  BY <1>2, <1>4, <1>6

(* Something before the status line.                                       *)
Three(t, x, c) == /\ Len(t) = 3
                  /\ t[1] = x /\ t[2] = Mark("ok", c) /\ t[3] = Mark("tail", c)

LEMMA ThreePieces ==
  ASSUME NEW c \in Nat, NEW x \in Token
  PROVE  <<x>> \o Ok(c) \in Seq(Token) /\ Three(<<x>> \o Ok(c), x, c)
<1>t. PICK t : t = <<x>> \o Ok(c)
  OBVIOUS
<1>1. PICK y : y = <<x>>
  OBVIOUS
<1>2. PICK z : z = Ok(c)
  OBVIOUS
<1>3. y \in Seq(Token) /\ Len(y) = 1 /\ y[1] = x
  BY <1>1
<1>4. z \in Seq(Token) /\ Len(z) = 2 /\ z[1] = Mark("ok", c) /\ z[2] = Mark("tail", c)
  BY <1>2, Marks DEF Ok
<1>5. t \in Seq(Token) /\ Joined(y, z, t)
  BY <1>t, <1>1, <1>2, <1>3, <1>4, JoinedByConcat
<1>6. Len(t) = 3 /\ t[1] = x
  BY <1>3, <1>4, <1>5 DEF Joined
<1>7. \A i \in 1..2 : t[1 + i] = z[i]
  BY <1>3, <1>4, <1>5 DEF Joined
<1>8. t[2] = z[1] /\ t[3] = z[2]
  <2>1. 1 \in 1..2 /\ 2 \in 1..2 /\ 1 + 1 = 2 /\ 1 + 2 = 3
    OBVIOUS
  <2>2. t[1 + 1] = z[1] /\ t[1 + 2] = z[2]
    BY <1>7, <2>1, Zenon
  <2> QED
    BY <2>1, <2>2, Zenon
<1> QED
  BY <1>t, <1>4, <1>5, <1>6, <1>8 DEF Three

LEMMA Bares ==
  ASSUME NEW c \in Nat, NEW t \in Answers1(c)
  PROVE  t \in Seq(Token) /\ Bare(t) /\ StatusLast(t)
<1>1. CASE t = <<>>
  BY <1>1 DEF Bare, StatusLast
<1>2. CASE t \in {Ok(c), No(c)}
  <2>1. PICK k \in Status : t = <<Mark(k, c), Mark("tail", c)>>
    BY <1>2 DEF Ok, No, Status
  <2> QED
    BY <2>1, Lines
<1>3. ASSUME NEW k \in {"value", "quoted"}, t = <<Mark(k, c)>> \o Ok(c)
      PROVE  t \in Seq(Token) /\ Bare(t) /\ StatusLast(t)
  <2>1. PICK x \in Token : x = Mark(k, c) /\ x.ev = 0 /\ x.k # "event" /\ x.k \notin Status
    BY Marks DEF Status
  <2>2. t \in Seq(Token) /\ Three(t, x, c)
    <3>1. t = <<x>> \o Ok(c)
      BY <1>3, <2>1, Zenon
    <3>2. <<x>> \o Ok(c) \in Seq(Token) /\ Three(<<x>> \o Ok(c), x, c)
      BY ThreePieces
    <3> QED
      BY <3>1, <3>2, Zenon
  <2>3. \A i \in 1..3 : i = 1 \/ i = 2 \/ i = 3
    OBVIOUS
  <2>4. Bare(t)
    BY <2>1, <2>2, <2>3, Marks DEF Bare, Three
  <2>5. t[3].k \notin Status
    BY <2>2, Marks DEF Status, Three
  <2>6. StatusLast(t)
    BY <2>1, <2>2, <2>3, <2>5 DEF StatusLast, Three
  <2> QED
    BY <2>2, <2>4, <2>6
<1> QED
  BY <1>1, <1>2, <1>3 DEF Answers1

LEMMA Bringing ==
  ASSUME NEW c \in Nat, NEW e \in Nat, NEW t, t = <<Event(e, c)>> \o Ok(c)
  PROVE  t \in Seq(Token) /\ Brings(t, e) /\ StatusLast(t)
<1>1. PICK x \in Token : x = Event(e, c) /\ x.ev = e /\ x.k = "event" /\ x.k \notin Status
  BY DEF Event, Token, Status
<1>2. t \in Seq(Token) /\ Three(t, x, c)
  <2>1. t = <<x>> \o Ok(c)
    BY <1>1, Zenon
  <2>2. <<x>> \o Ok(c) \in Seq(Token) /\ Three(<<x>> \o Ok(c), x, c)
    BY ThreePieces
  <2> QED
    BY <2>1, <2>2, Zenon
<1>3. \A i \in 1..3 : i = 1 \/ i = 2 \/ i = 3
  OBVIOUS
<1>4. Brings(t, e)
  BY <1>1, <1>2, <1>3, Marks DEF Brings, Three
<1>5. t[3].k \notin Status
  BY <1>2, Marks DEF Status, Three
<1>6. StatusLast(t)
  BY <1>1, <1>2, <1>3, <1>5 DEF StatusLast, Three
<1> QED
  BY <1>2, <1>4, <1>6

(* A text command is answered with a line, or with the first event.        *)
Told(c, t) ==
  \/ UNCHANGED <<queue, taken>> /\ Bare(t)
  \/ /\ c = "RETR" /\ queue # <<>> /\ queue' = Tail(queue) /\ taken' = taken \cup {Head(queue)}
     /\ Brings(t, Head(queue))
Served(c, t) ==
  /\ Reads(c) /\ Writes(t) /\ UNCHANGED <<made, client>>
  /\ StatusLast(t) /\ Told(c, t)

LEMMA ServedBy ==
  ASSUME TypeInv, Login \/ Serve
  PROVE  \E c \in Names, t \in Seq(Token) : Served(c, t)
<1>1. \A c : Reads(c) => This \in Nat
  BY Front
<1>2. ASSUME NEW c \in Names, Reads(c), NEW t \in Answers1(This), Writes(t),
             UNCHANGED <<queue, taken, made, client>>
      PROVE  \E d \in Names, s \in Seq(Token) : Served(d, s)
  <2>1. t \in Seq(Token) /\ Bare(t) /\ StatusLast(t)
    BY <1>1, <1>2, Bares
  <2> QED
    BY <1>2, <2>1 DEF Served, Told
<1>3. /\ Ok(This) \in Answers1(This) /\ No(This) \in Answers1(This) /\ <<>> \in Answers1(This)
      /\ \A k \in {"value", "quoted"} : <<Mark(k, This)>> \o Ok(This) \in Answers1(This)
  BY DEF Answers1
<1>4. /\ {"NOOP", "VERS", "SEND", "RETR", "CDTA", "SGID", "SFLT", "SMSK", "BIN1", "RCVLOOP",
          "READVAR", "WRITEVAR", "INTERFACE", "SHUTDOWN", "QUIT", "USER", "PASS"} \subseteq Names
      /\ DOMAIN Needs \subseteq Names
  BY DEF Names, Needs
<1>5. Stays => UNCHANGED <<queue, taken, made>>
  BY DEF Stays
<1>6. CASE Login
  <2>1. PICK c \in {"USER", "PASS"}, t \in {Ok(This), No(This)} :
          Reads(c) /\ Writes(t) /\ UNCHANGED <<queue, taken, made, client>>
    BY <1>6 DEF Login, User, PassGood, PassBad, Unknown, Stays
  <2> QED
    BY <1>2, <1>3, <1>4, <2>1
<1>9. CASE \E c \in DOMAIN Needs : Refused(c)
  BY <1>2, <1>3, <1>4, <1>5, <1>9 DEF Refused
<1>10. CASE DataAvailable \/ GetStatistics \/ GetStatus \/ GetChannelID \/ GetVersion
  <2>1. PICK c \in {"CDTA", "VERS"} : Query(c)
    BY <1>10 DEF DataAvailable, GetStatistics, GetStatus, GetChannelID, GetVersion
  <2> QED
    BY <1>2, <1>3, <1>4, <1>5, <2>1 DEF Query
<1>11. CASE SetChannelGUID \/ SetFilter \/ SetMask \/ WriteVariable
  <2>1. PICK c \in {"SGID", "SFLT", "SMSK", "WRITEVAR"} : Settle(c)
    BY <1>11 DEF SetChannelGUID, SetFilter, SetMask, WriteVariable
  <2> QED
    BY <1>2, <1>3, <1>4, <1>5, <2>1 DEF Settle
<1>12. CASE ReadVariable \/ ListInterfaces
  <2>1. PICK c \in {"READVAR", "INTERFACE"} : Text(c)
    BY <1>12 DEF ReadVariable, ListInterfaces
  <2> QED
    BY <1>2, <1>3, <1>4, <1>5, <2>1 DEF Text
<1>13. CASE Noop \/ Send
  BY <1>2, <1>3, <1>4, <1>5, <1>13 DEF Noop, Send
<1>14. CASE Retrieve
  <2>1. Reads("RETR") /\ UNCHANGED <<made, client>>
    BY <1>14 DEF Retrieve
  <2>2. CASE queue = <<>>
    BY <1>2, <1>3, <1>4, <1>14, <2>1, <2>2 DEF Retrieve
  <2>3. CASE queue # <<>>
    <3>1. Head(queue) \in Nat
      BY <2>3 DEF TypeInv, EventsOK
    <3>2. PICK t : t = <<Event(Head(queue), This)>> \o Ok(This)
      OBVIOUS
    <3>3. t \in Seq(Token) /\ Brings(t, Head(queue)) /\ StatusLast(t)
      BY <1>1, <2>1, <3>1, <3>2, Bringing
    <3>4. Writes(t) /\ queue' = Tail(queue) /\ taken' = taken \cup {Head(queue)}
      BY <1>14, <2>3, <3>2 DEF Retrieve
    <3>5. Served("RETR", t)
      BY <2>1, <2>3, <3>3, <3>4 DEF Served, Told
    <3> QED
      BY <1>4, <3>3, <3>5
  <2> QED
    BY <2>2, <2>3
<1>15. CASE EnterRcvLoop \/ EnterBinary
  <2>1. PICK c \in {"RCVLOOP", "BIN1"} :
          Reads(c) /\ Writes(Ok(This)) /\ UNCHANGED <<queue, made, taken, client>>
    BY <1>15 DEF EnterRcvLoop, EnterBinary
  <2> QED
    BY <1>2, <1>3, <1>4, <2>1
<1>16. CASE Shutdown \/ Quit
  <2>1. PICK c \in {"SHUTDOWN", "QUIT"}, t \in {<<>>, Ok(This)} :
          Reads(c) /\ Writes(t) /\ UNCHANGED <<queue, made, taken, client>>
    <3>1. down \o <<>> = down
      BY ConcatEmptySeq DEF TypeInv, DownOK
    <3> QED
      BY <1>16, <3>1 DEF Shutdown, Quit, Writes
  <2> QED
    BY <1>2, <1>3, <1>4, <2>1
<1> QED
  BY <1>6, <1>9, <1>10, <1>11, <1>12, <1>13, <1>14, <1>15, <1>16 DEF Serve

(* Whatever the session does, its events stay in order.                    *)
LEMMA ServerMoves ==
  ASSUME TypeInv, Server, ~SendFull
  PROVE  /\ UNCHANGED <<made, client>>
         /\ \E t \in Seq(Token) : Rising(t) /\ (Writes(t) \/ UNCHANGED down) /\ Moves(t)
<1>1. ASSUME NEW t \in Seq(Token), Bare(t) PROVE Rising(t) /\ Found(t) = {}
  BY <1>1, NoEvents DEF Bare
<1>2. <<>> \in Seq(Token) /\ Bare(<<>>)
  BY DEF Bare
<1>3. CASE Login \/ Serve
  <2>1. PICK c \in Names, t \in Seq(Token) : Served(c, t)
    BY <1>3, ServedBy
  <2>2. CASE Bare(t) /\ UNCHANGED <<queue, taken>>
    BY <1>1, <2>1, <2>2 DEF Served, Moves
  <2>3. CASE /\ queue # <<>> /\ queue' = Tail(queue) /\ taken' = taken \cup {Head(queue)}
             /\ Brings(t, Head(queue))
    <3>1. \A i \in 1..Len(t) : t[i].k = "event" => i = 1 /\ t[i].ev = Head(queue)
      BY <2>3 DEF Brings
    <3>2. Found(t) \subseteq {Head(queue)} /\ Rising(t)
      BY <3>1, OneEvent
    <3> QED
      BY <2>1, <2>3, <3>2 DEF Served, Moves
  <2> QED
    BY <2>1, <2>2, <2>3 DEF Served, Told
<1>4. CASE LoopIdle
  <2>1. Ok(0) \in Answers1(0) /\ 0 \in Nat
    BY DEF Answers1
  <2>2. Ok(0) \in Seq(Token) /\ Bare(Ok(0))
    BY <2>1, Bares
  <2> QED
    BY <1>1, <1>4, <2>2 DEF LoopIdle, server, Moves
<1>5. CASE LoopEvent
  <2>1. Head(queue) \in Nat
    BY <1>5 DEF LoopEvent, TypeInv, EventsOK
  <2>7. PICK x : x = Event(Head(queue), 0)
    OBVIOUS
  <2>2. x \in Token /\ x = Event(Head(queue), 0) /\ x.ev = Head(queue)
    BY <2>1, <2>7 DEF Event, Token
  <2>3. PICK t : t = <<x>>
    OBVIOUS
  <2>4. t \in Seq(Token) /\ \A i \in 1..Len(t) : i = 1 /\ t[i] = x
    BY <2>2, <2>3
  <2>5. Found(t) \subseteq {Head(queue)} /\ Rising(t)
    BY <2>2, <2>4, OneEvent
  <2>6. t = <<Event(Head(queue), 0)>>
    BY <2>2, <2>3, Zenon
  <2> QED
    BY <1>5, <2>4, <2>5, <2>6 DEF LoopEvent, Moves
<1>6. CASE Frame
  <2>1. PICK S : FirstFrame(S)
    BY <1>6 DEF Frame, FrameNoop, FrameSend, FrameRead, FrameHangs, FrameClose, FrameOther
  <2>2. This \in Nat /\ UNCHANGED client
    <3>1. Head(up) \in Asked
      BY <2>1 DEF FirstFrame, TypeInv, UpOK
    <3> QED
      BY <2>1, <3>1 DEF This, Asked, FirstFrame
  <2>3. \A x \in Token : x.k = "frame" => <<x>> \in Seq(Token) /\ Found(<<x>>) = {} /\ Rising(<<x>>)
    <3> TAKE x \in Token
    <3> HAVE x.k = "frame"
    <3>1. PICK t : t = <<x>>
      OBVIOUS
    <3>2. t \in Seq(Token) /\ \A i \in 1..Len(t) : t[i] = x
      BY <3>1
    <3>3. Found(t) = {} /\ Rising(t)
      BY <3>2, NoEvents
    <3> QED
      BY <3>1, <3>2, <3>3, Zenon
  <2>4. CASE UNCHANGED <<made, queue, taken>> /\ Writes(<<Mark("frame", This)>>)
    BY <2>2, <2>3, <2>4, Marks DEF Moves
  <2>5. CASE /\ queue # <<>> /\ Writes(<<[Mark("frame", This) EXCEPT !.ev = Head(queue)]>>)
             /\ queue' = Tail(queue) /\ taken' = taken \cup {Head(queue)} /\ UNCHANGED made
    <3>1. Head(queue) \in Nat
      BY <2>5 DEF TypeInv, EventsOK
    <3>2. PICK x : x = [Mark("frame", This) EXCEPT !.ev = Head(queue)]
      OBVIOUS
    <3>3. x \in Token /\ x.k = "frame"
      BY <2>2, <3>1, <3>2 DEF Mark, Token
    <3>4. <<x>> \in Seq(Token) /\ Found(<<x>>) = {} /\ Rising(<<x>>)
      BY <2>3, <3>3
    <3>5. Writes(<<x>>)
      BY <2>5, <3>2, Zenon
    <3> QED
      BY <2>2, <2>5, <3>4, <3>5 DEF Moves
  <2>6. CASE UNCHANGED <<made, queue, taken, down>>
    BY <1>1, <1>2, <2>2, <2>6 DEF Moves
  <2> QED
    BY <1>6, <2>4, <2>5, <2>6 DEF Frame, FrameNoop, FrameSend, FrameRead, FrameHangs, FrameClose, FrameOther,
       Stays
<1>7. CASE Notice
  <2>1. UNCHANGED <<made, queue, taken, down, client>>
    BY <1>7 DEF Notice
  <2> QED
    BY <1>1, <1>2, <2>1 DEF Moves
<1> QED
  BY <1>3, <1>4, <1>5, <1>6, <1>7 DEF Server

LEMMA ServerHolds ==
  ASSUME Holding, UNCHANGED client
  PROVE  Holding'
BY DEF Holding, client

(* The two status lines of a SEND carry no event.                          *)
LEMMA FullOrder == ASSUME TypeInv, Order, Holding, SendFull PROVE Order' /\ Holding' /\ faults' # {}
<1>1. /\ Reads("SEND") /\ Writes(No(This) \o Ok(This)) /\ faults' # {}
      /\ UNCHANGED <<queue, made, taken, open, inLoop, call, reply, buffer, got>>
  BY DEF SendFull, Stays
<1>2. This \in Nat
  BY <1>1, Front
<1>3. PICK p : p = No(This)
  OBVIOUS
<1>4. PICK q : q = Ok(This)
  OBVIOUS
<1>5. p \in Seq(Token) /\ Bare(p) /\ q \in Seq(Token) /\ Bare(q)
  BY <1>2, <1>3, <1>4, Bares DEF Answers1
<1>6. Found(p) = {} /\ Rising(p) /\ Found(q) = {} /\ Rising(q)
  BY <1>5, NoEvents DEF Bare
<1>7. PICK t : t = p \o q
  OBVIOUS
<1>8. t \in Seq(Token) /\ Joined(p, q, t)
  BY <1>5, <1>7, JoinedByConcat
<1>9. Found(t) \subseteq Found(p) \cup Found(q) /\ Rising(t)
  BY <1>5, <1>6, <1>8, JoinedEvents DEF Before
<1>10. Writes(t) /\ Moves(t)
  BY <1>1, <1>3, <1>4, <1>6, <1>7, <1>9 DEF Moves
<1>11. Order'
  BY <1>1, <1>8, <1>9, <1>10, ServerOrder
<1>12. Holding'
  BY <1>1 DEF Holding
<1> QED
  BY <1>1, <1>11, <1>12

-----------------------------------------------------------------------------
(* Only doCmdReceive asks for an event, and not in the receive loop.       *)
LEMMA ReceiveGuarded ==
  ASSUME NEW m \in Calls, m.cmds = doCmdReceive.cmds
  PROVE  m.guarded
BY DEF Calls, Method, doCmdNOOP,
       doCmdSend, doCmdSendEx, doCmdSendLevel1, doCmdReceive,
       doCmdReceiveEx, doCmdReceiveLevel1, doCmdEnterReceiveLoop,
       doCmdDataAvailable, doCmdStatus, doCmdStatistics, doCmdVersion,
       doCmdFilter, doCmdGetGUID, doCmdSetGUID, doCmdGetChannelInfo,
       doCmdGetChannelID, doCmdInterfaceList, doCmdShutDown, doCmdBinary,
       getVariable, getVariableString, getVariableBool, getVariableInt,
       getVariableLong, getVariableDouble, getVariableMeasurement,
       getVariableEvent, getVariableEventEx, getVariableGUID,
       getVariableVSCPdata, getVariableVSCPclass, getVariableVSCPtype,
       setVariable, setVariableString, setVariableBool, setVariableInt,
       setVariableLong, setVariableDouble, setVariableMeasurement,
       setVariableEvent, setVariableEventEx, setVariableGUID,
       setVariableVSCPdata, setVariableVSCPclass, setVariableVSCPtype

LEMMA ReceiveAlone ==
  /\ doCmdReceive.cmds = <<"RETR">> /\ Len(doCmdReceive.cmds) = 1
  /\ idle.cmds # doCmdReceive.cmds /\ doCmdOpen.cmds # doCmdReceive.cmds
  /\ doCmdClose.cmds # doCmdReceive.cmds
  /\ \A l \in Lists : \A i \in 1..Len(l) : l[i] = "RETR" => l = doCmdReceive.cmds /\ i = 1
<1>1. /\ doCmdReceive.cmds = <<"RETR">> /\ idle.cmds = <<>>
      /\ doCmdOpen.cmds = <<"USER", "PASS">> /\ doCmdClose.cmds = <<"QUIT">>
  BY DEF doCmdReceive, doCmdOpen, doCmdClose, Method, idle
<1>2. ASSUME NEW l \in Shown, NEW i \in 1..Len(l), l[i] = "RETR" PROVE l = <<"RETR">> /\ i = 1
  <2>1. l = <<"RETR">>
    BY <1>2 DEF Shown
  <2>2. Len(l) = 1
    BY <2>1
  <2> QED
    BY <2>1, <2>2
<1> QED
  BY <1>1, <1>2, ListsShown

(* What one read may lead to: more of the same answer to wait for, the     *)
(* next command of the call, its end, or that it fails.                    *)
Goes == UNCHANGED <<up, open, inLoop, call, got, n, faults>>
Fails(late, r) == (late \/ Answers(r) = {}) /\ call' = idle /\ UNCHANGED <<up, n, inLoop, got>>
Ends(late, r) == /\ ~late /\ Answers(r) # {} /\ ~(call.at < Len(call.cmds))
                 /\ EndCall(r) /\ UNCHANGED <<up, n>>
Asks(late, r) == /\ ~late /\ Answers(r) # {} /\ call.at < Len(call.cmds)
                 /\ Ask(call.cmds, call.at + 1, call.who, r) /\ UNCHANGED <<open, inLoop, got>>

LEMMA ReadCases ==
  ASSUME NEW k \in 1..Len(down), Read(k), NEW r, r = Pieces(k)
  PROVE  /\ call # idle /\ UNCHANGED <<server, buffer>> /\ down' = SubSeq(down, k + 1, Len(down))
         /\ \/ Answers(r) = {} /\ Denials(r) = {} /\ reply' = r /\ Goes
            \/ /\ Answers(r) # {} \/ Denials(r) # {}
               /\ reply' = <<>>
               /\ \E late \in BOOLEAN : /\ faults' = faults \cup Faults(r, late)
                                        /\ Fails(late, r) \/ Ends(late, r) \/ Asks(late, r)
<1>1. call # idle /\ UNCHANGED <<server, buffer>> /\ down' = SubSeq(down, k + 1, Len(down))
  BY DEF Read
<1>2. CASE Answers(r) = {} /\ Denials(r) = {}
  BY <1>1, <1>2 DEF Read, Goes
<1>3. CASE Answers(r) # {} \/ Denials(r) # {}
  <2> DEFINE status == IF Answers(r) # {} THEN Answers(r) ELSE Denials(r)
  <2>1. status # {}
    BY <1>3
  <2>2. PICK late \in BOOLEAN :
          /\ faults' = faults \cup Faults(r, late)
          /\ IF ~late /\ Answers(r) # {} /\ call.at < Len(call.cmds)
             THEN /\ Ask(call.cmds, call.at + 1, call.who, r)
                  /\ UNCHANGED <<open, inLoop, got>>
             ELSE /\ reply' = <<>>
                  /\ UNCHANGED <<up, n>>
                  /\ IF ~late /\ Answers(r) # {} THEN EndCall(r)
                     ELSE /\ call' = idle
                          /\ open' = (call.cmds # doCmdClose.cmds)
                          /\ UNCHANGED <<inLoop, got>>
    BY <2>1 DEF Read
  <2>3. reply' = <<>>
    BY <2>2 DEF Ask
  <2>4. Fails(late, r) \/ Ends(late, r) \/ Asks(late, r)
    BY <2>2 DEF Fails, Ends, Asks
  <2> QED
    BY <1>1, <1>3, <2>2, <2>3, <2>4
<1> QED
  BY <1>2, <1>3

(* What a call that is under way is.                                       *)
LEMMA CallHolds ==
  ASSUME TypeInv, Holding, Client PROVE Holding'
<1>1. CASE Connect
  <2>1. call'.cmds = doCmdOpen.cmds /\ open' = TRUE /\ reply' = <<>> /\ UNCHANGED <<inLoop, buffer>>
    BY <1>1 DEF Connect
  <2> QED
    BY <2>1, ReceiveAlone DEF Holding
<1>2. CASE Close
  <2>1. /\ call'.cmds = doCmdClose.cmds /\ open /\ reply' = <<>>
        /\ UNCHANGED <<open, inLoop, buffer>>
    BY <1>2 DEF Close, Ask
  <2> QED
    BY <2>1, ReceiveAlone DEF Holding
<1>3. ASSUME NEW m \in Calls, Begin(m) PROVE Holding'
  <2>1. /\ call'.cmds = m.cmds /\ open /\ reply' = <<>> /\ (inLoop => ~m.guarded)
        /\ UNCHANGED <<open, inLoop, buffer>>
    BY <1>3 DEF Begin, Ask
  <2> QED
    BY <2>1, ReceiveGuarded DEF Holding
<1>4. CASE GiveUp
  BY <1>4, ReceiveAlone DEF GiveUp, Holding
<1>5. ASSUME NEW k \in 1..Len(down), Read(k) PROVE Holding'
  <2>1. call # idle /\ UNCHANGED buffer
    BY <1>5 DEF Read
  <2>2. CASE UNCHANGED <<open, inLoop, call>>
    BY <2>1, <2>2 DEF Holding
  <2>3. CASE reply' = <<>> /\ call' = idle /\ (inLoop => inLoop')
    BY <2>1, <2>3, ReceiveAlone DEF Holding
  <2>4. CASE reply' = <<>> /\ call'.cmds = call.cmds /\ UNCHANGED <<open, inLoop>>
    BY <2>1, <2>4 DEF Holding
  <2>5. PICK r : r = Pieces(k)
    OBVIOUS
  <2>6. \/ Goes
        \/ reply' = <<>> /\ \E late \in BOOLEAN : Fails(late, r) \/ Ends(late, r) \/ Asks(late, r)
    BY <1>5, <2>5, ReadCases
  <2>7. ASSUME NEW late \in BOOLEAN, Asks(late, r) PROVE call'.cmds = call.cmds /\ UNCHANGED <<open, inLoop>>
    BY <2>7 DEF Asks, Ask
  <2>8. ASSUME NEW late \in BOOLEAN, Fails(late, r) \/ Ends(late, r)
        PROVE  call' = idle /\ (inLoop => inLoop')
    <3>1. CASE Fails(late, r)
      BY <3>1 DEF Fails
    <3>2. CASE Ends(late, r)
      BY <3>2, Zenon DEF Ends, EndCall
    <3> QED
      BY <2>8, <3>1, <3>2
  <2>9. Goes => UNCHANGED <<open, inLoop, call>>
    BY DEF Goes
  <2> QED
    BY <2>2, <2>3, <2>4, <2>6, <2>7, <2>8, <2>9
<1>6. ASSUME NEW k \in 1..Len(down), BlockReceive(k) PROVE Holding'
  BY <1>6 DEF BlockReceive, Holding
<1>7. ASSUME NEW f, BinaryCall(f) PROVE Holding'
  BY <1>7 DEF BinaryCall, Holding
<1>8. CASE \/ doBinaryNOOP \/ doBinarySend \/ doBinarySendEx
           \/ doBinaryReceive \/ doBinaryReceiveEx \/ doBinaryClose
  BY <1>7, <1>8 DEF doBinaryNOOP, doBinarySend, doBinarySendEx, doBinaryReceive,
                    doBinaryReceiveEx, doBinaryClose
<1> QED
  BY <1>1, <1>2, <1>3, <1>4, <1>5, <1>6, <1>8 DEF Client, Wait

-----------------------------------------------------------------------------
(* The first k pieces in the socket are read, behind what came before.     *)
Apart(s, k, pre, r) ==
  /\ pre \in Seq(Token) /\ down' \in Seq(Token) /\ Joined(pre, down', down)
  /\ r \in Seq(Token) /\ Joined(s, pre, r)

LEMMA ApartByRead ==
  ASSUME TypeInv, NEW s \in Seq(Token), NEW k \in 1..Len(down),
         down' = SubSeq(down, k + 1, Len(down)),
         NEW r, r = s \o SubSeq(down, 1, k)
  PROVE  \E pre : Apart(s, k, pre, r)
<1>1. PICK pre : pre = SubSeq(down, 1, k)
  OBVIOUS
<1>2. down \in Seq(Token) /\ k \in 0..Len(down)
  BY DEF TypeInv, DownOK
<1>3. pre \in Seq(Token) /\ down' \in Seq(Token) /\ Joined(pre, down', down)
  <2>1. Cut(SubSeq(down, 1, k), k, SubSeq(down, k + 1, Len(down)), down)
    BY <1>2, JoinedByCut
  <2> QED
    BY <1>1, <2>1, Zenon DEF Cut
<1>4. r = s \o pre
  BY <1>1, Zenon
<1>5. r \in Seq(Token) /\ Joined(s, pre, r)
  BY <1>3, <1>4, JoinedByConcat
<1> QED
  BY <1>3, <1>5 DEF Apart

LEMMA ApartEvents ==
  ASSUME TypeInv, NEW s \in Seq(Token), NEW k, NEW pre, NEW r, Apart(s, k, pre, r),
         Rising(s), Rising(down), Before(Found(s), Found(down))
  PROVE  /\ Found(r) \subseteq Found(s) \cup Found(down) /\ Rising(r)
         /\ Found(down') \subseteq Found(down) /\ Rising(down')
         /\ Before(Found(r), Found(down'))
<1>1. /\ pre \in Seq(Token) /\ down' \in Seq(Token) /\ down \in Seq(Token) /\ r \in Seq(Token)
      /\ Joined(pre, down', down) /\ Joined(s, pre, r)
  BY DEF Apart, TypeInv, DownOK
<1>2. /\ Found(down) = Found(pre) \cup Found(down') /\ Rising(pre) /\ Rising(down')
      /\ Before(Found(pre), Found(down'))
  BY <1>1, JoinedEvents
<1>3. Before(Found(s), Found(pre)) /\ Before(Found(s), Found(down'))
  BY <1>2 DEF Before
<1>4. Found(r) = Found(s) \cup Found(pre) /\ Rising(r)
  BY <1>1, <1>2, <1>3, JoinedEvents
<1>5. Before(Found(r), Found(down'))
  BY <1>2, <1>3, <1>4 DEF Before
<1> QED
  BY <1>2, <1>4, <1>5

LEMMA ReadOrder ==
  ASSUME TypeInv, Order, Holding, NEW k \in 1..Len(down), Read(k)
  PROVE  Order'
<1>1. PICK r : r = Pieces(k)
  OBVIOUS
<1>2. /\ call # idle /\ UNCHANGED <<server, buffer>> /\ down' = SubSeq(down, k + 1, Len(down))
      /\ \/ reply' = r /\ Goes
         \/ /\ Answers(r) # {} \/ Denials(r) # {}
            /\ reply' = <<>>
            /\ \E late \in BOOLEAN : Fails(late, r) \/ Ends(late, r) \/ Asks(late, r)
  BY <1>1, ReadCases
<1>3. UNCHANGED <<queue, made, taken, buffer>>
  BY <1>2 DEF server
<1>4. reply \in Seq(Token) /\ got \in Seq(Nat)
  BY DEF TypeInv, HeldOK, GotOK
<1>5. PICK pre : Apart(reply, k, pre, r)
  BY <1>1, <1>2, <1>4, ApartByRead DEF Pieces
<1>6. r \in Seq(Token)
  BY <1>5 DEF Apart
<1>7. /\ Found(r) \subseteq Found(reply) \cup Found(down) /\ Rising(r)
      /\ Found(down') \subseteq Found(down) /\ Rising(down')
      /\ Before(Found(r), Found(down'))
  BY <1>4, <1>5, ApartEvents DEF Order
<1>8. CASE reply' = r /\ Goes
  <2>1. UNCHANGED got
    BY <1>8 DEF Goes
  <2>2. /\ Before(Listed(got), Found(r)) /\ Before(Found(buffer), Found(r))
        /\ Before(Found(r), Listed(queue)) /\ Found(r) \subseteq 1..made
    BY <1>7 DEF Order, Before
  <2>3. /\ Before(Listed(got), Found(down')) /\ Before(Found(buffer), Found(down'))
        /\ Before(Found(down'), Listed(queue)) /\ Found(down') \subseteq 1..made
    BY <1>7 DEF Order, Before
  <2> QED
    BY <1>3, <1>7, <1>8, <2>1, <2>2, <2>3 DEF Order
<1>9. CASE reply' = <<>> /\ UNCHANGED got
  <2>1. Found(reply') = {} /\ Rising(reply')
    BY <1>9, Nothing
  <2> QED
    BY <1>3, <1>7, <1>9, <2>1, OrderLess DEF Order
<1>10. ASSUME NEW late \in BOOLEAN, Ends(late, r), reply' = <<>>, ~UNCHANGED got PROVE Order'
  <2>1. /\ call.cmds = doCmdReceive.cmds /\ r[1].k = "event" /\ got' = Append(got, r[1].ev)
    BY <1>10 DEF Ends, EndCall, Received
  <2>2. 1 \in 1..Len(r)
    <3>1. \E i \in 1..Len(r) : r[i].k \in {"ok", "quoted"}
      BY <1>10 DEF Ends, Answers, Places
    <3> QED
      BY <1>6, <3>1
  <2>3. PICK e : e = r[1].ev
    OBVIOUS
  <2>4. e \in Nat /\ e \in Found(r)
    <3>1. r[1] \in Token
      BY <1>6, <2>2
    <3> QED
      BY <2>1, <2>2, <2>3, <3>1 DEF Token, Found, Places
  <2>5. Before(Listed(got), {e})
    BY <1>7, <2>4 DEF Order, Before
  <2>6. Climbs(got') /\ Listed(got') = Listed(got) \cup {e}
    BY <1>4, <2>1, <2>3, <2>4, <2>5, OneMore DEF Order
  <2>7. Found(reply') = {} /\ Rising(reply') /\ Found(buffer) = {}
    BY <1>10, <2>1, Nothing DEF Holding
  <2>8. Before(Listed(got'), Found(down')) /\ Before(Listed(got'), Listed(queue))
    BY <1>7, <2>4, <2>6 DEF Order, Before
  <2>9. Listed(got') \subseteq 1..made /\ Found(down') \subseteq 1..made /\ Before(Found(down'), Listed(queue))
    BY <1>7, <2>4, <2>6 DEF Order, Before
  <2>10. /\ Before(Listed(got'), Found(buffer)) /\ Before(Listed(got'), Found(reply'))
         /\ Before(Found(buffer), Found(reply')) /\ Before(Found(buffer), Found(down'))
         /\ Before(Found(buffer), Listed(queue)) /\ Before(Found(reply'), Found(down'))
         /\ Before(Found(reply'), Listed(queue)) /\ Found(buffer) \subseteq 1..made
         /\ Found(reply') \subseteq 1..made
    BY <2>7 DEF Before
  <2>11. Rising(buffer) /\ Climbs(queue) /\ taken \subseteq 1..made /\ Listed(queue) \subseteq 1..made
    BY DEF Order
  <2> QED
    BY <1>3, <1>7, <2>6, <2>7, <2>8, <2>9, <2>10, <2>11 DEF Order
<1>11. ASSUME NEW late \in BOOLEAN, Fails(late, r) \/ Asks(late, r) PROVE UNCHANGED got
  BY <1>11 DEF Fails, Asks
<1> QED
  BY <1>2, <1>8, <1>9, <1>10, <1>11

LEMMA BlockOrder ==
  ASSUME TypeInv, Order, Holding, NEW k \in 1..Len(down), BlockReceive(k)
  PROVE  Order'
<1>1. PICK b : b = buffer \o SubSeq(down, 1, k)
  OBVIOUS
<1>2. /\ call = idle /\ UNCHANGED <<server, reply>> /\ down' = SubSeq(down, k + 1, Len(down))
      /\ \/ Places(b, {"event"}) = {} /\ buffer' = Rest(b) /\ UNCHANGED got
         \/ \E i \in Firsts(Places(b, {"event"})) :
              got' = Append(got, b[i].ev) /\ buffer' = SubSeq(b, i + 1, Len(b))
  BY <1>1 DEF BlockReceive
<1>3. UNCHANGED <<queue, made, taken, reply>> /\ reply = <<>>
  BY <1>2 DEF server, Holding
<1>4. buffer \in Seq(Token) /\ got \in Seq(Nat)
  BY DEF TypeInv, HeldOK, GotOK
<1>5. PICK pre : Apart(buffer, k, pre, b)
  BY <1>1, <1>2, <1>4, ApartByRead
<1>6. b \in Seq(Token)
  BY <1>5 DEF Apart
<1>7. /\ Found(b) \subseteq Found(buffer) \cup Found(down) /\ Rising(b)
      /\ Found(down') \subseteq Found(down) /\ Rising(down')
      /\ Before(Found(b), Found(down'))
  BY <1>4, <1>5, ApartEvents DEF Order
<1>8. CASE Places(b, {"event"}) = {} /\ buffer' = Rest(b) /\ UNCHANGED got
  <2>1. \A i \in 1..Len(Rest(b)) : Rest(b)[i].k # "event"
    BY DEF Rest
  <2>2. Found(buffer') = {} /\ Rising(buffer')
    BY <1>8, <2>1, NoEvents
  <2> QED
    BY <1>3, <1>7, <1>8, <2>2, OrderLess DEF Order
<1>9. ASSUME NEW i \in Firsts(Places(b, {"event"})), got' = Append(got, b[i].ev),
             buffer' = SubSeq(b, i + 1, Len(b))
      PROVE  Order'
  <2>1. i \in 0..Len(b) /\ i \in 1..Len(b) /\ b[i].k = "event"
    BY DEF Firsts, Places
  <2>2. PICK p : p = SubSeq(b, 1, i)
    OBVIOUS
  <2>3. /\ p \in Seq(Token) /\ buffer' \in Seq(Token) /\ Len(p) = i /\ Joined(p, buffer', b)
    <3>1. Cut(SubSeq(b, 1, i), i, SubSeq(b, i + 1, Len(b)), b)
      BY <1>6, <2>1, JoinedByCut
    <3> QED
      BY <1>9, <2>2, <3>1, Zenon DEF Cut
  <2>4. PICK e : e = b[i].ev
    OBVIOUS
  <2>5. e \in Nat /\ e \in Found(b) /\ e \in Found(p)
    <3>1. i \in 1..Len(p) /\ p[i] = b[i]
      BY <2>1, <2>3 DEF Joined
    <3>2. b[i] \in Token
      BY <1>6, <2>1
    <3> QED
      BY <2>1, <2>4, <3>1, <3>2 DEF Token, Found, Places
  <2>6. /\ Found(b) = Found(p) \cup Found(buffer') /\ Rising(buffer')
        /\ Before(Found(p), Found(buffer'))
    BY <1>6, <1>7, <2>3, JoinedEvents
  <2>7. Before(Listed(got), {e})
    BY <1>7, <2>5 DEF Order, Before
  <2>8. Climbs(got') /\ Listed(got') = Listed(got) \cup {e}
    BY <1>4, <1>9, <2>4, <2>5, <2>7, OneMore DEF Order
  <2>9. /\ Before(Listed(got'), Found(buffer')) /\ Before(Listed(got'), Found(down'))
        /\ Before(Listed(got'), Listed(queue))
    BY <1>7, <2>5, <2>6, <2>8 DEF Order, Before
  <2>10. /\ Before(Found(buffer'), Found(down')) /\ Before(Found(buffer'), Listed(queue))
         /\ Before(Found(down'), Listed(queue))
    BY <1>7, <2>6 DEF Order, Before
  <2>11. /\ Listed(got') \subseteq 1..made /\ Found(buffer') \subseteq 1..made
         /\ Found(down') \subseteq 1..made
    BY <1>7, <2>5, <2>6, <2>8 DEF Order
  <2>12. Found(reply) = {} /\ Rising(reply)
    BY <1>3, Nothing
  <2>13. /\ Before(Listed(got'), Found(reply)) /\ Before(Found(buffer'), Found(reply))
         /\ Before(Found(reply), Found(down')) /\ Before(Found(reply), Listed(queue))
         /\ Found(reply) \subseteq 1..made
    BY <2>12 DEF Before
  <2>14. Climbs(queue) /\ taken \subseteq 1..made /\ Listed(queue) \subseteq 1..made
    BY DEF Order
  <2> QED
    BY <1>3, <1>7, <2>6, <2>8, <2>9, <2>10, <2>11, <2>12, <2>13, <2>14 DEF Order
<1> QED
  BY <1>2, <1>8, <1>9

LEMMA ClientOrder == ASSUME TypeInv, Order, Holding, Client PROVE Order'
<1>1. down \in Seq(Token)
  BY DEF TypeInv, DownOK
<1>2. CASE Connect
  <2>1. n + 1 \in Nat
    BY DEF TypeInv, GotOK
  <2>2. down' \in Answers1(n + 1)
    BY <1>2 DEF Connect, Answers1
  <2>3. Found(down') = {} /\ Rising(down')
    BY <2>1, <2>2, Bares, NoEvents DEF Bare
  <2>4. /\ UNCHANGED <<got, made, buffer>> /\ queue' = <<>> /\ reply' = <<>> /\ taken' = {}
    BY <1>2 DEF Connect
  <2> QED
    BY <2>3, <2>4, Nothing, OrderLess DEF Order
<1>3. ASSUME UNCHANGED <<queue, taken, down, buffer, got, made>>, reply' = <<>> PROVE Order'
  BY <1>3, Nothing, OrderLess DEF Order
<1>4. CASE Close \/ (\E m \in Calls : Begin(m)) \/ GiveUp
  BY <1>3, <1>4 DEF Close, Begin, GiveUp, Ask, server
<1>5. ASSUME NEW f, BinaryCall(f) PROVE Order'
  <2>1. UNCHANGED <<queue, taken, reply, buffer, got, made>>
    BY <1>5 DEF BinaryCall, server
  <2>2. CASE down # <<>> /\ down' = Tail(down)
    <3>1. Len(down) \in Nat /\ 1 \in 0..Len(down) /\ down' = SubSeq(down, 1 + 1, Len(down))
      BY <1>1, <2>2, TailIsSubSeq
    <3>2. PICK p : p = SubSeq(down, 1, 1)
      OBVIOUS
    <3>3. p \in Seq(Token) /\ down' \in Seq(Token) /\ Joined(p, down', down)
      <4>1. Cut(SubSeq(down, 1, 1), 1, SubSeq(down, 1 + 1, Len(down)), down)
        BY <1>1, <3>1, JoinedByCut
      <4> QED
        BY <3>1, <3>2, <4>1, Zenon DEF Cut
    <3>4. Found(down') \subseteq Found(down) /\ Rising(down')
      BY <1>1, <3>3, JoinedEvents DEF Order
    <3> QED
      BY <2>1, <3>4, OrderLess DEF Order
  <2>3. CASE down' = down
    BY <2>1, <2>3, OrderLess DEF Order
  <2> QED
    BY <1>5, <2>2, <2>3 DEF BinaryCall
<1>6. CASE \/ doBinaryNOOP \/ doBinarySend \/ doBinarySendEx
           \/ doBinaryReceive \/ doBinaryReceiveEx \/ doBinaryClose
  BY <1>5, <1>6 DEF doBinaryNOOP, doBinarySend, doBinarySendEx, doBinaryReceive,
                    doBinaryReceiveEx, doBinaryClose
<1>7. CASE \E k \in 1..Len(down) : Read(k)
  BY <1>7, ReadOrder
<1>8. CASE \E k \in 1..Len(down) : BlockReceive(k)
  BY <1>8, BlockOrder
<1> QED
  BY <1>2, <1>4, <1>6, <1>7, <1>8 DEF Client, Wait

-----------------------------------------------------------------------------
(* As long as every answer came whole and in time, what is in the reply    *)
(* and the socket is one answer to the command of this call, and empty     *)
(* before it; and every event that was taken is there or with the caller.  *)
Fetches == call.cmds = doCmdReceive.cmds /\ call.at = 1
Line(s) ==
  /\ StatusLast(s)
  /\ \A i \in 1..Len(s) : s[i].ev # 0 =>
       i = 1 /\ s[i].k = "event" /\ Fetches /\ \E j \in 1..Len(s) : s[j].k = "ok"
Still == reply = <<>> /\ down = <<>>

UpKept == \A i \in 1..Len(up) : up[i].c \in Names /\ (up[i].c = "RETR" => Fetches)
LineKept == ~Loops => /\ \E s \in Seq(Token) : Joined(reply, down, s) /\ Line(s)
                      /\ call = idle \/ Commands # {} => Still
EventsKept == \A e \in taken : e \in Carried(down) \cup Carried(reply) \cup Listed(got)
Kept == UpKept /\ LineKept /\ EventsKept
Whole == faults = {} => Kept

LEMMA KeptSame ==
  ASSUME Kept, UNCHANGED <<up, down, taken, client>>
  PROVE  Kept'
<1>1. /\ UNCHANGED <<up, down, taken, call, reply, got>>
      /\ Fetches' = Fetches /\ Loops' = Loops /\ Commands' = Commands
  BY DEF client, Fetches, Loops, Commands
<1>2. \A s : Line(s)' = Line(s)
  BY <1>1 DEF Line
<1>3. Still' = Still
  BY <1>1 DEF Still
<1> QED
  BY <1>1, <1>2, <1>3 DEF Kept, UpKept, LineKept, EventsKept

(* Nothing before and nothing behind.                                      *)
LEMMA JoinedNothing ==
  ASSUME NEW t \in Seq(Token)
  PROVE  Joined(<<>>, t, t)
BY DEF Joined

LEMMA EmptyUp ==
  ASSUME TypeInv, UpKept, Commands = {}
  PROVE  up = <<>>
<1>1. up \in Seq(Asked) /\ Len(up) \in Nat
  BY DEF TypeInv, UpOK
<1>2. ~(1 \in 1..Len(up))
  BY DEF UpKept, Commands
<1> QED
  BY <1>1, <1>2, EmptySeq

(* The session answers the one command that is on its way.                 *)
LEMMA ServedKept ==
  ASSUME TypeInv, AnswerInv, Holding, faults = {}, Kept,
         NEW c \in Names, NEW t \in Seq(Token), Served(c, t)
  PROVE  Kept'
<1>1. /\ up \in Seq(Asked) /\ Len(up) \in Nat /\ up # <<>> /\ up[1].c = c /\ up' = Tail(up)
      /\ Len(up) >= 1
  BY EmptySeq DEF Served, Reads, TypeInv, UpOK
<1>2. OneExchange
  BY DEF AnswerInv, Trouble
<1>3. 1 \in Commands /\ Len(up) \in Commands /\ Commands # {}
  BY <1>1 DEF Commands, Kept, UpKept
<1>4. Len(up) = 1 /\ call # idle
  BY <1>2, <1>3 DEF OneExchange, OneCommand
<1>5. up' = <<>>
  <2>1. up' \in Seq(Asked) /\ Len(up') = Len(up) - 1
    BY <1>1, HeadTailProperties
  <2> QED
    BY <1>4, <2>1, EmptySeq
<1>6. down' = down \o t
  BY <1>4 DEF Holding, Served, Writes
<1>7. /\ UNCHANGED <<call, reply, got>> /\ Fetches' = Fetches /\ Loops' = Loops
  BY DEF Served, client, Fetches, Loops
<1>8. Commands' = {} /\ UpKept'
  BY <1>5 DEF Commands, UpKept
<1>9. down \in Seq(Token) /\ reply \in Seq(Token)
  BY DEF TypeInv, DownOK, HeldOK
<1>10. LineKept'
  <2> SUFFICES ASSUME ~Loops PROVE \E s \in Seq(Token) : Joined(reply', down', s) /\ Line(s)'
    BY <1>4, <1>7, <1>8 DEF LineKept
  <2>1. reply = <<>> /\ down = <<>>
    BY <1>3 DEF Kept, LineKept, Still
  <2>2. down' = t
    BY <1>6, <2>1
  <2>3. Joined(reply', down', t)
    BY <1>7, <2>1, <2>2, JoinedNothing
  <2>4. c = "RETR" => Fetches
    BY <1>1 DEF Kept, UpKept
  <2>5. Line(t)'
    <3>1. CASE Bare(t)
      BY <3>1 DEF Served, Line, Bare
    <3>2. CASE c = "RETR" /\ Brings(t, Head(queue))
      BY <1>7, <2>4, <3>2 DEF Served, Line, Brings
    <3> QED
      BY <3>1, <3>2 DEF Served, Told
  <2> QED
    BY <2>3, <2>5
<1>11. EventsKept'
  <2>1. Carried(down') = Carried(down) \cup Carried(t)
    <3>1. down' \in Seq(Token) /\ Joined(down, t, down')
      BY <1>6, <1>9, JoinedByConcat
    <3> QED
      BY <1>9, <3>1, JoinedEvents
  <2>2. taken' = taken \/ (taken' = taken \cup {Head(queue)} /\ Head(queue) \in Carried(t))
    <3>1. CASE Brings(t, Head(queue))
      <4>1. 1 \in 1..Len(t) /\ t[1].ev = Head(queue)
        BY <3>1 DEF Brings
      <4>2. Head(queue) \in Carried(t)
        BY <4>1 DEF Carried
      <4> QED
        BY <4>2 DEF Served, Told
    <3> QED
      BY <3>1 DEF Served, Told
  <2> QED
    BY <1>7, <2>1, <2>2 DEF Kept, EventsKept
<1> QED
  BY <1>8, <1>10, <1>11 DEF Kept

(* In the receive loop everything goes to the one who asked for it.        *)
LEMMA LoopKept ==
  ASSUME TypeInv, AnswerInv, Holding, faults = {}, Kept, LoopEvent \/ LoopIdle
  PROVE  Kept'
<1>1. mode = "loop" /\ UNCHANGED <<up, client>>
  BY DEF LoopEvent, LoopIdle
<1>2. Loops
  BY <1>1 DEF AnswerInv, Trouble, OneExchange
<1>3. open
  BY <1>2 DEF Holding, Loops, idle, doCmdEnterReceiveLoop, Method
<1>4. UNCHANGED <<call, reply, got>> /\ Fetches' = Fetches /\ Loops'
  BY <1>1, <1>2 DEF client, Fetches, Loops
<1>5. UpKept' /\ LineKept'
  BY <1>1, <1>4 DEF Kept, UpKept, LineKept
<1>6. down \in Seq(Token)
  BY DEF TypeInv, DownOK
<1>7. ASSUME NEW t \in Seq(Token), Writes(t) PROVE Carried(down') = Carried(down) \cup Carried(t)
  <2>1. down' = down \o t
    BY <1>3, <1>7 DEF Writes
  <2>2. down' \in Seq(Token) /\ Joined(down, t, down')
    BY <1>6, <2>1, JoinedByConcat
  <2> QED
    BY <1>6, <2>2, JoinedEvents
<1>8. CASE LoopIdle
  <2>1. Ok(0) \in Seq(Token)
    BY Shapes DEF Answers1
  <2>2. Writes(Ok(0)) /\ taken' = taken
    BY <1>8 DEF LoopIdle, server
  <2> QED
    BY <1>4, <1>5, <1>7, <2>1, <2>2 DEF Kept, EventsKept
<1>9. CASE LoopEvent
  <2>1. Head(queue) \in Nat
    BY <1>9 DEF LoopEvent, TypeInv, EventsOK
  <2>2. PICK x : x = Event(Head(queue), 0)
    OBVIOUS
  <2>3. x \in Token /\ x.ev = Head(queue)
    BY <2>1, <2>2 DEF Event, Token
  <2>4. <<x>> \in Seq(Token) /\ Head(queue) \in Carried(<<x>>)
    <3>1. Len(<<x>>) = 1 /\ <<x>>[1] = x /\ 1 \in 1..1
      OBVIOUS
    <3> QED
      BY <2>3, <3>1 DEF Carried
  <2>5. Writes(<<x>>) /\ taken' = taken \cup {Head(queue)}
    BY <1>9, <2>2, Zenon DEF LoopEvent
  <2> QED
    BY <1>4, <1>5, <1>7, <2>4, <2>5 DEF Kept, EventsKept
<1> QED
  BY <1>8, <1>9

(* There are no frames: the binary mode is one of the faults.              *)
LEMMA FrameKept ==
  ASSUME TypeInv, AnswerInv, faults = {}, Kept, Frame
  PROVE  Kept'
<1>1. PICK S : FirstFrame(S) /\ (S \subseteq Frames \/ (S = Names /\ UNCHANGED <<taken, down>>))
  BY DEF Frame, FrameNoop, FrameSend, FrameRead, FrameHangs, FrameClose, FrameOther, Frames, Stays
<1>2. up \in Seq(Asked) /\ Len(up) \in Nat /\ up # <<>> /\ Head(up) = up[1] /\ 1 \in 1..Len(up)
  BY <1>1, EmptySeq DEF FirstFrame, TypeInv, UpOK
<1>3. up[1].c \in Names
  BY <1>2 DEF Kept, UpKept
<1>4. UNCHANGED <<taken, down>>
  BY <1>1, <1>2, <1>3, FramesApart DEF FirstFrame
<1>5. PICK k \in 1..Len(up) : up' = SubSeq(up, k + 1, Len(up))
  BY <1>1 DEF FirstFrame
<1>6. UNCHANGED client
  BY <1>1 DEF FirstFrame
<1>7. Commands = {} => Commands' = {}
  BY <1>5, <1>6, UpTaken DEF client
<1>8. \A i \in 1..Len(up') : \E j \in 1..Len(up) : up'[i] = up[j]
  <2>1. \A i \in (k + 1)..Len(up) : up[i] \in Asked
    BY <1>2
  <2>2. /\ Len(up') = Len(up) - k
        /\ \A i \in 1..(Len(up) - k) : up'[i] = up[k + i]
    BY <1>2, <1>5, <2>1, SubSeqProperties
  <2>3. \A i \in 1..Len(up') : k + i \in 1..Len(up) /\ up'[i] = up[k + i]
    BY <1>2, <2>2
  <2> QED
    BY <2>3
<1>9. UNCHANGED <<call, reply, got>> /\ Fetches' = Fetches /\ Loops' = Loops
  BY <1>6 DEF client, Fetches, Loops
<1>10. UpKept'
  BY <1>8, <1>9 DEF Kept, UpKept
<1>11. \A s : Line(s)' = Line(s)
  BY <1>9 DEF Line
<1>12. LineKept'
  BY <1>4, <1>7, <1>9, <1>11 DEF Kept, LineKept, Still
<1>13. EventsKept'
  BY <1>4, <1>9 DEF Kept, EventsKept
<1> QED
  BY <1>10, <1>12, <1>13 DEF Kept

-----------------------------------------------------------------------------
(* Nothing is on its way to the caller.                                    *)
LEMMA StillLine ==
  ASSUME Still'
  PROVE  LineKept'
<1>1. <<>> \in Seq(Token) /\ Len(<<>>) = 0 /\ Joined(<<>>, <<>>, <<>>)
  BY DEF Joined
<1>2. Line(<<>>)'
  BY <1>1 DEF Line, StatusLast
<1> QED
  BY <1>1, <1>2 DEF LineKept, Still

(* A command is written when nothing else is on its way.                   *)
LEMMA AskKept ==
  ASSUME TypeInv, NEW l \in Lists, NEW i \in 1..Len(l), NEW w, NEW r, Ask(l, i, w, r),
         up = <<>>, down' = <<>>, \A e \in taken' : e \in Listed(got')
  PROVE  Kept'
<1> DEFINE x == Command(l[i], Argument(l[i], w), n + 1)
<1>1. reply' = <<>> /\ call' = [cmds |-> l, at |-> i, who |-> w]
  BY DEF Ask
<1>2. x.c = l[i]
  BY DEF Command
<1>3. up' = <<>> \/ up' = Append(up, x)
  BY DEF Ask, Post
<1> HIDE DEF x
<1>4. \A j \in 1..Len(up') : up'[j] = x
  <2>1. CASE up' = <<>>
    BY <2>1
  <2>2. CASE up' = Append(up, x)
    BY <2>2
  <2> QED
    BY <1>3, <2>1, <2>2
<1>5. l[i] \in Names /\ (l[i] = "RETR" => Fetches')
  BY <1>1, CallLists, ReceiveAlone DEF Fetches
<1>6. UpKept'
  BY <1>2, <1>4, <1>5 DEF UpKept
<1>7. LineKept'
  BY <1>1, StillLine DEF Still
<1> QED
  BY <1>6, <1>7 DEF Kept, EventsKept

LEMMA ConnectKept == ASSUME TypeInv, Connect PROVE Kept'
<1>1. n + 1 \in Nat /\ down' \in Answers1(n + 1)
  BY DEF TypeInv, GotOK, Connect, Answers1
<1>2. down' \in Seq(Token) /\ Bare(down') /\ StatusLast(down')
  BY <1>1, Bares
<1>3. up' = <<>> /\ reply' = <<>> /\ taken' = {} /\ Len(<<>>) = 0
  BY DEF Connect
<1>4. Commands' = {} /\ UpKept'
  BY <1>3 DEF Commands, UpKept
<1>5. call' # idle
  <2>1. call'.at = 0 /\ call'.cmds = doCmdOpen.cmds /\ doCmdOpen.cmds = <<"USER", "PASS">>
    BY DEF Connect, doCmdOpen, Method
  <2> QED
    BY <2>1 DEF idle
<1>6. PICK s \in Seq(Token) : s = down'
  BY <1>2
<1>7. Line(s)' /\ Joined(reply', down', s)
  BY <1>2, <1>3, <1>6, JoinedNothing DEF Line, Bare
<1>8. LineKept'
  BY <1>4, <1>5, <1>6, <1>7 DEF LineKept
<1> QED
  BY <1>3, <1>4, <1>8 DEF Kept, EventsKept

LEMMA BeginKept ==
  ASSUME TypeInv, AnswerInv, faults = {}, Kept, Close \/ \E m \in Calls : Begin(m)
  PROVE  Kept'
<1>1. PICK m \in Calls \cup {doCmdClose} :
        /\ call = idle /\ Ask(m.cmds, 1, nobody, reply)
        /\ UNCHANGED <<server, down, open, inLoop, buffer, got, last, faults>>
  BY DEF Close, Begin
<1>2. m.cmds \in Lists /\ 1 \in 1..Len(m.cmds)
  <2>1. m.cmds \in Lists
    BY DEF Lists
  <2> QED
    BY <2>1, CallLists
<1>3. ~Loops /\ Commands = {}
  BY <1>1, IdleQuiet
<1>4. up = <<>>
  BY <1>3, EmptyUp DEF Kept
<1>5. reply = <<>> /\ down = <<>>
  BY <1>1, <1>3 DEF Kept, LineKept, Still
<1>6. \A e \in taken' : e \in Listed(got')
  <2>1. UNCHANGED <<taken, got>>
    BY <1>1 DEF server
  <2> QED
    BY <1>5, <2>1, Nothing DEF Kept, EventsKept
<1> QED
  BY <1>1, <1>2, <1>4, <1>5, <1>6, AskKept

(* What is read behind the reply is still the same answer.                 *)
LEMMA JoinedAgain ==
  ASSUME NEW p \in Seq(Token), NEW q \in Seq(Token), NEW d \in Seq(Token), NEW r \in Seq(Token),
         NEW t \in Seq(Token), NEW s \in Seq(Token),
         Joined(p, q, r), Joined(q, t, d), Joined(p, d, s)
  PROVE  Joined(r, t, s)
<1>1. Len(p) \in Nat /\ Len(q) \in Nat /\ Len(t) \in Nat
  OBVIOUS
<1>2. Len(r) = Len(p) + Len(q) /\ Len(d) = Len(q) + Len(t) /\ Len(s) = Len(p) + Len(d)
  BY DEF Joined
<1>3. \A i \in 1..Len(r) : i \in 1..Len(p) \/ \E j \in 1..Len(q) : i = Len(p) + j
  <2> TAKE i \in 1..Len(r)
  <2>1. CASE i <= Len(p)
    BY <1>1, <2>1
  <2>2. CASE ~(i <= Len(p))
    <3>1. i - Len(p) \in 1..Len(q) /\ i = Len(p) + (i - Len(p))
      BY <1>1, <1>2, <2>2
    <3> QED
      BY <3>1
  <2> QED
    BY <2>1, <2>2
<1>4. \A j \in 1..Len(q) : r[Len(p) + j] = q[j] /\ s[Len(p) + j] = q[j]
  <2>1. \A j \in 1..Len(q) : j \in 1..Len(d)
    BY <1>1, <1>2
  <2> QED
    BY <2>1 DEF Joined
<1>5. \A i \in 1..Len(p) : s[i] = p[i] /\ r[i] = p[i]
  BY DEF Joined
<1>6. \A i \in 1..Len(r) : s[i] = r[i]
  BY <1>3, <1>4, <1>5
<1>7. \A i \in 1..Len(t) : s[Len(r) + i] = t[i]
  <2> TAKE i \in 1..Len(t)
  <2>1. Len(q) + i \in 1..Len(d) /\ Len(r) + i = Len(p) + (Len(q) + i)
    BY <1>1, <1>2
  <2>2. s[Len(p) + (Len(q) + i)] = d[Len(q) + i]
    BY <2>1 DEF Joined
  <2>3. d[Len(q) + i] = t[i]
    BY DEF Joined
  <2> QED
    BY <2>1, <2>2, <2>3
<1>8. Len(s) = Len(r) + Len(t)
  BY <1>1, <1>2
<1> QED
  BY <1>6, <1>7, <1>8 DEF Joined

(* A status came in time and whole: nothing is behind it, and what the     *)
(* session took off its queue for this call is the first line read.        *)
LEMMA AllRead ==
  ASSUME TypeInv, AnswerInv, Order, Kept, NEW k \in 1..Len(down), NEW r, r = Pieces(k),
         down' = SubSeq(down, k + 1, Len(down)), call # idle,
         Faults(r, FALSE) = {}, Answers(r) # {} \/ Denials(r) # {}
  PROVE  /\ up = <<>> /\ down' = <<>>
         /\ \A e \in taken : \/ e \in Listed(got)
                             \/ Fetches /\ Answers(r) # {} /\ r[1].k = "event" /\ r[1].ev = e
<1>1. ~Split(r) /\ ~Quoted(r) /\ "loop" \notin Faults(r, FALSE)
  BY DEF Faults
<1>2. ~Loops
  <2>1. SUFFICES ASSUME Loops PROVE FALSE
    OBVIOUS
  <2>2. call.cmds = <<"RCVLOOP">>
    BY <2>1 DEF Loops, doCmdEnterReceiveLoop, Method
  <2>3. Len(call.cmds) = 1 /\ call.cmds[1] = "RCVLOOP"
    BY <2>2
  <2>4. "RCVLOOP" \in {call.cmds[i] : i \in 1..Len(call.cmds)} \cap {"RCVLOOP", "BIN1"}
    BY <2>3
  <2>5. "loop" \in Faults(r, FALSE)
    BY <2>4 DEF Faults
  <2> QED
    BY <1>1, <2>5
<1>3. PICK s \in Seq(Token) : Joined(reply, down, s) /\ Line(s)
  BY <1>2 DEF Kept, LineKept
<1>4. down # <<>> /\ Commands = {}
  <2>1. down # <<>>
    <3>1. Len(<<>>) = 0
      OBVIOUS
    <3> QED
      BY <3>1
  <2> QED
    BY <1>2, <2>1 DEF Kept, LineKept, Still
<1>5. up = <<>>
  BY <1>4, EmptyUp DEF Kept
<1>6. reply \in Seq(Token) /\ down \in Seq(Token)
  BY DEF TypeInv, HeldOK, DownOK
<1>7. PICK pre : Apart(reply, k, pre, r)
  BY <1>6, ApartByRead DEF Pieces
<1>8. r \in Seq(Token) /\ down' \in Seq(Token) /\ Joined(r, down', s)
  <2>1. /\ pre \in Seq(Token) /\ down' \in Seq(Token) /\ r \in Seq(Token)
        /\ Joined(pre, down', down) /\ Joined(reply, pre, r)
    BY <1>7 DEF Apart
  <2>2. PICK t : t = down'
    OBVIOUS
  <2>3. s \in Seq(Token) /\ Joined(reply, down, s)
    BY <1>3
  <2>4. t \in Seq(Token) /\ Joined(pre, t, down)
    BY <2>1, <2>2
  <2>5. Joined(r, t, s)
    BY <1>6, <2>1, <2>3, <2>4, JoinedAgain
  <2> QED
    BY <2>1, <2>2, <2>5
<1>9. Len(r) \in Nat /\ Len(down') \in Nat /\ Len(s) = Len(r) + Len(down')
  BY <1>8 DEF Joined
<1>10. \A i \in 1..Len(r) : i \in 1..Len(s) /\ s[i] = r[i]
  BY <1>8, <1>9 DEF Joined
<1>11. PICK a \in 1..Len(r) : r[a].k \in Status
  BY <1>1 DEF Quoted, Answers, Denials, Places, Status
<1>12. a = Len(s) - 1
  BY <1>3, <1>10, <1>11 DEF Line, StatusLast
<1>13. a # Len(r)
  BY <1>1, <1>11 DEF Split, Status
<1>14. Len(down') = 0
  BY <1>9, <1>11, <1>12, <1>13
<1>15. down' = <<>>
  BY <1>8, <1>14, EmptySeq
<1>16. \A i \in 1..Len(s) : i \in 1..Len(r)
  BY <1>9, <1>14
<1>17. ASSUME NEW e \in taken, e \notin Listed(got)
       PROVE  Fetches /\ Answers(r) # {} /\ r[1].k = "event" /\ r[1].ev = e
  <2>1. e # 0
    BY DEF Order
  <2>2. e \in Carried(s)
    BY <1>3, <1>6, <1>17, JoinedEvents DEF Kept, EventsKept
  <2>3. PICK i \in 1..Len(s) : s[i].ev = e
    BY <2>2 DEF Carried
  <2>4. i = 1 /\ s[i].k = "event" /\ Fetches /\ \E j \in 1..Len(s) : s[j].k = "ok"
    BY <1>3, <2>1, <2>3 DEF Line
  <2>5. PICK j \in 1..Len(s) : s[j].k = "ok"
    BY <2>4
  <2>6. j \in Answers(r)
    BY <1>10, <1>16, <2>5 DEF Answers, Places
  <2> QED
    BY <1>10, <1>16, <2>3, <2>4, <2>6
<1> QED
  BY <1>1, <1>5, <1>15, <1>17

LEMMA ReadKept ==
  ASSUME TypeInv, AnswerInv, Order, Whole, NEW k \in 1..Len(down), Read(k)
  PROVE  Whole'
<1> SUFFICES ASSUME faults' = {} PROVE Kept'
  BY DEF Whole
<1>1. PICK r : r = Pieces(k)
  OBVIOUS
<1>2. /\ call # idle /\ UNCHANGED <<server, buffer>> /\ down' = SubSeq(down, k + 1, Len(down))
      /\ \/ reply' = r /\ Goes
         \/ /\ Answers(r) # {} \/ Denials(r) # {}
            /\ reply' = <<>>
            /\ \E late \in BOOLEAN : /\ faults' = faults \cup Faults(r, late)
                                     /\ Fails(late, r) \/ Ends(late, r) \/ Asks(late, r)
  BY <1>1, ReadCases
<1>3. taken' = taken /\ reply \in Seq(Token) /\ down \in Seq(Token) /\ got \in Seq(Nat)
  BY <1>2 DEF server, TypeInv, HeldOK, DownOK, GotOK
<1>4. CASE reply' = r /\ Goes
  <2>1. Kept
    BY <1>4 DEF Goes, Whole
  <2>2. /\ UNCHANGED <<up, call, got>> /\ Fetches' = Fetches /\ Loops' = Loops /\ Commands' = Commands
    BY <1>4 DEF Goes, Fetches, Loops, Commands
  <2>3. PICK pre : Apart(reply, k, pre, r)
    BY <1>1, <1>2, <1>3, ApartByRead DEF Pieces
  <2>4. Carried(reply') \cup Carried(down') = Carried(reply) \cup Carried(down)
    BY <1>3, <1>4, <2>3, JoinedEvents DEF Apart
  <2>5. EventsKept'
    BY <1>3, <2>1, <2>2, <2>4 DEF Kept, EventsKept
  <2>6. UpKept'
    BY <2>1, <2>2 DEF Kept, UpKept
  <2>7. ASSUME ~Loops PROVE \E s \in Seq(Token) : Joined(reply', down', s) /\ Line(s)'
    <3>1. PICK s \in Seq(Token) : Joined(reply, down, s) /\ Line(s)
      BY <2>1, <2>7 DEF Kept, LineKept
    <3>2. Joined(r, down', s)
      BY <1>3, <2>3, <3>1, JoinedAgain DEF Apart
    <3>3. Line(s)'
      BY <2>2, <3>1 DEF Line
    <3> QED
      BY <1>4, <3>2, <3>3
  <2>8. ~Loops => Commands = {}
    <3>1. down # <<>>
      <4>1. Len(<<>>) = 0
        OBVIOUS
      <4> QED
        BY <4>1
    <3> QED
      BY <2>1, <3>1 DEF Kept, LineKept, Still
  <2>9. LineKept'
    BY <1>2, <2>2, <2>7, <2>8 DEF LineKept
  <2> QED
    BY <2>5, <2>6, <2>9 DEF Kept
<1>5. CASE /\ Answers(r) # {} \/ Denials(r) # {}
           /\ reply' = <<>>
           /\ \E late \in BOOLEAN : /\ faults' = faults \cup Faults(r, late)
                                    /\ Fails(late, r) \/ Ends(late, r) \/ Asks(late, r)
  <2>0. faults' = faults \cup Faults(r, FALSE) /\ (Fails(FALSE, r) \/ Ends(FALSE, r) \/ Asks(FALSE, r))
    <3>1. "gaveUp" \in Faults(r, TRUE)
      BY DEF Faults
    <3>2. faults' # faults \cup Faults(r, TRUE)
      BY <3>1
    <3>3. \/ faults' = faults \cup Faults(r, TRUE)
          \/ faults' = faults \cup Faults(r, FALSE) /\ (Fails(FALSE, r) \/ Ends(FALSE, r) \/ Asks(FALSE, r))
      BY <1>5, Zenon
    <3> QED
      BY <3>2, <3>3, Zenon
  <2>1. faults = {} /\ Faults(r, FALSE) = {} /\ Kept
    <3>1. faults' = faults \cup Faults(r, FALSE)
      BY <2>0
    <3>2. faults = {} /\ Faults(r, FALSE) = {}
      BY <3>1
    <3> QED
      BY <3>2 DEF Whole
  <2>2. /\ up = <<>> /\ down' = <<>>
        /\ \A e \in taken : \/ e \in Listed(got)
                            \/ Fetches /\ Answers(r) # {} /\ r[1].k = "event" /\ r[1].ev = e
    BY <1>1, <1>2, <1>5, <2>0, <2>1, AllRead
  <2>3. \A e \in taken' : e \in Listed(got')
    <3>1. CASE UNCHANGED got /\ ~(Fetches /\ Answers(r) # {})
      BY <1>3, <2>2, <3>1
    <3>2. CASE Fetches /\ Answers(r) # {}
      <4>1. ~(call.at < Len(call.cmds))
        BY <3>2, ReceiveAlone DEF Fetches
      <4>2. EndCall(r)
        BY <1>5, <2>0, <2>2, <3>2, <4>1 DEF Fails, Ends, Asks
      <4>3. got' = Received(r)
        BY <3>2, <4>2 DEF EndCall, Fetches
      <4>4. CASE r[1].k # "event"
        BY <1>3, <2>2, <4>3, <4>4 DEF Received
      <4>5. CASE r[1].k = "event"
        <5>1. got' = Append(got, r[1].ev)
          BY <4>3, <4>5 DEF Received
        <5>2. /\ Len(got') = Len(got) + 1 /\ Len(got) \in Nat
              /\ \A i \in 1..Len(got) : got'[i] = got[i]
              /\ got'[Len(got) + 1] = r[1].ev
          BY <1>3, <5>1
        <5>3. Listed(got) \subseteq Listed(got') /\ r[1].ev \in Listed(got')
          <6>1. \A i \in 1..Len(got) : i \in 1..Len(got')
            BY <5>2
          <6>2. Len(got) + 1 \in 1..Len(got')
            BY <5>2
          <6> QED
            BY <5>2, <6>1, <6>2 DEF Listed
        <5> QED
          BY <1>3, <2>2, <5>3
      <4> QED
        BY <4>4, <4>5
    <3>3. CASE ~UNCHANGED got
      <4>1. Ends(FALSE, r) /\ call.cmds = doCmdReceive.cmds
        BY <1>5, <2>0, <3>3 DEF Fails, Ends, Asks, EndCall
      <4>2. call.at \in 0..1 /\ ~(call.at < 1) /\ Answers(r) # {}
        BY <1>2, <4>1, ReceiveAlone DEF Ends, TypeInv, CallOK
      <4>3. Fetches /\ Answers(r) # {}
        BY <4>1, <4>2 DEF Fetches
      <4> QED
        BY <3>2, <4>3
    <3> QED
      BY <3>1, <3>2, <3>3
  <2>4. CASE Fails(FALSE, r) \/ Ends(FALSE, r)
    <3>1. UNCHANGED up
      BY <2>4 DEF Fails, Ends
    <3>2. up' = <<>> /\ Len(<<>>) = 0
      BY <2>2, <3>1
    <3>3. UpKept'
      BY <3>2 DEF UpKept
    <3>4. LineKept'
      BY <1>5, <2>0, <2>2, StillLine DEF Still
    <3> QED
      BY <2>3, <3>3, <3>4 DEF Kept, EventsKept
  <2>5. CASE Asks(FALSE, r)
    <3>1. Ask(call.cmds, call.at + 1, call.who, r)
      BY <2>5 DEF Asks
    <3>2. call.cmds \in Lists /\ call.at + 1 \in 1..Len(call.cmds)
      <4>1. call.cmds \in Lists /\ call.at \in 0..Len(call.cmds)
        BY <1>2 DEF TypeInv, CallOK
      <4>2. Len(call.cmds) \in 1..2
        BY <4>1, CallLists
      <4> QED
        BY <2>5, <4>1, <4>2 DEF Asks
    <3> QED
      BY <2>2, <2>3, <3>1, <3>2, AskKept
  <2> QED
    BY <1>5, <2>0, <2>4, <2>5
<1> QED
  BY <1>2, <1>4, <1>5, Zenon

(* A call gives up, or BIN1 has been used: that is a fault.  In the        *)
(* receive loop there has been one.                                        *)
LEMMA LateKept ==
  ASSUME TypeInv, AnswerInv, Whole
  PROVE  /\ GiveUp => Whole'
         /\ \A f : BinaryCall(f) => Whole'
         /\ \A k \in 1..Len(down) : BlockReceive(k) => Whole'
<1>1. GiveUp => faults' # {}
  BY DEF GiveUp
<1>2. \A f : BinaryCall(f) => faults' # {}
  BY DEF BinaryCall
<1>3. ASSUME NEW k \in 1..Len(down), BlockReceive(k) PROVE faults' # {}
  <2>1. call = idle /\ faults' = faults
    BY <1>3 DEF BlockReceive
  <2>2. SUFFICES ASSUME faults = {} PROVE FALSE
    BY <2>1
  <2>3. ~Loops /\ Kept
    BY <2>1, <2>2, IdleQuiet DEF Whole
  <2>4. down = <<>> /\ Len(<<>>) = 0
    BY <2>1, <2>3 DEF Kept, LineKept, Still
  <2> QED
    BY <2>4
<1> QED
  BY <1>1, <1>2, <1>3 DEF Whole

LEMMA ClientKept ==
  ASSUME TypeInv, AnswerInv, Order, Whole, Client
  PROVE  Whole'
<1>1. CASE Connect
  BY <1>1, ConnectKept DEF Whole
<1>2. CASE Close \/ \E m \in Calls : Begin(m)
  <2>1. faults' = faults
    BY <1>2 DEF Close, Begin
  <2> QED
    BY <1>2, <2>1, BeginKept DEF Whole
<1>3. CASE \E k \in 1..Len(down) : Read(k)
  BY <1>3, ReadKept
<1>4. CASE \/ doBinaryNOOP \/ doBinarySend \/ doBinarySendEx
           \/ doBinaryReceive \/ doBinaryReceiveEx \/ doBinaryClose
  BY <1>4, LateKept DEF doBinaryNOOP, doBinarySend, doBinarySendEx, doBinaryReceive,
                        doBinaryReceiveEx, doBinaryClose
<1>5. CASE GiveUp \/ \E k \in 1..Len(down) : BlockReceive(k)
  BY <1>5, LateKept
<1> QED
  BY <1>1, <1>2, <1>3, <1>4, <1>5 DEF Client, Wait

LEMMA ServerKept ==
  ASSUME TypeInv, AnswerInv, Holding, Whole, Server, ~SendFull
  PROVE  Whole'
<1>1. faults' = faults
  BY ServerMoves DEF client
<1> SUFFICES ASSUME faults = {}, Kept PROVE Kept'
  BY <1>1 DEF Whole
<1>2. CASE Login \/ Serve
  BY <1>2, ServedBy, ServedKept
<1>3. CASE LoopEvent \/ LoopIdle
  BY <1>3, LoopKept
<1>4. CASE Frame
  BY <1>4, FrameKept
<1>5. CASE Notice
  BY <1>5, KeptSame DEF Notice
<1> QED
  BY <1>2, <1>3, <1>4, <1>5 DEF Server

-----------------------------------------------------------------------------
EventInv == Order /\ Holding /\ Whole

LEMMA EventInit == Init => EventInv
<1> SUFFICES ASSUME Init PROVE EventInv
  OBVIOUS
<1>1. /\ queue = <<>> /\ up = <<>> /\ down = <<>> /\ reply = <<>> /\ buffer = <<>> /\ got = <<>>
      /\ call = idle /\ made = 0 /\ taken = {}
  BY DEF Init
<1>2. Order
  BY <1>1, Nothing DEF Order, Before
<1>3. Holding
  BY <1>1, ReceiveAlone DEF Holding
<1>4. Whole
  <2>1. Len(<<>>) = 0 /\ <<>> \in Seq(Token) /\ Joined(<<>>, <<>>, <<>>)
    BY DEF Joined
  <2>2. UpKept /\ EventsKept /\ Line(<<>>)
    BY <1>1, <2>1 DEF UpKept, EventsKept, Line, StatusLast
  <2> QED
    BY <1>1, <2>1, <2>2 DEF Whole, Kept, LineKept, Still
<1> QED
  BY <1>2, <1>3, <1>4 DEF EventInv

LEMMA EventStep == SessionInv /\ EventInv /\ [Next]_vars => EventInv'
<1> SUFFICES ASSUME TypeInv, AnswerInv, Order, Holding, Whole, [Next]_vars
             PROVE  Order' /\ Holding' /\ Whole'
  BY DEF SessionInv, EventInv
<1>1. CASE Arrive
  <2>1. UNCHANGED <<up, down, taken, client>>
    BY <1>1 DEF Arrive
  <2>2. faults' = faults
    BY <2>1 DEF client
  <2> QED
    BY <1>1, <2>1, <2>2, ArriveOrder, ServerHolds, KeptSame DEF Whole
<1>5. CASE SendFull
  BY <1>5, FullOrder DEF Whole
<1>2. CASE Server /\ ~SendFull
  <2>1. /\ UNCHANGED <<made, client>>
        /\ \E t \in Seq(Token) : Rising(t) /\ (Writes(t) \/ UNCHANGED down) /\ Moves(t)
    BY <1>2, ServerMoves
  <2>2. UNCHANGED <<got, buffer, reply, made>>
    BY <2>1 DEF client
  <2>3. Order'
    BY <2>1, <2>2, ServerOrder
  <2> QED
    BY <1>2, <2>1, <2>3, ServerHolds, ServerKept
<1>3. CASE Client
  BY <1>3, ClientOrder, CallHolds, ClientKept
<1>4. CASE UNCHANGED vars
  <2>1. UNCHANGED <<up, down, taken, client>> /\ UNCHANGED <<queue, made, got, buffer, reply, faults>>
    BY <1>4 DEF vars, server, client
  <2>2. Order'
    BY <2>1 DEF Order
  <2> QED
    BY <2>1, <2>2, ServerHolds, KeptSame DEF Whole
<1> QED
  BY <1>1, <1>2, <1>3, <1>4, <1>5 DEF Next

(* The events of doCmdReceive and doCmdBlockReceive come in the order in   *)
(* which they were put into the session's queue and none comes twice; and  *)
(* as long as every answer came whole, in time and once, what RETR took    *)
(* off that queue is with the caller or on its way, for any calls.         *)
THEOREM NoEventLost == Spec => []EventsArrive
<1>1. Init => SessionInv /\ EventInv
  BY SessionInit, EventInit
<1>2. SessionInv /\ EventInv /\ [Next]_vars => (SessionInv /\ EventInv)'
  BY SessionStep, EventStep
<1>3. EventInv => EventsArrive
  BY DEF EventInv, Order, Climbs, Whole, Kept, EventsKept, Listed, EventsArrive
<1> QED
  BY <1>1, <1>2, <1>3, PTL DEF Spec
=============================================================================

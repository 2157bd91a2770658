----------------------------- MODULE Variables -----------------------------
(***************************************************************************)
(* The variable storage of the daemon (CVariableStorage): a hash table     *)
(* from names to variables, a list that LIST and SAVE walk, the file of    *)
(* persistent variables, and the VARIABLE commands of the TCP sessions.    *)
(* Nothing but LIST takes m_variableMutex, so the commands of the sessions *)
(* and the work of the main thread interleave between the calls they make  *)
(* to the hash table and the list: each find, operator[], erase, Append and*)
(* DeleteObject is one step here, and so is each turn of a walk along the  *)
(* list.  What calls do to each other inside the table's own code is not   *)
(* modelled, and neither are reads of the device threads.                  *)
(*                                                                         *)
(* A name is an upper-case text of which only the prefix and the length    *)
(* matter: the plain name of length l is the last l letters of one long    *)
(* word, so that a name cut short from the left is again a name.           *)
(***************************************************************************)
EXTENDS Naturals, Sequences, FiniteSets

CONSTANTS
  Sessions,   \* TCP sessions that issue VARIABLE commands
  Main,       \* the main thread: load at the start, timers, the matrix
  Texts,      \* values that WRITE is given
  Budgets     \* bound: how many commands, loads and saves a run has in all,
              \* and with which names, types and values

(* The numerical types share one field and one conversion; GUID and        *)
(* DATETIME share the way they are saved.                                  *)
AllTypes == {"string", "boolean", "number", "timestamp", "measurement",
             "event", "guid", "data", "unassigned"}

(* Names with each prefix, and names long enough for each way of cutting.  *)
AllWords == {"A", "$A", "@A", "$@A", "ABCDE", "ABCDEFGH", "ABCDEFGHIJK"}

ASSUME VariablesAssumption ==
  /\ Main \notin Sessions
  /\ Texts \subseteq STRING
  /\ Budgets \subseteq [commands: Nat, words: SUBSET AllWords,
                       types: SUBSET (AllTypes \ {"unassigned"}), texts: SUBSET Texts]

Actors == Sessions \cup {Main}

VARIABLES
  obj,        \* every CVSCPVariable that was put in the tables, by number
  hash,       \* m_hashVariable: name -> number, 0 for an entry that is null
  list,       \* m_listVariable
  pc,         \* where each actor is in its command
  rest,       \* variables that each actor has still to put: loaded or made
  out,        \* rows that the SAVE of each actor has written so far
  file,       \* the file of persistent variables
  budget,     \* the commands that are left, and what they may be given
  boot,       \* "loading", "fresh" (loaded, nothing done yet), "running",
              \* "down": dead, or what it does next is undefined
  raced       \* history: keys that two calls were adding or removing at once

memory == <<obj, hash, list>>
disk   == <<out, file>>
vars   == <<memory, pc, rest, disk, budget, boot, raced>>

-----------------------------------------------------------------------------
(* Names.                                                                  *)

Text(cmd, pre, len) == [cmd |-> cmd, pre |-> pre, len |-> len]
Name == [cmd: {"", "RESET "}, pre: {"", "$", "@", "$@"}, len: Nat]
Plain(n) == n.cmd = "" /\ n.pre = ""
Given == {CASE w = "A"        -> Text("", "", 1)
            [] w = "$A"       -> Text("", "$", 1)
            [] w = "@A"       -> Text("", "@", 1)
            [] w = "$@A"      -> Text("", "$@", 1)
            [] w = "ABCDE"    -> Text("", "", 5)
            [] w = "ABCDEFGH" -> Text("", "", 8)
            [] OTHER          -> Text("", "", 11) : w \in budget.words}
GivenTypes == AllTypes \cap budget.types
GivenTexts == Texts \cap budget.texts

PreLen == [p \in {"", "$", "@", "$@"} |->
             CASE p = "" -> 0 [] p = "$@" -> 2 [] OTHER -> 1]
CmdLen == [c \in {"", "RESET "} |-> IF c = "" THEN 0 ELSE 6]

(* Right(Length() - k).  When the text is shorter the unsigned difference  *)
(* wraps and Right returns all of it, the command word included.           *)
Cut(t, k) ==
  LET pre == CmdLen[t.cmd] + PreLen[t.pre]      \* never longer than k
  IN  IF pre + t.len < k THEN t ELSE Text("", "", pre + t.len - k)

(* find strips a "$" and then a "@".                                       *)
Stripped(t) == IF t.cmd = "" THEN Text("", "", t.len) ELSE t

(* setName strips one of them: it looks for the "@" in the unstripped text.*)
NameOf(t) == IF t.cmd = "" THEN [t EXCEPT !.pre = IF t.pre = "$@" THEN "@" ELSE ""] ELSE t
Marked(t) == t.cmd = "" /\ t.pre \in {"$", "$@"}

-----------------------------------------------------------------------------
(* Values, as the text they are written as.                                *)

Numerals == {"0", "7", "65535"}

(* readStringValue returns 16 bits; a text that is no number gives 0.      *)
Number(text) == IF text \in Numerals THEN text
                ELSE IF text = "-1"  THEN "65535" ELSE "0"

(* setValueFromString, of a variable that holds old.                       *)
Converted(type, text, old) ==
  CASE type \in {"number", "timestamp"}        -> Number(text)
    [] type = "boolean"                        -> IF text = "true" THEN "true" ELSE "false"
    [] type \in {"measurement", "unassigned"}  -> old
    [] OTHER                                   -> text

Initial(type) == CASE type = "boolean"                                  -> "false"
                   [] type \in {"number", "timestamp", "measurement"}   -> "0"
                   [] OTHER                                             -> ""

(* Reset of a variable that is not persistent.                             *)
Blank(type, old) ==
  IF type \in {"string", "boolean", "number", "event", "guid", "data"}
  THEN Initial(type) ELSE old

(* isTrue's types and strings can be set by a timer.                       *)
SetTo(type, b, old) ==
  CASE type = "boolean" -> IF b THEN "true" ELSE "false"
    [] type = "number"  -> IF b THEN "-1" ELSE "0"
    [] type = "string"  -> IF b THEN "true" ELSE "false"
    [] OTHER            -> old

Variable(key, type, pers, value, orig) ==
  [name |-> NameOf(key), type |-> type, pers |-> pers \/ Marked(key),
   value |-> value, orig |-> orig, key |-> key]

(* A variable that is added by the name setName gave it.                   *)
UnderName(v) == [v EXCEPT !.key = v.name]

-----------------------------------------------------------------------------
(* The tables.                                                             *)

Lookup(k) == IF k \in DOMAIN hash THEN hash[k] ELSE 0

(* Mutant: the entry is left where it was.                                 *)
EraseNot(h, k) == h

Enter(h, k, o) == [x \in DOMAIN h \cup {k} |-> IF x = k THEN o ELSE h[x]]
Erase(h, k)    == [x \in DOMAIN h \ {k} |-> h[x]]

(* operator[]: a missing name gets a null entry, which stays.              *)
Touch(h, k) == IF k \in DOMAIN h THEN h ELSE Enter(h, k, 0)

Listed(o) == \E i \in 1..Len(list) : list[i] = o

(* Mutant: the list is forgotten.                                          *)
UnlistNot(l, o) == l

(* DeleteObject: the first node that holds the object goes.                *)
Unlist(l, o) ==
  IF \E i \in 1..Len(l) : l[i] = o
  THEN LET at == CHOOSE i \in 1..Len(l) : l[i] = o
       IN  [j \in 1..(Len(l) - 1) |-> IF j < at THEN l[j] ELSE l[j + 1]]
  ELSE l

-----------------------------------------------------------------------------
(* An actor is at a place in one call of the storage, made for a reason:   *)
(* by the handler itself, to add, to find what it has just added, to put   *)
(* (which replaces) or to remove.                                          *)
Idle == [at |-> "idle", why |-> "none", op |-> "none", name |-> Text("", "", 0),
         type |-> "string", pers |-> FALSE, text |-> "", held |-> 0]

Init ==
  /\ obj = <<>>
  /\ hash = [k \in {} |-> 0]
  /\ list = <<>>
  /\ pc = [a \in Actors |-> Idle]
  /\ rest = [a \in Actors |-> <<>>]
  /\ out = [a \in Actors |-> <<>>]
  /\ file = [state |-> "absent", rows |-> <<>>]
  /\ boot = "loading"
  /\ budget \in Budgets
  /\ raced = {}

(* An actor that is in no command begins one.                              *)
Begins(a) ==
  /\ boot \in {"fresh", "running"}
  /\ pc[a].at = "idle"
  /\ rest[a] = <<>>
  /\ budget.commands > 0
  /\ budget' = [budget EXCEPT !.commands = @ - 1]
  /\ boot' = "running"

Begin(a, at, why, op, n, type, pers, text) ==
  /\ Begins(a)
  /\ pc' = [pc EXCEPT ![a] = [at |-> at, why |-> why, op |-> op, name |-> n, type |-> type,
                              pers |-> pers, text |-> text, held |-> 0]]
  /\ UNCHANGED <<memory, disk>>

Goes(a, at) == pc' = [pc EXCEPT ![a].at = at]
Holds(a, at, o) == pc' = [pc EXCEPT ![a].at = at, ![a].held = o]
Done(a) == pc' = [pc EXCEPT ![a] = Idle]

At(a, at) == boot # "down" /\ pc[a].at = at

-----------------------------------------------------------------------------
(* CVariableStorage::find: two calls.                                      *)

Creating == {"RESET", "READRESET", "READREMOVE", "LENGTH", "ADDTIMER", "SENDEVENT"}

(* What the caller does with what find returned.  A handler that misses its*)
(* variable creates it, and looks for it again.                            *)
FoundIt(p, o) ==
  CASE p.why = "put" -> [p EXCEPT !.at = "take"]
    [] p.why = "add" -> [p EXCEPT !.at = "set"]
    [] p.why \notin {"put", "add"} /\ p.op \in {"READ", "ADDTIMER"} -> Idle
    [] OTHER         -> [p EXCEPT !.at = "use", !.held = o]

(* Mutant: "should be possible to find now" is taken for granted.          *)
FoundAnyway(p, made) ==
  CASE p.why \in {"put", "add"} -> [p EXCEPT !.at = "insert"]
    [] p.why = "again"          -> [p EXCEPT !.at = "use"]
    [] p.why = "handler" /\ p.op \in Creating ->
         [p EXCEPT !.at = "find", !.why = "add"]
    [] p.why = "handler" /\ p.op = "ARITH" ->
         [p EXCEPT !.at = "find", !.why = "put", !.name = made]
    [] OTHER                    -> Idle

FoundNone(p, made) ==
  CASE p.why \in {"put", "add"} -> [p EXCEPT !.at = "insert"]
    [] p.why = "again"          -> Idle
    [] p.why = "handler" /\ p.op \in Creating ->
         [p EXCEPT !.at = "find", !.why = "add"]
    [] p.why = "handler" /\ p.op = "ARITH" ->
         [p EXCEPT !.at = "find", !.why = "put", !.name = made]
    [] OTHER                    -> Idle

(* The name of the variable that arithmetic makes.                         *)
Made(a) == IF rest[a] = <<>> THEN pc[a].name ELSE Head(rest[a]).name

Missing(a) ==
  /\ At(a, "find")
  /\ Stripped(pc[a].name) \notin DOMAIN hash
  /\ pc' = [pc EXCEPT ![a] = FoundNone(@, Made(a))]
  /\ UNCHANGED <<memory, rest, disk, budget, boot>>

Present(a) ==
  /\ At(a, "find")
  /\ Stripped(pc[a].name) \in DOMAIN hash
  /\ Goes(a, "get")
  /\ UNCHANGED <<memory, rest, disk, budget, boot>>

Get(a) ==
  /\ At(a, "get")
  /\ LET k == Stripped(pc[a].name)
     IN  /\ hash' = Touch(hash, k)
         /\ pc' = [pc EXCEPT ![a] = IF Lookup(k) = 0 THEN FoundNone(@, Made(a))
                                                     ELSE FoundIt(@, Lookup(k))]
  /\ UNCHANGED <<obj, list, rest, disk, budget, boot>>

-----------------------------------------------------------------------------
(* CVariableStorage::add of a name and a value, and add of a variable,     *)
(* which replaces: both enter what is new and append it.                   *)

New(a) ==
  LET p == pc[a]
  IN  IF p.why = "put" THEN Head(rest[a])
      ELSE Variable(p.name, p.type, p.pers, Converted(p.type, p.text, Initial(p.type)),
                    IF p.pers THEN p.text ELSE "")

(* The UNSTRIPPED name is the key.                                         *)
Insert(a) ==
  /\ At(a, "insert")
  /\ obj' = Append(obj, New(a))
  /\ hash' = Enter(hash, pc[a].name, Len(obj) + 1)
  /\ Holds(a, "append", Len(obj) + 1)
  /\ UNCHANGED <<list, rest, disk, budget, boot>>

Added(a) == IF pc[a].op \in {"WRITE", "ADDTIMER", "SENDEVENT"} THEN Done(a)
            ELSE pc' = [pc EXCEPT ![a].at = "find", ![a].why = "again", ![a].held = 0]

AppendAdded(a) ==
  /\ At(a, "append")
  /\ pc[a].why = "add"
  /\ list' = Append(list, pc[a].held)
  /\ Added(a)
  /\ UNCHANGED <<obj, hash, rest, disk, budget, boot>>

(* What the daemon does from here is undefined, a SAVE of it included.     *)
Undefined ==
  /\ boot' = "down"
  /\ file' = [file EXCEPT !.state = "mixed"]

(* The arithmetic actions take the success of add for a failure, and delete*)
(* the variable that the tables now hold.                                  *)
AppendPut(a) ==
  /\ At(a, "append")
  /\ pc[a].why = "put"
  /\ list' = Append(list, pc[a].held)
  /\ rest' = [rest EXCEPT ![a] = Tail(@)]
  /\ Done(a)
  /\ IF pc[a].op = "ARITH" THEN Undefined ELSE UNCHANGED <<file, boot>>
  /\ UNCHANGED <<obj, hash, out, budget>>

(* "Just change value": the entry of the unstripped name is read twice, in *)
(* an order that the compiler chooses, once for the type of the conversion *)
(* and once for the variable.                                              *)
Set(a) ==
  /\ At(a, "set")
  /\ hash' = Touch(hash, pc[a].name)
  /\ Holds(a, "set again", Lookup(pc[a].name))
  /\ UNCHANGED <<obj, list, rest, disk, budget, boot>>

(* A conversion to another type than its own sets a field of the variable  *)
(* that nobody reads.                                                      *)
Assigned(o, type, text) ==
  obj' = [obj EXCEPT ![o].value = IF obj[o].type = type THEN Converted(type, text, @) ELSE @]

SetAgain(a) ==
  /\ At(a, "set again")
  /\ LET p == pc[a].held
         q == Lookup(pc[a].name)
     IN  /\ p # 0 /\ q # 0
         /\ \/ Assigned(p, obj[q].type, pc[a].text)
            \/ Assigned(q, obj[p].type, pc[a].text)
  /\ Added(a)
  /\ UNCHANGED <<hash, list, rest, disk, budget, boot>>

(* The null entry that operator[] has made is followed: the daemon dies.   *)
SetNull(a) ==
  /\ At(a, "set again")
  /\ pc[a].held = 0 \/ Lookup(pc[a].name) = 0
  /\ boot' = "down"
  /\ Done(a)
  /\ UNCHANGED <<memory, rest, disk, budget>>

(* CVariableStorage::remove, of the unstripped name: operator[], then      *)
(* DeleteObject, then erase.                                               *)
Take(a) ==
  /\ At(a, "take")
  /\ hash' = Touch(hash, pc[a].name)
  /\ Holds(a, "unlist", Lookup(pc[a].name))
  /\ UNCHANGED <<obj, list, rest, disk, budget, boot>>

DeleteObject(a) ==
  /\ At(a, "unlist")
  /\ list' = Unlist(list, pc[a].held)
  /\ Holds(a, "erase", 0)
  /\ UNCHANGED <<obj, hash, rest, disk, budget, boot>>

EraseEntry(a) ==
  /\ At(a, "erase")
  /\ hash' = Erase(hash, pc[a].name)
  /\ IF pc[a].why = "put" THEN Goes(a, "insert") ELSE Done(a)
  /\ UNCHANGED <<obj, list, rest, disk, budget, boot>>

(* The next variable that is to be put.                                    *)
Put(a) ==
  /\ At(a, "idle")
  /\ rest[a] # <<>>
  /\ pc' = [pc EXCEPT ![a].at = "find", ![a].why = "put", ![a].op = "PUT",
                      ![a].name = Head(rest[a]).name]
  /\ UNCHANGED <<memory, rest, disk, budget, boot>>

-----------------------------------------------------------------------------
(* The VARIABLE commands.                                                  *)

(* WRITE, in the form that is accepted.  persistence is taken to be true   *)
(* unless its text begins with TRUE; both are possible inputs.             *)
Write(s, n, type, pers, text) ==
  /\ Begin(s, "find", "add", "WRITE", n, type, pers, text)
  /\ UNCHANGED rest

Handles(a, op, n) == Begin(a, "find", "handler", op, n, "string", FALSE, "") /\ UNCHANGED rest

Read(s, n) == Handles(s, "READ", n)

(* RESET takes its name from the tenth character of "RESET <name>", as if  *)
(* the command were READRESET.                                             *)
Reset(s, n)      == Handles(s, "RESET", Cut([n EXCEPT !.cmd = "RESET "], 10))
ReadReset(s, n)  == Handles(s, "READRESET", n)
ReadRemove(s, n) == Handles(s, "READREMOVE", n)
Length(s, n)     == Handles(s, "LENGTH", n)

Remove(s, n) == Begin(s, "take", "remove", "REMOVE", n, "string", FALSE, "") /\ UNCHANGED rest

Uses(a, op) == At(a, "use") /\ pc[a].op = op

UseReset(s) ==
  /\ Uses(s, "RESET")
  /\ LET o == pc[s].held
     IN  obj' = [obj EXCEPT ![o].value =
                   IF obj[o].pers THEN Converted(obj[o].type, obj[o].orig, @)
                                  ELSE Blank(obj[o].type, @)]
  /\ Done(s)
  /\ UNCHANGED <<hash, list, rest, disk, budget, boot>>

(* READRESET calls the handler of RESET, which cuts the name once more.    *)
UseReadReset(s) ==
  /\ Uses(s, "READRESET")
  /\ pc' = [pc EXCEPT ![s].at = "find", ![s].why = "handler", ![s].op = "RESET",
                      ![s].name = Cut(@, 10), ![s].held = 0]
  /\ UNCHANGED <<memory, rest, disk, budget, boot>>

(* READREMOVE calls the handler of REMOVE, which cuts the name once more.  *)
UseReadRemove(s) ==
  /\ Uses(s, "READREMOVE")
  /\ pc' = [pc EXCEPT ![s].at = "take", ![s].why = "remove", ![s].op = "REMOVE",
                      ![s].name = Cut(@, 7), ![s].held = 0]
  /\ UNCHANGED <<memory, rest, disk, budget, boot>>

UseLength(s) ==
  /\ Uses(s, "LENGTH")
  /\ Done(s)
  /\ UNCHANGED <<memory, rest, disk, budget, boot>>

-----------------------------------------------------------------------------
(* Walking along the list.                                                 *)

Index(o) == CHOOSE i \in 1..Len(list) : list[i] = o
First == IF list = <<>> THEN 0 ELSE list[1]
Following(o) == IF Index(o) = Len(list) THEN 0 ELSE list[Index(o) + 1]

(* LIST answers with what it passes.                                       *)
List(s) ==
  /\ Begins(s)
  /\ pc' = [pc EXCEPT ![s].at = "walk", ![s].op = "LIST", ![s].held = First]
  /\ UNCHANGED <<memory, rest, disk>>

ListEnd(s) ==
  /\ At(s, "walk") /\ pc[s].op = "LIST" /\ pc[s].held = 0
  /\ Done(s)
  /\ UNCHANGED <<memory, rest, disk, budget, boot>>

(* save writes texts as they are, writes the empty text value of an event, *)
(* leaves out the opening tag of a GUID or a date, and has no case for     *)
(* event data.                                                             *)
Saved(o) == o.pers /\ o.type \notin {"data", "unassigned"}
ValueRow(o) == [name |-> o.name, type |-> o.type, text |-> o.value]
EmptyRow(o) == [name |-> o.name, type |-> o.type, text |-> ""]
Row(o) == IF o.type \in {"string", "boolean", "number", "timestamp"} THEN ValueRow(o) ELSE EmptyRow(o)
Unopened(row) == row.type = "guid"
WellFormed(rows) == \A i \in 1..Len(rows) : ~Unopened(rows[i]) /\ rows[i].text # "<x"

(* The stream truncates the file when it is opened.  A second SAVE has its *)
(* own stream, with its own offset, on the same file.                      *)
SaveBegin(s) ==
  /\ Begins(s)
  /\ file' = [state |-> IF \E t \in Actors : pc[t].op = "SAVE" THEN "mixed" ELSE "partial",
              rows  |-> <<>>]
  /\ out' = [out EXCEPT ![s] = <<>>]
  /\ pc' = [pc EXCEPT ![s].at = "walk", ![s].op = "SAVE", ![s].held = First]
  /\ UNCHANGED <<memory, rest>>

(* One turn of the loop, of LIST or of SAVE.                               *)
Walk(s) ==
  /\ At(s, "walk") /\ Listed(pc[s].held)
  /\ out' = IF pc[s].op = "SAVE" /\ Saved(obj[pc[s].held])
            THEN [out EXCEPT ![s] = Append(@, Row(obj[pc[s].held]))]
            ELSE out
  /\ Holds(s, "walk", Following(pc[s].held))
  /\ UNCHANGED <<memory, rest, file, budget, boot>>

(* The node that the iterator is at has been freed.                        *)
WalkAstray(s) ==
  /\ At(s, "walk") /\ pc[s].held # 0 /\ ~Listed(pc[s].held)
  /\ Undefined
  /\ Done(s)
  /\ UNCHANGED <<memory, rest, out, budget>>

(* Two files written over each other: each row is of the one or the other. *)
Blend(x, y) ==
  LET n == IF Len(x) < Len(y) THEN Len(y) ELSE Len(x)
  IN  {[i \in 1..n |-> IF i > Len(x) \/ (i <= Len(y) /\ over[i]) THEN y[i] ELSE x[i]]
         : over \in [1..n -> BOOLEAN]}

(* The closing tag is written and the file closed.                         *)
SaveEnd(s) ==
  /\ At(s, "walk") /\ pc[s].op = "SAVE" /\ pc[s].held = 0
  /\ IF file.state = "mixed"
     THEN \E rows \in Blend(file.rows, out[s]) : file' = [state |-> "mixed", rows |-> rows]
     ELSE file' = [state |-> "whole", rows |-> out[s]]
  /\ out' = [out EXCEPT ![s] = <<>>]
  /\ Done(s)
  /\ UNCHANGED <<memory, rest, budget, boot>>

-----------------------------------------------------------------------------
(* Mutant: the value is set before the type is known.                      *)
LoadedEarly(row) == UnderName(Variable(row.name, row.type, TRUE, Initial(row.type), row.text))

(* load parses the whole document before it adds the first variable.  A    *)
(* loaded variable is persistent, and its value is its original value.     *)
Loaded(row) == UnderName(Variable(row.name, row.type, TRUE,
                                  Converted(row.type, row.text, Initial(row.type)), row.text))

(* A file without its end or with malformed rows gives nothing; what was   *)
(* mixed may be well-formed or not.                                        *)
Parses == file.state \in {"whole", "mixed"} /\ WellFormed(file.rows)
Fails  == file.state # "whole" \/ ~WellFormed(file.rows)
FileVariables == [i \in 1..Len(file.rows) |-> Loaded(file.rows[i])]
Parsed == (IF Fails THEN {<<>>} ELSE {}) \cup (IF Parses THEN {FileVariables} ELSE {})

Load(s) ==
  /\ Begins(s)
  /\ \E rows \in Parsed : rest' = [rest EXCEPT ![s] = rows]
  /\ UNCHANGED <<memory, pc, disk>>

(* CControlObject::init loads before there is any session.                 *)
BootDone ==
  /\ boot = "loading"
  /\ \A a \in Actors : rest[a] = <<>> /\ pc[a].at = "idle"
  /\ boot' = "fresh"
  /\ UNCHANGED <<memory, pc, rest, disk, budget>>

(* The daemon stops, or dies at any point, and is started again.  Nothing  *)
(* is saved on the way down.                                               *)
Restart ==
  /\ boot # "loading"
  /\ boot' = "loading"
  /\ obj' = <<>>
  /\ hash' = [k \in {} |-> 0]
  /\ list' = <<>>
  /\ pc' = [a \in Actors |-> Idle]
  /\ \E rows \in Parsed : rest' = [a \in Actors |-> IF a = Main THEN rows ELSE <<>>]
  /\ out' = [a \in Actors |-> <<>>]
  /\ UNCHANGED <<file, budget>>

-----------------------------------------------------------------------------
(* The main thread.                                                        *)

(* serviceTimers: a timer has run out; pers stands for the value it sets.  *)
Timer(n, b) ==
  /\ Begin(Main, "find", "handler", "TIMER", n, "boolean", b, "")
  /\ UNCHANGED rest

UseTimer(a) ==
  /\ Uses(a, "TIMER")
  /\ LET o == pc[a].held
     IN  obj' = [obj EXCEPT ![o].value = SetTo(obj[o].type, pc[a].pers, @)]
  /\ Done(a)
  /\ UNCHANGED <<hash, list, rest, disk, budget, boot>>

(* addTimer: the variable of a new timer is created when it is missing.    *)
AddTimer(n) ==
  /\ Begin(Main, "find", "handler", "ADDTIMER", n, "boolean", FALSE, "false")
  /\ UNCHANGED rest

(* doActionSendEvent, the variable it sets when the event has been sent.   *)
SendEvent(n) ==
  /\ Begin(Main, "find", "handler", "SENDEVENT", n, "string", FALSE, "true")
  /\ UNCHANGED rest

UseSendEvent(a) ==
  /\ Uses(a, "SENDEVENT")
  /\ Assigned(pc[a].held, "boolean", "true")
  /\ Done(a)
  /\ UNCHANGED <<hash, list, rest, disk, budget, boot>>

(* doActionAddVariable, Subtract, Multiply and Divide: a number that is    *)
(* found gets some other number, a missing variable is made and put.       *)
Arithmetic(n) ==
  /\ Begin(Main, "find", "handler", "ARITH", n, "number", FALSE, "")
  /\ rest' = [rest EXCEPT ![Main] = <<UnderName(Variable(n, "number", FALSE, "0", ""))>>]

UseArithmetic(a) ==
  /\ Uses(a, "ARITH")
  /\ LET o == pc[a].held
     IN  \E v \in Numerals :
           obj' = [obj EXCEPT ![o].value = IF obj[o].type = "number" THEN v ELSE @]
  /\ rest' = [rest EXCEPT ![a] = <<>>]
  /\ Done(a)
  /\ UNCHANGED <<hash, list, disk, budget, boot>>

(* doActionStoreVariable: getVariableFromString takes the whole parameter, *)
(* name and all, as the value; setName overrides the persistence it read.  *)
StoreVariable(n, type, pers) ==
  /\ Begins(Main)
  /\ rest' = [rest EXCEPT ![Main] =
                 <<UnderName(Variable(n, type, pers, Converted(type, "whole", Initial(type)), ""))>>]
  /\ UNCHANGED <<memory, pc, disk>>

-----------------------------------------------------------------------------
Command(s) ==
  \/ \E n \in Given :
       \/ \E type \in GivenTypes, pers \in BOOLEAN, text \in GivenTexts : Write(s, n, type, pers, text)
       \/ Read(s, n) \/ Reset(s, n) \/ ReadReset(s, n) \/ Remove(s, n) \/ ReadRemove(s, n)
       \/ Length(s, n)
  \/ List(s) \/ ListEnd(s) \/ SaveBegin(s) \/ Walk(s) \/ WalkAstray(s) \/ SaveEnd(s) \/ Load(s)

Inside(a) ==
  \/ Missing(a) \/ Present(a) \/ Get(a)
  \/ Insert(a) \/ AppendAdded(a) \/ AppendPut(a) \/ Set(a) \/ SetAgain(a) \/ SetNull(a)
  \/ Take(a) \/ DeleteObject(a) \/ EraseEntry(a) \/ Put(a)
  \/ UseReset(a) \/ UseReadReset(a) \/ UseReadRemove(a) \/ UseLength(a)
  \/ UseTimer(a) \/ UseSendEvent(a) \/ UseArithmetic(a)

MainThread ==
  \/ BootDone
  \/ \E n \in Given :
       \/ \E b \in BOOLEAN : Timer(n, b)
       \/ AddTimer(n) \/ SendEvent(n) \/ Arithmetic(n)
       \/ \E type \in GivenTypes, pers \in BOOLEAN : StoreVariable(n, type, pers)

(* Keys that a call of add or remove in progress works on.                 *)
Touched(a) == IF pc[a].why \in {"add", "put", "remove"} THEN {pc[a].name} ELSE {}
Contested == {k \in UNION {Touched(a) : a \in Actors} :
                \E a, b \in Actors : a # b /\ k \in Touched(a) /\ k \in Touched(b)}

Next ==
  /\ \/ \E s \in Sessions : Command(s)
     \/ \E a \in Actors : Inside(a)
     \/ MainThread
     \/ Restart
  /\ raced' = IF boot' = "loading" THEN {} ELSE raced \cup Contested'

Spec == Init /\ [][Next]_vars

-----------------------------------------------------------------------------
Id == 1..Len(obj)
Content == Texts \cup Numerals \cup {"", "-1", "true", "false", "whole"}
Record == [name: Name, type: AllTypes, pers: BOOLEAN, value: Content, orig: Content, key: Name]
FileRow == [name: Name, type: AllTypes, text: Content]
Place == [at: {"idle", "find", "get", "set", "set again", "insert", "append", "take", "unlist",
               "erase", "use", "walk"},
          why: {"none", "handler", "add", "again", "put", "remove"},
          op: {"none", "WRITE", "READ", "RESET", "READRESET", "REMOVE", "READREMOVE", "LENGTH",
               "LIST", "SAVE", "PUT", "TIMER", "ADDTIMER", "SENDEVENT", "ARITH"},
          name: Name, type: AllTypes, pers: BOOLEAN, text: Content, held: Nat]

(* The variables have their types.  An entry of the hash may be null, but a*)
(* handler goes on only with a variable that exists, and put only with one *)
(* that it still has to put.                                               *)
TypeOK ==
  /\ obj \in Seq(Record)
  /\ hash \in [DOMAIN hash -> Id \cup {0}]
  /\ DOMAIN hash \subseteq Name
  /\ list \in Seq(Id)
  /\ pc \in [Actors -> Place]
  /\ \A a \in Actors : /\ pc[a].held <= Len(obj)
                       /\ pc[a].at \in {"use", "append"} => pc[a].held # 0
                       /\ pc[a].why = "put" => rest[a] # <<>>
  /\ rest \in [Actors -> Seq(Record)]
  /\ out \in [Actors -> Seq(FileRow)]
  /\ file \in [state: {"absent", "partial", "mixed", "whole"}, rows: Seq(FileRow)]
  /\ boot \in {"loading", "fresh", "running", "down"}
  /\ raced \subseteq Name

(* Whatever the sessions do to each other, a variable that can be found is *)
(* in the list that LIST shows and SAVE writes, unless the call that is    *)
(* about to append it or to erase it is still running; it is there once,   *)
(* no two names lead to it, and a plain name leads to a variable that LIST *)
(* shows under that name.                                                  *)
HashInList ==
  /\ \A k \in DOMAIN hash :
       hash[k] # 0 =>
         \/ Listed(hash[k])
         \/ \E a \in Actors : \/ pc[a].at = "append" /\ pc[a].held = hash[k]
                              \/ pc[a].at = "erase" /\ pc[a].name = k
  /\ \A i, j \in 1..Len(list) : list[i] = list[j] => i = j
  /\ \A k, l \in DOMAIN hash : hash[k] # 0 /\ hash[k] = hash[l] => k = l
  /\ \A k \in DOMAIN hash : Plain(k) /\ hash[k] # 0 => obj[hash[k]].name = k

(* What LIST shows READ finds, between two calls, unless it was created    *)
(* under a name with a prefix or two calls were adding or removing its name*)
(* at once: then it may be a variable that can neither be read nor be      *)
(* removed, and that SAVE keeps.                                           *)
ListIsRead ==
  \A i \in 1..Len(list) :
    LET k == obj[list[i]].key
    IN  Stripped(k) = k /\ k \notin raced /\ (\A a \in Actors : k \notin Touched(a))
          => Lookup(k) = list[i]

(* Two saved variables of one name: the last one read from the file stays. *)
LastOfName(rows, i) == \A j \in i+1..Len(rows) : Stripped(rows[j].name) # Stripped(rows[i].name)

(* After a start every row of the last complete SAVE is back, with its     *)
(* type, value and persistence, if it is a text, a logical value or a      *)
(* number of 16 bits, unless another SAVE ran at the same time; from a file*)
(* whose writing was cut short or that does not parse comes none.          *)
SavedComesBack ==
  boot = "fresh" /\ file.state # "mixed" =>
    IF Parses
    THEN \A i \in 1..Len(file.rows) :
           LET row == file.rows[i]
           IN  row.type \in {"string", "boolean", "number"} /\ row.text # "-1" /\ LastOfName(file.rows, i) =>
             LET o == Lookup(Stripped(row.name))
             IN  /\ o # 0
                 /\ obj[o].type = row.type
                 /\ obj[o].value = row.text
                 /\ obj[o].pers
    ELSE list = <<>>
=============================================================================

--------------------------- MODULE VariablesProofs ----------------------------
(***************************************************************************)
(* What holds of Variables for any sessions, names, types and values and   *)
(* any number of commands, between any two calls of any two actors: the    *)
(* variables have their types, what the hash table leads to is in the list *)
(* or on its way, what is listed can be read unless calls overlapped on its*)
(* name, and a start brings back what the last SAVE wrote.                 *)
(*                                                                         *)
(* The invariant is taken in layers, each proved with the ones before it:  *)
(* Shape, the types, and what each place in a call has made certain; Alone,*)
(* that a load runs before anything else; Tables and Entries, the keys of  *)
(* the two tables; Race, that overlapping calls are recorded; Led, what is *)
(* listed under a name; LoadedSoFar, how far a load has come.              *)
(***************************************************************************)
EXTENDS Variables, SequenceTheorems, TLAPS

OneEach(q) == \A i, j \in 1..Len(q) : q[i] = q[j] => i = j

-----------------------------------------------------------------------------
(* Taking a variable out of the list leaves the others there, once.        *)
LEMMA UnlistList ==
  ASSUME NEW S, NEW l \in Seq(S), NEW o, OneEach(l)
  PROVE  /\ Unlist(l, o) \in Seq(S) /\ OneEach(Unlist(l, o))
         /\ \A i \in 1..Len(Unlist(l, o)) : \E j \in 1..Len(l) : Unlist(l, o)[i] = l[j]
         /\ \A i \in 1..Len(l) : l[i] # o => \E j \in 1..Len(Unlist(l, o)) : Unlist(l, o)[j] = l[i]
         /\ \A i \in 1..Len(Unlist(l, o)) : Unlist(l, o)[i] # o
<1>1. Len(l) \in Nat
  OBVIOUS
<1>2. CASE ~\E i \in 1..Len(l) : l[i] = o
  <2>1. Unlist(l, o) = l
    BY <1>2 DEF Unlist
  <2> QED
    BY <1>2, <2>1
<1>3. CASE \E i \in 1..Len(l) : l[i] = o
  <2> DEFINE at == CHOOSE i \in 1..Len(l) : l[i] = o
             w  == [j \in 1..(Len(l) - 1) |-> IF j < at THEN l[j] ELSE l[j + 1]]
  <2>1. at \in 1..Len(l) /\ l[at] = o
    BY <1>3
  <2>2. Unlist(l, o) = w
    BY <1>3 DEF Unlist
  <2> HIDE DEF at
  <2>3. Len(l) - 1 \in Nat /\ \A j \in 1..(Len(l) - 1) : j \in 1..Len(l) /\ j + 1 \in 1..Len(l)
    BY <1>1, <2>1
  <2>4. \A j \in 1..(Len(l) - 1) : (IF j < at THEN l[j] ELSE l[j + 1]) \in S
    BY <2>3
  <2>5. w \in Seq(S) /\ Len(w) = Len(l) - 1
    BY <2>3, <2>4, IsASeq
  <2>6. \A j \in 1..(Len(l) - 1) : w[j] = l[IF j < at THEN j ELSE j + 1]
    OBVIOUS
  <2> HIDE DEF w
  <2>7. \A i, j \in 1..Len(l) : l[i] = l[j] => i = j
    BY DEF OneEach
  <2>8. ASSUME NEW i \in 1..(Len(l) - 1), NEW j \in 1..(Len(l) - 1), w[i] = w[j] PROVE i = j
    <3> DEFINE x == IF i < at THEN i ELSE i + 1
               y == IF j < at THEN j ELSE j + 1
    <3>1. x \in 1..Len(l) /\ y \in 1..Len(l) /\ l[x] = l[y]
      BY <2>3, <2>6, <2>8
    <3>2. x = y
      BY <2>7, <3>1
    <3> QED
      BY <1>1, <2>1, <3>2
  <2>9. \A i \in 1..(Len(l) - 1) : \E j \in 1..Len(l) : w[i] = l[j]
    BY <2>3, <2>6
  <2>10. ASSUME NEW i \in 1..Len(l), l[i] # o PROVE \E j \in 1..(Len(l) - 1) : w[j] = l[i]
    <3> DEFINE j == IF i < at THEN i ELSE i - 1
    <3>1. i # at /\ j \in 1..(Len(l) - 1) /\ (IF j < at THEN j ELSE j + 1) = i
      BY <1>1, <2>1, <2>10
    <3>2. w[j] = l[i]
      BY <2>6, <3>1
    <3> QED
      BY <3>1, <3>2
  <2>11. ASSUME NEW i \in 1..(Len(l) - 1) PROVE w[i] # o
    <3> DEFINE x == IF i < at THEN i ELSE i + 1
    <3>1. x \in 1..Len(l) /\ x # at /\ w[i] = l[x]
      BY <1>1, <2>1, <2>3, <2>6
    <3> QED
      BY <2>1, <2>7, <3>1
  <2>12. OneEach(w)
    BY <2>5, <2>8 DEF OneEach
  <2> QED
    BY <2>2, <2>5, <2>9, <2>10, <2>11, <2>12
<1> QED
  BY <1>2, <1>3

-----------------------------------------------------------------------------
(* What every variable is, whoever made it, and every place and row.       *)

(* A name that setName has left.                                           *)
Settled(n) == n.cmd # "" \/ n.pre \in {"", "@"}

(* A value that a save and a load return as it is, "-1" excepted.          *)
Canonical(type, value) ==
  /\ type = "number"  => value \in Numerals \cup {"-1"}
  /\ type = "boolean" => value \in {"true", "false"}

Sound == {r \in Record : /\ Settled(r.name) /\ Canonical(r.type, r.value)
                         /\ Plain(r.key) => r.name = r.key}
OwnKey == {r \in Sound : r.key = r.name}

(* Why an actor can be at a place.                                         *)
Whys(at) == CASE at \in {"idle", "walk"}             -> {"none"}
              [] at \in {"find", "get"}              -> {"handler", "add", "again", "put"}
              [] at \in {"set", "set again"}         -> {"add"}
              [] at \in {"insert", "append"}         -> {"add", "put"}
              [] at \in {"take", "unlist", "erase"}  -> {"put", "remove"}
              [] at = "use"                          -> {"handler", "again"}

(* A place p, of an actor that has q still to put.                         *)
Placed(p, q) ==
  /\ p.why \in Whys(p.at)
  /\ p.at \in {"use", "append"} => p.held # 0
  /\ p.op = "ARITH" => q # <<>>
  /\ p.why = "put" => q # <<>> /\ p.name = Head(q).name

SoundRow == {r \in FileRow : Settled(r.name) /\ Canonical(r.type, r.text)}

Shape ==
  /\ obj \in Seq(Sound)
  /\ hash \in [DOMAIN hash -> Id \cup {0}]
  /\ DOMAIN hash \subseteq Name
  /\ list \in Seq(Id)
  /\ pc \in [Actors -> Place]
  /\ rest \in [Actors -> Seq(OwnKey)]
  /\ \A a \in Actors : pc[a].held <= Len(obj) /\ Placed(pc[a], rest[a])
  /\ out \in [Actors -> Seq(SoundRow)]
  /\ file \in [state: {"absent", "partial", "mixed", "whole"}, rows: Seq(SoundRow)]
  /\ boot \in {"loading", "fresh", "running", "down"}
  /\ raced \subseteq Name

(* The names that commands are given are names, and so is what is cut.     *)
LEMMA GivenIsName == ASSUME NEW n \in Given PROVE n \in Name
<1>1. ASSUME NEW c \in {"", "RESET "}, NEW p \in {"", "$", "@", "$@"}, NEW l \in Nat
      PROVE  Text(c, p, l) \in Name
  BY DEF Text, Name
<1>2. /\ Text("", "", 1) \in Name /\ Text("", "$", 1) \in Name /\ Text("", "@", 1) \in Name
      /\ Text("", "$@", 1) \in Name /\ Text("", "", 5) \in Name /\ Text("", "", 8) \in Name
      /\ Text("", "", 11) \in Name
  BY <1>1
<1> QED
  BY <1>2 DEF Given

LEMMA CutIsName == ASSUME NEW t \in Name, NEW k \in Nat PROVE Cut(t, k) \in Name
<1>1. t.cmd \in {"", "RESET "} /\ t.pre \in {"", "$", "@", "$@"} /\ t.len \in Nat
  BY DEF Name
<1>2. PreLen[t.pre] \in Nat /\ CmdLen[t.cmd] \in Nat
  BY <1>1 DEF PreLen, CmdLen
<1>3. PICK p \in Nat, l \in Nat : p = CmdLen[t.cmd] + PreLen[t.pre] /\ l = t.len
  <2>1. \A a, b \in Nat : a + b \in Nat
    OBVIOUS
  <2>2. CmdLen[t.cmd] + PreLen[t.pre] \in Nat
    BY <1>2, <2>1
  <2> QED
    BY <1>1, <2>2
<1>4. Cut(t, k) = IF p + l < k THEN t ELSE Text("", "", p + l - k)
  BY <1>3 DEF Cut
<1>5. CASE p + l < k
  BY <1>4, <1>5
<1>6. CASE ~(p + l < k)
  <2>1. PICK m \in Nat : m = p + l - k
    <3>1. p + l - k \in Nat
      BY <1>3, <1>6
    <3> QED
      BY <3>1
  <2>2. Cut(t, k) = [cmd |-> "", pre |-> "", len |-> m]
    BY <1>4, <1>6, <2>1 DEF Text
  <2>3. [cmd |-> "", pre |-> "", len |-> m] \in Name
    BY DEF Name
  <2> QED
    BY <2>2, <2>3, Zenon
<1> QED
  BY <1>5, <1>6

(* setName leaves a plain name alone, and what it leaves is what find      *)
(* looks for.                                                              *)
LEMMA NameOfName ==
  ASSUME NEW t \in Name
  PROVE  /\ NameOf(t) \in Name /\ Settled(NameOf(t)) /\ Stripped(t) \in Name
         /\ Plain(t) => NameOf(t) = t /\ Stripped(t) = t
         /\ Settled(t) => NameOf(t) = Stripped(t)
<1>1. /\ t.cmd \in {"", "RESET "} /\ t.pre \in {"", "$", "@", "$@"} /\ t.len \in Nat
      /\ t = [cmd |-> t.cmd, pre |-> t.pre, len |-> t.len]
  BY DEF Name
<1>2. CASE t.cmd = ""
  <2> DEFINE left == IF t.pre = "$@" THEN "@" ELSE ""
  <2>0. left \in {"", "@"} /\ (t.pre # "$@" => left = "")
    OBVIOUS
  <2>1. NameOf(t) = [cmd |-> "", pre |-> left, len |-> t.len]
    BY <1>1, <1>2 DEF NameOf
  <2> HIDE DEF left
  <2>2. Stripped(t) = [cmd |-> "", pre |-> "", len |-> t.len]
    BY <1>2 DEF Stripped, Text
  <2>3. NameOf(t) \in Name /\ Stripped(t) \in Name /\ Settled(NameOf(t))
    <3>1. ASSUME NEW p \in {"", "$", "@", "$@"}
          PROVE  [cmd |-> "", pre |-> p, len |-> t.len] \in Name
      BY <1>1 DEF Name
    <3>2. NameOf(t) \in Name /\ Stripped(t) \in Name
      BY <2>0, <2>1, <2>2, <3>1, Zenon
    <3>3. [cmd |-> "", pre |-> left, len |-> t.len].pre = left
      OBVIOUS
    <3>4. NameOf(t).pre = left
      BY <2>1, <3>3, Zenon
    <3> QED
      BY <2>0, <3>2, <3>4 DEF Settled
  <2>4. t.pre = "" => NameOf(t) = t /\ Stripped(t) = t
    BY <1>1, <1>2, <2>0, <2>1, <2>2
  <2>5. t.pre = "@" => NameOf(t) = Stripped(t)
    BY <2>0, <2>1, <2>2
  <2> QED
    BY <1>2, <2>3, <2>4, <2>5 DEF Settled, Plain
<1>3. CASE t.cmd # ""
  BY <1>3 DEF NameOf, Stripped, Settled, Plain
<1> QED
  BY <1>2, <1>3

(* Every way a variable gets its value gives it one of its type.           *)
LEMMA ConvertedIsCanonical ==
  ASSUME NEW type \in AllTypes, NEW text \in Content, NEW old \in Content, Canonical(type, old)
  PROVE  Converted(type, text, old) \in Content /\ Canonical(type, Converted(type, text, old))
<1>1. Number(text) \in Numerals
  BY DEF Number, Numerals
<1>2. CASE type \in {"number", "timestamp"}
  <2>1. Converted(type, text, old) = Number(text)
    BY <1>2 DEF Converted
  <2> QED
    BY <1>1, <1>2, <2>1 DEF Canonical, Content
<1>3. CASE type = "boolean"
  <2>1. Converted(type, text, old) = IF text = "true" THEN "true" ELSE "false"
    BY <1>3 DEF Converted
  <2> QED
    BY <1>3, <2>1 DEF Canonical, Content
<1>4. CASE type \in {"measurement", "unassigned"}
  <2>1. Converted(type, text, old) = old
    BY <1>4 DEF Converted
  <2> QED
    BY <2>1
<1>5. CASE type \in {"string", "event", "guid", "data"}
  <2>1. Converted(type, text, old) = text
    BY <1>5 DEF Converted
  <2> QED
    BY <1>5, <2>1 DEF Canonical
<1> QED
  BY <1>2, <1>3, <1>4, <1>5 DEF AllTypes

LEMMA InitialIsCanonical ==
  ASSUME NEW type \in AllTypes
  PROVE  Initial(type) \in Content /\ Canonical(type, Initial(type))
<1>1. Initial(type) \in {"false", "0", ""}
  BY DEF Initial
<1>2. type = "boolean" => Initial(type) = "false"
  BY DEF Initial
<1>3. type = "number" => Initial(type) = "0"
  BY DEF Initial
<1> QED
  BY <1>1, <1>2, <1>3 DEF Canonical, Content, Numerals

LEMMA BlankIsCanonical ==
  ASSUME NEW type \in AllTypes, NEW old \in Content, Canonical(type, old)
  PROVE  Blank(type, old) \in Content /\ Canonical(type, Blank(type, old))
BY InitialIsCanonical DEF Blank

LEMMA SetToIsCanonical ==
  ASSUME NEW type \in AllTypes, NEW old \in Content, NEW b \in BOOLEAN, Canonical(type, old)
  PROVE  SetTo(type, b, old) \in Content /\ Canonical(type, SetTo(type, b, old))
<1>1. SetTo(type, b, old) \in {"true", "false", "-1", "0", old}
  BY DEF SetTo
<1>2. type = "boolean" => SetTo(type, b, old) \in {"true", "false"}
  BY DEF SetTo
<1>3. type = "number" => SetTo(type, b, old) \in {"-1", "0"}
  BY DEF SetTo
<1> QED
  BY <1>1, <1>2, <1>3 DEF Canonical, Content, Numerals

LEMMA VariableIsSound ==
  ASSUME NEW key \in Name, NEW type \in AllTypes, NEW pers \in BOOLEAN, NEW value \in Content,
         NEW orig \in Content, Canonical(type, value)
  PROVE  /\ Variable(key, type, pers, value, orig) \in Sound
         /\ Variable(key, type, pers, value, orig).key = key
         /\ UnderName(Variable(key, type, pers, value, orig)) \in OwnKey
<1> DEFINE v == Variable(key, type, pers, value, orig)
<1>1. v = [name |-> NameOf(key), type |-> type, pers |-> pers \/ Marked(key),
           value |-> value, orig |-> orig, key |-> key]
  BY DEF Variable
<1>2. NameOf(key) \in Name /\ Settled(NameOf(key)) /\ (Plain(key) => NameOf(key) = key)
  BY NameOfName
<1>3. (pers \/ Marked(key)) \in BOOLEAN
  BY DEF Marked
<1>4. PICK p \in BOOLEAN : p = (pers \/ Marked(key))
  BY <1>3
<1>5. v = [name |-> NameOf(key), type |-> type, pers |-> p, value |-> value, orig |-> orig,
           key |-> key]
  BY <1>1, <1>4
<1>6. v \in Record
  BY <1>2, <1>5 DEF Record
<1>7. v.name = NameOf(key) /\ v.key = key /\ v.type = type /\ v.value = value
  BY <1>5
<1>8. v \in Sound
  BY <1>2, <1>6, <1>7 DEF Sound
<1>9. UnderName(v) = [name |-> NameOf(key), type |-> type, pers |-> p, value |-> value,
                      orig |-> orig, key |-> NameOf(key)]
  BY <1>5 DEF UnderName
<1>10. UnderName(v) \in Record
  BY <1>2, <1>9 DEF Record
<1>11. UnderName(v) \in Sound
  BY <1>2, <1>9, <1>10 DEF Sound
<1>12. UnderName(v).key = UnderName(v).name
  BY <1>9
<1> QED
  BY <1>7, <1>8, <1>11, <1>12 DEF OwnKey

LEMMA ValueOfSound ==
  ASSUME NEW r \in Sound, NEW v \in Content, Canonical(r.type, v)
  PROVE  LET s == [r EXCEPT !.value = v]
         IN  s \in Sound /\ s.name = r.name /\ s.key = r.key /\ s.type = r.type
<1>1. r \in Record /\ Settled(r.name) /\ (Plain(r.key) => r.name = r.key)
  BY DEF Sound
<1>2. [r EXCEPT !.value = v] \in Record
  BY <1>1 DEF Record
<1>3. LET s == [r EXCEPT !.value = v]
      IN  s.name = r.name /\ s.key = r.key /\ s.type = r.type /\ s.value = v
  BY <1>1 DEF Record
<1> QED
  BY <1>1, <1>2, <1>3 DEF Sound

LEMMA ObjOfId ==
  ASSUME Shape, NEW o \in Id
  PROVE  /\ obj[o] \in Sound /\ obj[o].type \in AllTypes /\ obj[o].value \in Content
         /\ obj[o].orig \in Content /\ Canonical(obj[o].type, obj[o].value)
<1>1. obj[o] \in Sound
  BY DEF Shape, Id
<1> QED
  BY <1>1 DEF Sound, Record

-----------------------------------------------------------------------------
(* What a step does to the tables: Keeps, when every name leads where it   *)
(* led and the list is as it was; otherwise one of the five calls that     *)
(* enter or take out.                                                      *)

TablesTyped ==
  /\ obj' \in Seq(Sound)
  /\ Len(obj) <= Len(obj')
  /\ hash' \in [DOMAIN hash' -> Id' \cup {0}]
  /\ DOMAIN hash' \subseteq Name
  /\ list' \in Seq(Id')

Keeps ==
  /\ list' = list
  /\ Len(obj') = Len(obj)
  /\ \A o \in Id : obj'[o].key = obj[o].key /\ obj'[o].name = obj[o].name
  /\ \A k : Lookup(k)' = Lookup(k)

LEMMA KeepsAll == ASSUME Shape, UNCHANGED memory PROVE TablesTyped /\ Keeps
<1>1. UNCHANGED <<obj, hash, list>> /\ Len(obj) \in Nat
  BY DEF memory, Shape
<1> QED
  BY <1>1 DEF Shape, TablesTyped, Keeps, Lookup, Id

LEMMA KeepsSet ==
  ASSUME Shape, NEW o \in Id, NEW v \in Content, Canonical(obj[o].type, v),
         obj' = [obj EXCEPT ![o].value = v], UNCHANGED <<hash, list>>
  PROVE  TablesTyped /\ Keeps
<1>1. Len(obj) \in Nat /\ obj \in Seq(Sound) /\ o \in 1..Len(obj)
  BY DEF Shape, Id
<1>2. PICK r : r = [obj[o] EXCEPT !.value = v]
  OBVIOUS
<1>3. r \in Sound /\ r.name = obj[o].name /\ r.key = obj[o].key
  BY <1>2, ObjOfId, ValueOfSound
<1>4. obj' = [obj EXCEPT ![o] = r]
  BY <1>2
<1>5. obj' \in Seq(Sound) /\ Len(obj') = Len(obj)
  BY <1>1, <1>3, <1>4, ExceptSeq
<1>6. \A i \in Id : obj'[i].key = obj[i].key /\ obj'[i].name = obj[i].name
  BY <1>1, <1>3, <1>4 DEF Id
<1> QED
  BY <1>1, <1>5, <1>6 DEF Shape, TablesTyped, Keeps, Lookup, Id

LEMMA KeepsTouch ==
  ASSUME Shape, NEW k \in Name, hash' = Touch(hash, k), UNCHANGED <<obj, list>>
  PROVE  TablesTyped /\ Keeps
<1>1. Len(obj) \in Nat
  BY DEF Shape
<1>2. /\ DOMAIN hash' = DOMAIN hash \cup {k}
      /\ \A x \in DOMAIN hash : hash'[x] = hash[x]
      /\ k \notin DOMAIN hash => hash'[k] = 0
      /\ hash' = [x \in DOMAIN hash' |-> hash'[x]]
  BY DEF Touch, Enter, Shape
<1>3. \A x : Lookup(x)' = Lookup(x)
  BY <1>2 DEF Lookup
<1>4. \A x \in DOMAIN hash' : hash'[x] \in Id \cup {0}
  BY <1>2 DEF Shape
<1> QED
  BY <1>1, <1>2, <1>3, <1>4 DEF Shape, TablesTyped, Keeps, Id

LEMMA LookupInRange == ASSUME Shape, NEW k PROVE Lookup(k) \in Id \cup {0}
BY DEF Shape, Lookup

-----------------------------------------------------------------------------
(* Where an actor gets to, and what it has left to put.                    *)

Goal(a, x, y) ==
  /\ pc' = [pc EXCEPT ![a] = x]
  /\ rest' = [rest EXCEPT ![a] = y]
  /\ x \in Place /\ y \in Seq(OwnKey)
  /\ x.held <= Len(obj')
  /\ Placed(x, y)

(* A step that changes neither the list nor what a name leads to.          *)
Moves(a, x) ==
  /\ Keeps
  /\ pc[a].at \notin {"insert", "append", "unlist", "erase"}
  /\ x.at \notin {"append", "erase"}
  /\ x.at = "unlist" => x.held = Lookup(x.name)
  /\ x.at = "insert" => x.name = pc[a].name /\ Lookup(Stripped(x.name)) = 0

(* One of the calls that enter a variable or take one out.                 *)
Calls(a) == \/ Insert(a) \/ AppendAdded(a) \/ AppendPut(a) \/ DeleteObject(a) \/ EraseEntry(a)

Stepped(a) == \E x, y : /\ Goal(a, x, y)
                        /\ Moves(a, x) \/ Calls(a)

DiskTyped ==
  /\ out' \in [Actors -> Seq(SoundRow)]
  /\ file' \in [state: {"absent", "partial", "mixed", "whole"}, rows: Seq(SoundRow)]

LEMMA IdlePlace ==
  /\ Idle \in Place /\ Idle.held = 0 /\ Idle.at = "idle" /\ Idle.why = "none" /\ Idle.op = "none"
  /\ \A q : Placed(Idle, q)
<1>1. Text("", "", 0) \in Name
  BY DEF Text, Name
<1>2. /\ Idle.held = 0 /\ Idle.at = "idle" /\ Idle.why = "none" /\ Idle.op = "none"
      /\ Idle \in Place
  BY <1>1 DEF Idle, Place, AllTypes, Content
<1> QED
  BY <1>2 DEF Placed, Whys

LEMMA PlaceOf ==
  ASSUME NEW p \in Place
  PROVE  /\ p.name \in Name /\ p.type \in AllTypes /\ p.pers \in BOOLEAN /\ p.text \in Content
         /\ p.held \in Nat
         /\ p.why \in {"none", "handler", "add", "again", "put", "remove"}
BY DEF Place


LEMMA WhyAt ==
  /\ Whys("idle") = {"none"} /\ Whys("walk") = {"none"}
  /\ Whys("find") = {"handler", "add", "again", "put"}
  /\ Whys("get") = {"handler", "add", "again", "put"}
  /\ Whys("set") = {"add"} /\ Whys("set again") = {"add"}
  /\ Whys("insert") = {"add", "put"} /\ Whys("append") = {"add", "put"}
  /\ Whys("take") = {"put", "remove"} /\ Whys("unlist") = {"put", "remove"}
  /\ Whys("erase") = {"put", "remove"} /\ Whys("use") = {"handler", "again"}
BY DEF Whys

LEMMA ShapeOf ==
  ASSUME Shape, NEW a \in Actors
  PROVE  /\ pc \in [Actors -> Place] /\ rest \in [Actors -> Seq(OwnKey)]
         /\ pc[a] \in Place /\ rest[a] \in Seq(OwnKey) /\ pc[a].held <= Len(obj)
         /\ Placed(pc[a], rest[a])
         /\ Len(obj) \in Nat /\ rest = [rest EXCEPT ![a] = rest[a]] /\ pc = [pc EXCEPT ![a] = pc[a]]
BY DEF Shape

LEMMA IdleGoal ==
  ASSUME Shape, NEW a \in Actors, Done(a), NEW y \in Seq(OwnKey),
         rest' = [rest EXCEPT ![a] = y], Len(obj') \in Nat
  PROVE  /\ Goal(a, Idle, y)
         /\ Keeps /\ pc[a].at \notin {"insert", "append", "unlist", "erase"} => Stepped(a)
<1>1. Goal(a, Idle, y)
  BY IdlePlace DEF Goal, Done
<1>2. Keeps /\ pc[a].at \notin {"insert", "append", "unlist", "erase"} => Moves(a, Idle)
  BY IdlePlace DEF Moves
<1> QED
  BY <1>1, <1>2 DEF Stepped

(* To another place of the same call: the rest is as it was.               *)
LEMMA PlaceGoal ==
  ASSUME Shape, NEW a \in Actors, Keeps, UNCHANGED rest,
         pc[a].at \notin {"insert", "append", "unlist", "erase"},
         NEW x \in Place, pc' = [pc EXCEPT ![a] = x],
         x.held <= Len(obj), x.why \in Whys(x.at), x.at = "use" => x.held # 0,
         x.at \notin {"append", "erase"},
         x.at = "unlist" => x.held = Lookup(x.name),
         x.at = "insert" => x.name = pc[a].name /\ Lookup(Stripped(x.name)) = 0,
         x.op = "ARITH" => pc[a].op = "ARITH",
         x.why = "put" => pc[a].why = "put" /\ x.name = pc[a].name
  PROVE  Stepped(a)
<1>1. /\ rest[a] \in Seq(OwnKey) /\ rest' = [rest EXCEPT ![a] = rest[a]]
      /\ Placed(pc[a], rest[a]) /\ Len(obj') = Len(obj)
  BY ShapeOf DEF Keeps
<1>2. Placed(x, rest[a])
  BY <1>1 DEF Placed
<1>3. Goal(a, x, rest[a])
  BY <1>1, <1>2 DEF Goal
<1>4. Moves(a, x)
  BY DEF Moves
<1> QED
  BY <1>3, <1>4 DEF Stepped

(* find has returned nothing.                                              *)
LEMMA NoneGoal ==
  ASSUME Shape, NEW a \in Actors, Keeps, UNCHANGED rest, pc[a].at \in {"find", "get"},
         Lookup(Stripped(pc[a].name)) = 0, pc' = [pc EXCEPT ![a] = FoundNone(pc[a], Made(a))]
  PROVE  Stepped(a)
<1> DEFINE p == pc[a]
<1>0. /\ p \in Place /\ rest[a] \in Seq(OwnKey) /\ p.held <= Len(obj) /\ Placed(p, rest[a])
      /\ rest' = [rest EXCEPT ![a] = rest[a]] /\ Len(obj) \in Nat /\ Len(obj') = Len(obj)
  BY ShapeOf DEF Keeps
<1>1. p.why \in {"handler", "add", "again", "put"}
  BY <1>0, WhyAt DEF Placed
<1>2. CASE p.why \in {"put", "add"}
  <2>1. PICK x : x = [p EXCEPT !.at = "insert"]
    OBVIOUS
  <2>2. FoundNone(p, Made(a)) = x
    BY <1>2, <2>1 DEF FoundNone
  <2>3. /\ x \in Place /\ x.at = "insert" /\ x.why = p.why /\ x.op = p.op /\ x.name = p.name
        /\ x.held = p.held
    BY <1>0, <2>1 DEF Place
  <2> QED
    BY <1>0, <1>2, <2>2, <2>3, PlaceGoal, WhyAt
<1>3. CASE p.why = "handler" /\ p.op \in Creating
  <2>1. PICK x : x = [p EXCEPT !.at = "find", !.why = "add"]
    OBVIOUS
  <2>2. FoundNone(p, Made(a)) = x
    BY <1>3, <2>1 DEF FoundNone, Creating
  <2>3. /\ x \in Place /\ x.at = "find" /\ x.why = "add" /\ x.op = p.op /\ x.held = p.held
    BY <1>0, <2>1 DEF Place
  <2> QED
    BY <1>0, <1>3, <2>2, <2>3, PlaceGoal, WhyAt
<1>4. CASE p.why = "handler" /\ p.op = "ARITH"
  <2>1. rest[a] # <<>> /\ Made(a) = Head(rest[a]).name
    BY <1>0, <1>4 DEF Placed, Made
  <2>2. PICK n \in Name : n = Made(a)
    BY <1>0, <2>1 DEF OwnKey, Sound, Record
  <2>3. PICK x : x = [p EXCEPT !.at = "find", !.why = "put", !.name = n]
    OBVIOUS
  <2>4. FoundNone(p, Made(a)) = x
    BY <1>4, <2>2, <2>3 DEF FoundNone, Creating
  <2>5. /\ x \in Place /\ x.at = "find" /\ x.why = "put" /\ x.op = p.op /\ x.held = p.held
        /\ x.name = n
    BY <1>0, <2>3 DEF Place
  <2>6. Placed(x, rest[a])
    BY <2>1, <2>2, <2>5, WhyAt DEF Placed
  <2>7. Goal(a, x, rest[a])
    BY <1>0, <2>4, <2>5, <2>6 DEF Goal
  <2>8. Moves(a, x)
    BY <2>5 DEF Moves
  <2> QED
    BY <2>7, <2>8 DEF Stepped
<1>5. CASE \/ p.why = "again"
           \/ p.why = "handler" /\ p.op \notin Creating /\ p.op # "ARITH"
  <2>1. FoundNone(p, Made(a)) = Idle
    BY <1>5 DEF FoundNone
  <2>2. Done(a)
    BY <2>1 DEF Done
  <2> QED
    BY <1>0, <2>2, IdleGoal
<1> QED
  BY <1>1, <1>2, <1>3, <1>4, <1>5

LEMMA FoundGoal ==
  ASSUME Shape, NEW a \in Actors, Keeps, UNCHANGED rest, pc[a].at \in {"find", "get"},
         NEW o \in Id, pc' = [pc EXCEPT ![a] = FoundIt(pc[a], o)]
  PROVE  Stepped(a)
<1> DEFINE p == pc[a]
<1>0. /\ p \in Place /\ rest[a] \in Seq(OwnKey) /\ p.held <= Len(obj) /\ Placed(p, rest[a])
      /\ rest' = [rest EXCEPT ![a] = rest[a]] /\ Len(obj) \in Nat /\ Len(obj') = Len(obj)
      /\ o \in Nat /\ o # 0 /\ o <= Len(obj)
  BY ShapeOf DEF Keeps, Id
<1>1. p.why \in {"handler", "add", "again", "put"}
  BY <1>0, WhyAt DEF Placed
<1>2. ASSUME p.why \in {"put", "add"}, NEW at \in {"take", "set"}, p.why \in Whys(at),
             FoundIt(p, o) = [p EXCEPT !.at = at]
      PROVE  Stepped(a)
  <2>1. PICK x : x = [p EXCEPT !.at = at]
    OBVIOUS
  <2>2. /\ x \in Place /\ x.at = at /\ x.why = p.why /\ x.op = p.op /\ x.name = p.name
        /\ x.held = p.held
    BY <1>0, <2>1 DEF Place
  <2> QED
    BY <1>0, <1>2, <2>1, <2>2, PlaceGoal
<1>3. CASE p.why = "put"
  BY <1>2, <1>3, WhyAt DEF FoundIt
<1>4. CASE p.why = "add"
  BY <1>2, <1>4, WhyAt DEF FoundIt
<1>5. CASE p.why \in {"handler", "again"} /\ p.op \in {"READ", "ADDTIMER"}
  <2>1. Done(a)
    BY <1>5 DEF Done, FoundIt
  <2> QED
    BY <1>0, <2>1, IdleGoal
<1>6. CASE p.why \in {"handler", "again"} /\ p.op \notin {"READ", "ADDTIMER"}
  <2>1. PICK x : x = [p EXCEPT !.at = "use", !.held = o]
    OBVIOUS
  <2>2. FoundIt(p, o) = x
    BY <1>6, <2>1 DEF FoundIt
  <2>3. /\ x \in Place /\ x.at = "use" /\ x.why = p.why /\ x.op = p.op /\ x.name = p.name
        /\ x.held = o
    BY <1>0, <2>1 DEF Place
  <2> QED
    BY <1>0, <1>6, <2>2, <2>3, PlaceGoal, WhyAt
<1> QED
  BY <1>1, <1>3, <1>4, <1>5, <1>6

LEMMA UnlistType == ASSUME NEW S, NEW l \in Seq(S), NEW o PROVE Unlist(l, o) \in Seq(S)
<1>1. Len(l) \in Nat
  OBVIOUS
<1>2. CASE ~\E i \in 1..Len(l) : l[i] = o
  BY <1>2 DEF Unlist
<1>3. CASE \E i \in 1..Len(l) : l[i] = o
  <2> DEFINE at == CHOOSE i \in 1..Len(l) : l[i] = o
             w  == [j \in 1..(Len(l) - 1) |-> IF j < at THEN l[j] ELSE l[j + 1]]
  <2>1. at \in 1..Len(l)
    BY <1>3
  <2>2. Unlist(l, o) = w
    BY <1>3 DEF Unlist
  <2> HIDE DEF at
  <2>3. Len(l) - 1 \in Nat /\ \A j \in 1..(Len(l) - 1) : j \in 1..Len(l) /\ j + 1 \in 1..Len(l)
    BY <1>1, <2>1
  <2>4. \A j \in 1..(Len(l) - 1) : (IF j < at THEN l[j] ELSE l[j + 1]) \in S
    BY <2>3
  <2>5. w \in Seq(S)
    BY <2>3, <2>4, IsASeq
  <2> QED
    BY <2>2, <2>5
<1> QED
  BY <1>2, <1>3

(* When a call has entered or set its variable.                            *)
LEMMA AddedGoal ==
  ASSUME Shape, NEW a \in Actors, Added(a), UNCHANGED rest, Len(obj') = Len(obj),
         pc[a].why = "add"
  PROVE  \E x : /\ Goal(a, x, rest[a]) /\ x.at \in {"idle", "find"} /\ x.why \in {"none", "again"}
<1> DEFINE p == pc[a]
<1>0. /\ p \in Place /\ rest[a] \in Seq(OwnKey) /\ p.held <= Len(obj) /\ Placed(p, rest[a])
      /\ rest' = [rest EXCEPT ![a] = rest[a]] /\ Len(obj) \in Nat
  BY ShapeOf
<1>1. CASE p.op \in {"WRITE", "ADDTIMER", "SENDEVENT"}
  <2>1. Done(a)
    BY <1>1 DEF Added
  <2> QED
    BY <1>0, <2>1, IdleGoal, IdlePlace
<1>2. CASE p.op \notin {"WRITE", "ADDTIMER", "SENDEVENT"}
  <2>1. PICK x : x = [p EXCEPT !.at = "find", !.why = "again", !.held = 0]
    OBVIOUS
  <2>2. pc' = [pc EXCEPT ![a] = x]
    BY <1>2, <2>1 DEF Added
  <2>3. /\ x \in Place /\ x.at = "find" /\ x.why = "again" /\ x.op = p.op /\ x.held = 0
    BY <1>0, <2>1 DEF Place
  <2>4. Placed(x, rest[a])
    BY <1>0, <2>3, WhyAt DEF Placed
  <2>5. x.held <= Len(obj')
    BY <1>0, <2>3
  <2>6. Goal(a, x, rest[a])
    BY <1>0, <2>2, <2>3, <2>4, <2>5 DEF Goal
  <2> QED
    BY <2>3, <2>6
<1> QED
  BY <1>1, <1>2

(* What is new has the key under which it is entered.                      *)
LEMMA NewIsSound ==
  ASSUME Shape, NEW a \in Actors, pc[a].at = "insert"
  PROVE  New(a) \in Sound /\ New(a).key = pc[a].name
<1> DEFINE p == pc[a]
<1>0. /\ p \in Place /\ rest[a] \in Seq(OwnKey) /\ Placed(p, rest[a])
      /\ p.name \in Name /\ p.type \in AllTypes /\ p.pers \in BOOLEAN /\ p.text \in Content
  BY ShapeOf, PlaceOf
<1>1. CASE p.why = "put"
  <2>1. rest[a] # <<>> /\ p.name = Head(rest[a]).name /\ New(a) = Head(rest[a])
    BY <1>0, <1>1 DEF Placed, New
  <2>2. Head(rest[a]) \in OwnKey
    BY <1>0, <2>1
  <2> QED
    BY <2>1, <2>2 DEF OwnKey
<1>2. CASE p.why # "put"
  <2>1. PICK v \in Content : v = Converted(p.type, p.text, Initial(p.type)) /\ Canonical(p.type, v)
    BY <1>0, InitialIsCanonical, ConvertedIsCanonical
  <2>2. PICK orig \in Content : orig = IF p.pers THEN p.text ELSE ""
    BY <1>0 DEF Content
  <2>3. New(a) = Variable(p.name, p.type, p.pers, v, orig)
    BY <1>2, <2>1, <2>2 DEF New
  <2> QED
    BY <1>0, <2>1, <2>3, VariableIsSound
<1> QED
  BY <1>1, <1>2

LEMMA InsertStep ==
  ASSUME Shape, NEW a \in Actors, Insert(a)
  PROVE  Stepped(a) /\ TablesTyped
<1> DEFINE p == pc[a]
<1>0. /\ p \in Place /\ rest[a] \in Seq(OwnKey) /\ Placed(p, rest[a]) /\ p.name \in Name
      /\ rest = [rest EXCEPT ![a] = rest[a]] /\ Len(obj) \in Nat /\ obj \in Seq(Sound)
      /\ p.at = "insert"
  BY ShapeOf, PlaceOf DEF Insert, At, Shape
<1>1. PICK n \in Nat : n = Len(obj) + 1
  BY <1>0
<1>2. obj' \in Seq(Sound) /\ Len(obj') = n
  <2>1. New(a) \in Sound /\ obj' = Append(obj, New(a))
    BY <1>0, NewIsSound DEF Insert
  <2> QED
    BY <1>0, <1>1, <2>1, AppendProperties
<1>3. /\ DOMAIN hash' = DOMAIN hash \cup {p.name} /\ hash' = [k \in DOMAIN hash' |-> hash'[k]]
      /\ \A k \in DOMAIN hash' : hash'[k] = n \/ (k \in DOMAIN hash /\ hash'[k] = hash[k])
  <2>1. hash' = Enter(hash, p.name, n)
    BY <1>1 DEF Insert
  <2> QED
    BY <2>1 DEF Enter
<1>4. Id \subseteq Id' /\ n \in Id'
  BY <1>0, <1>1, <1>2 DEF Id
<1>5. list' \in Seq(Id')
  <2>1. list' = list /\ list \in Seq(Id)
    BY DEF Insert, Shape
  <2> QED
    BY <1>4, <2>1, SeqMonotonic
<1>6. TablesTyped
  <2>1. \A k \in DOMAIN hash : hash[k] \in Id \cup {0}
    BY DEF Shape
  <2>2. \A k \in DOMAIN hash' : hash'[k] \in Id' \cup {0}
    BY <1>3, <1>4, <2>1
  <2>3. hash' \in [DOMAIN hash' -> Id' \cup {0}]
    BY <1>3, <2>2
  <2>4. DOMAIN hash' \subseteq Name
    BY <1>0, <1>3 DEF Shape
  <2>5. Len(obj) <= Len(obj')
    BY <1>0, <1>1, <1>2
  <2> QED
    BY <1>2, <1>5, <2>3, <2>4, <2>5 DEF TablesTyped
<1>7. PICK x : x = [p EXCEPT !.at = "append", !.held = n]
  OBVIOUS
<1>8. pc' = [pc EXCEPT ![a] = x] /\ rest' = [rest EXCEPT ![a] = rest[a]]
  BY <1>0, <1>1, <1>7 DEF Insert, Holds
<1>9. /\ x \in Place /\ x.at = "append" /\ x.why = p.why /\ x.op = p.op /\ x.name = p.name
      /\ x.held = n
  BY <1>0, <1>7 DEF Place
<1>10. Placed(x, rest[a])
  <2>1. n # 0
    BY <1>0, <1>1
  <2>2. p.why \in Whys("append")
    BY <1>0, WhyAt DEF Placed
  <2> QED
    BY <1>0, <1>9, <2>1, <2>2 DEF Placed
<1>11. Goal(a, x, rest[a])
  BY <1>0, <1>2, <1>8, <1>9, <1>10 DEF Goal
<1> QED
  BY <1>6, <1>11 DEF Stepped, Calls

LEMMA AppendStep ==
  ASSUME Shape, NEW a \in Actors, AppendAdded(a) \/ AppendPut(a)
  PROVE  Stepped(a) /\ TablesTyped
<1> DEFINE p == pc[a]
<1>0. /\ p \in Place /\ rest[a] \in Seq(OwnKey) /\ Placed(p, rest[a]) /\ p.held <= Len(obj)
      /\ Len(obj) \in Nat /\ p.at = "append" /\ p.held \in Nat
  BY ShapeOf, PlaceOf DEF AppendAdded, AppendPut, At
<1>1. UNCHANGED <<obj, hash>> /\ list' = Append(list, p.held)
  BY DEF AppendAdded, AppendPut
<1>2. p.held \in Id
  BY <1>0 DEF Placed, Id
<1>3. TablesTyped
  <2>1. list' \in Seq(Id)
    BY <1>1, <1>2 DEF Shape
  <2> QED
    BY <1>0, <1>1, <2>1 DEF TablesTyped, Shape, Id
<1>4. CASE AppendAdded(a)
  <2>1. Added(a) /\ UNCHANGED rest /\ p.why = "add"
    BY <1>4 DEF AppendAdded
  <2> QED
    BY <1>1, <1>3, <1>4, <2>1, AddedGoal DEF Stepped, Calls
<1>5. CASE AppendPut(a)
  <2>1. rest[a] # <<>> /\ Done(a) /\ rest' = [rest EXCEPT ![a] = Tail(rest[a])]
    BY <1>0, <1>5 DEF AppendPut, Placed
  <2>2. PICK y \in Seq(OwnKey) : y = Tail(rest[a])
    <3>1. Tail(rest[a]) \in Seq(OwnKey)
      BY <1>0, <2>1
    <3> QED
      BY <3>1
  <2>3. Goal(a, Idle, y)
    BY <1>0, <1>1, <2>1, <2>2, IdleGoal
  <2> QED
    BY <1>3, <1>5, <2>3 DEF Stepped, Calls
<1> QED
  BY <1>4, <1>5

LEMMA RemoveStep ==
  ASSUME Shape, NEW a \in Actors, DeleteObject(a) \/ EraseEntry(a)
  PROVE  Stepped(a) /\ TablesTyped
<1> DEFINE p == pc[a]
<1>0. /\ p \in Place /\ rest[a] \in Seq(OwnKey) /\ Placed(p, rest[a]) /\ p.held <= Len(obj)
      /\ Len(obj) \in Nat /\ p.held \in Nat /\ rest' = [rest EXCEPT ![a] = rest[a]]
      /\ UNCHANGED obj
  BY ShapeOf, PlaceOf DEF DeleteObject, EraseEntry
<1>1. CASE DeleteObject(a)
  <2>1. TablesTyped
    <3>1. list' = Unlist(list, p.held) /\ UNCHANGED <<obj, hash>>
      BY <1>1 DEF DeleteObject
    <3>2. list' \in Seq(Id)
      BY <3>1, UnlistType DEF Shape
    <3> QED
      BY <1>0, <3>1, <3>2 DEF TablesTyped, Shape, Id
  <2>2. PICK x : x = [p EXCEPT !.at = "erase", !.held = 0]
    OBVIOUS
  <2>3. pc' = [pc EXCEPT ![a] = x] /\ p.at = "unlist"
    BY <1>1, <2>2 DEF DeleteObject, Holds, At
  <2>4. /\ x \in Place /\ x.at = "erase" /\ x.why = p.why /\ x.op = p.op /\ x.name = p.name
        /\ x.held = 0
    BY <1>0, <2>2 DEF Place
  <2>5. Placed(x, rest[a])
    BY <1>0, <2>3, <2>4, WhyAt DEF Placed
  <2>6. Goal(a, x, rest[a])
    BY <1>0, <2>3, <2>4, <2>5 DEF Goal
  <2> QED
    BY <1>1, <2>1, <2>6 DEF Stepped, Calls
<1>2. CASE EraseEntry(a)
  <2>1. TablesTyped
    <3>1. hash' = Erase(hash, p.name) /\ UNCHANGED <<obj, list>>
      BY <1>2 DEF EraseEntry
    <3>2. /\ DOMAIN hash' = DOMAIN hash \ {p.name} /\ hash' = [k \in DOMAIN hash' |-> hash'[k]]
          /\ \A k \in DOMAIN hash' : hash'[k] = hash[k]
      BY <3>1 DEF Erase
    <3> QED
      BY <1>0, <3>1, <3>2 DEF TablesTyped, Shape, Id
  <2>2. CASE p.why = "put"
    <3>1. PICK x : x = [p EXCEPT !.at = "insert"]
      OBVIOUS
    <3>2. pc' = [pc EXCEPT ![a] = x] /\ p.at = "erase"
      BY <1>2, <2>2, <3>1 DEF EraseEntry, Goes, At
    <3>3. /\ x \in Place /\ x.at = "insert" /\ x.why = p.why /\ x.op = p.op /\ x.name = p.name
          /\ x.held = p.held
      BY <1>0, <3>1 DEF Place
    <3>4. Placed(x, rest[a])
      BY <1>0, <2>2, <3>3, WhyAt DEF Placed
    <3>5. Goal(a, x, rest[a])
      BY <1>0, <3>2, <3>3, <3>4 DEF Goal
    <3> QED
      BY <1>2, <2>1, <3>5 DEF Stepped, Calls
  <2>3. CASE p.why # "put"
    <3>1. Done(a)
      BY <1>2, <2>3 DEF EraseEntry
    <3>2. Goal(a, Idle, rest[a])
      BY <1>0, <3>1, IdleGoal
    <3> QED
      BY <1>2, <2>1, <3>2 DEF Stepped, Calls
  <2> QED
    BY <2>2, <2>3
<1> QED
  BY <1>1, <1>2

-----------------------------------------------------------------------------
(* The steps inside a command that leave the tables as they were.          *)

LEMMA FindStep ==
  ASSUME Shape, NEW a \in Actors, Missing(a) \/ Present(a) \/ Get(a)
  PROVE  Stepped(a) /\ TablesTyped
<1> DEFINE p == pc[a]
           k == Stripped(p.name)
<1>0. /\ p \in Place /\ p.held <= Len(obj) /\ Placed(p, rest[a]) /\ k \in Name
      /\ p.at \in {"find", "get"} /\ UNCHANGED rest
  BY ShapeOf, PlaceOf, NameOfName DEF Missing, Present, Get, At
<1>1. CASE Missing(a)
  <2>1. TablesTyped /\ Keeps
    BY <1>1, KeepsAll DEF Missing
  <2>2. Lookup(k) = 0 /\ pc' = [pc EXCEPT ![a] = FoundNone(p, Made(a))]
    BY <1>1 DEF Missing, Lookup
  <2> QED
    BY <1>0, <2>1, <2>2, NoneGoal
<1>2. CASE Present(a)
  <2>1. TablesTyped /\ Keeps
    BY <1>2, KeepsAll DEF Present
  <2>2. PICK x : x = [p EXCEPT !.at = "get"]
    OBVIOUS
  <2>3. pc' = [pc EXCEPT ![a] = x] /\ p.at = "find"
    BY <1>2, <2>2 DEF Present, Goes, At
  <2>4. /\ x \in Place /\ x.at = "get" /\ x.why = p.why /\ x.op = p.op /\ x.name = p.name
        /\ x.held = p.held
    BY <1>0, <2>2 DEF Place
  <2>5. x.why \in Whys(x.at)
    BY <1>0, <2>3, <2>4, WhyAt DEF Placed
  <2> QED
    BY <1>0, <2>1, <2>3, <2>4, <2>5, PlaceGoal
<1>3. CASE Get(a)
  <2>1. TablesTyped /\ Keeps
    BY <1>0, <1>3, KeepsTouch DEF Get
  <2>2. CASE Lookup(k) = 0
    <3>1. pc' = [pc EXCEPT ![a] = FoundNone(p, Made(a))]
      BY <1>3, <2>2 DEF Get
    <3> QED
      BY <1>0, <2>1, <2>2, <3>1, NoneGoal
  <2>3. CASE Lookup(k) # 0
    <3>1. pc' = [pc EXCEPT ![a] = FoundIt(p, Lookup(k))]
      BY <1>3, <2>3 DEF Get
    <3>2. Lookup(k) \in Id
      BY <2>3, LookupInRange
    <3> QED
      BY <1>0, <2>1, <3>1, <3>2, FoundGoal
  <2> QED
    BY <2>2, <2>3
<1> QED
  BY <1>1, <1>2, <1>3

LEMMA IdIsNat ==
  ASSUME Shape
  PROVE  /\ \A n \in Id \cup {0} : n \in Nat /\ n <= Len(obj)
         /\ \A n \in Nat : n # 0 /\ n <= Len(obj) => n \in Id
<1>1. Len(obj) \in Nat
  BY DEF Shape
<1> QED
  BY <1>1 DEF Id

(* The place that a conversion leaves the value at is one that exists.     *)
LEMMA AssignedKeeps ==
  ASSUME Shape, NEW o \in Id, NEW type \in AllTypes, NEW text \in Content,
         Assigned(o, type, text), UNCHANGED <<hash, list>>
  PROVE  TablesTyped /\ Keeps
<1>1. /\ obj[o].type \in AllTypes /\ obj[o].value \in Content
      /\ Canonical(obj[o].type, obj[o].value)
  BY ObjOfId
<1>2. PICK v \in Content : /\ v = IF obj[o].type = type THEN Converted(type, text, obj[o].value)
                                                        ELSE obj[o].value
                           /\ Canonical(obj[o].type, v)
  BY <1>1, ConvertedIsCanonical
<1>3. obj' = [obj EXCEPT ![o].value = v]
  BY <1>2 DEF Assigned
<1> QED
  BY <1>2, <1>3, KeepsSet

LEMMA SetStep ==
  ASSUME Shape, NEW a \in Actors, Set(a) \/ SetAgain(a) \/ SetNull(a)
  PROVE  Stepped(a) /\ TablesTyped
<1> DEFINE p == pc[a]
<1>0. /\ p \in Place /\ p.held <= Len(obj) /\ Placed(p, rest[a]) /\ UNCHANGED rest
      /\ p.name \in Name /\ p.text \in Content /\ p.held \in Nat /\ Len(obj) \in Nat
      /\ rest[a] \in Seq(OwnKey) /\ rest' = [rest EXCEPT ![a] = rest[a]]
      /\ p.at \in {"set", "set again"}
  BY ShapeOf, PlaceOf DEF Set, SetAgain, SetNull, At
<1>1. CASE Set(a)
  <2>1. TablesTyped /\ Keeps
    BY <1>0, <1>1, KeepsTouch DEF Set
  <2>2. PICK n \in Id \cup {0} : n = Lookup(p.name)
    BY LookupInRange
  <2>3. PICK x : x = [p EXCEPT !.at = "set again", !.held = n]
    OBVIOUS
  <2>4. pc' = [pc EXCEPT ![a] = x] /\ p.at = "set"
    BY <1>1, <2>2, <2>3 DEF Set, Holds, At
  <2>5. n \in Nat /\ n <= Len(obj)
    BY IdIsNat
  <2>6. /\ x \in Place /\ x.at = "set again" /\ x.why = p.why /\ x.op = p.op /\ x.name = p.name
        /\ x.held = n
    BY <1>0, <2>3, <2>5 DEF Place
  <2>7. x.why \in Whys(x.at)
    BY <1>0, <2>4, <2>6, WhyAt DEF Placed
  <2> QED
    BY <1>0, <2>1, <2>4, <2>5, <2>6, <2>7, PlaceGoal
<1>2. CASE SetAgain(a)
  <2>1. /\ p.held \in Id /\ Lookup(p.name) \in Id /\ p.at = "set again" /\ Added(a)
        /\ UNCHANGED <<hash, list>>
    <3>1. p.held # 0 /\ Lookup(p.name) # 0 /\ p.at = "set again" /\ Added(a)
          /\ UNCHANGED <<hash, list>>
      BY <1>2 DEF SetAgain, At
    <3>2. p.held \in Id
      BY <1>0, <3>1, IdIsNat
    <3> QED
      BY <3>1, <3>2, LookupInRange
  <2>2. \E o, q \in Id : Assigned(o, obj[q].type, p.text)
    BY <1>2, <2>1 DEF SetAgain
  <2>3. TablesTyped /\ Keeps
    BY <1>0, <2>1, <2>2, AssignedKeeps, ObjOfId
  <2>4. p.why = "add"
    BY <1>0, <2>1, WhyAt DEF Placed
  <2>5. PICK x : Goal(a, x, rest[a]) /\ x.at \in {"idle", "find"}
    BY <1>0, <2>1, <2>3, <2>4, AddedGoal DEF Keeps
  <2>6. Moves(a, x)
    BY <2>1, <2>3, <2>5 DEF Moves
  <2> QED
    BY <2>3, <2>5, <2>6 DEF Stepped
<1>3. CASE SetNull(a)
  <2>1. TablesTyped /\ Keeps
    BY <1>3, KeepsAll DEF SetNull
  <2>2. Done(a) /\ Len(obj') \in Nat
    BY <1>0, <1>3, <2>1 DEF SetNull, Keeps
  <2> QED
    BY <1>0, <2>1, <2>2, IdleGoal
<1> QED
  BY <1>1, <1>2, <1>3

LEMMA TakeStep ==
  ASSUME Shape, NEW a \in Actors, Take(a) \/ Put(a)
  PROVE  Stepped(a) /\ TablesTyped
<1> DEFINE p == pc[a]
<1>0. /\ p \in Place /\ p.held <= Len(obj) /\ Placed(p, rest[a]) /\ UNCHANGED rest
      /\ p.name \in Name /\ p.held \in Nat /\ Len(obj) \in Nat
      /\ rest[a] \in Seq(OwnKey) /\ rest' = [rest EXCEPT ![a] = rest[a]]
  BY ShapeOf, PlaceOf DEF Take, Put
<1>1. CASE Take(a)
  <2>1. TablesTyped /\ Keeps
    BY <1>0, <1>1, KeepsTouch DEF Take
  <2>2. PICK n \in Id \cup {0} : n = Lookup(p.name)
    BY LookupInRange
  <2>3. PICK x : x = [p EXCEPT !.at = "unlist", !.held = n]
    OBVIOUS
  <2>4. pc' = [pc EXCEPT ![a] = x] /\ p.at = "take"
    BY <1>1, <2>2, <2>3 DEF Take, Holds, At
  <2>5. n \in Nat /\ n <= Len(obj)
    BY IdIsNat
  <2>6. /\ x \in Place /\ x.at = "unlist" /\ x.why = p.why /\ x.op = p.op /\ x.name = p.name
        /\ x.held = n
    BY <1>0, <2>3, <2>5 DEF Place
  <2>7. x.why \in Whys(x.at)
    BY <1>0, <2>4, <2>6, WhyAt DEF Placed
  <2> QED
    BY <1>0, <2>1, <2>2, <2>4, <2>5, <2>6, <2>7, PlaceGoal
<1>2. CASE Put(a)
  <2>1. TablesTyped /\ Keeps
    BY <1>2, KeepsAll DEF Put
  <2>2. rest[a] # <<>> /\ Head(rest[a]) \in OwnKey /\ p.at = "idle"
    BY <1>0, <1>2 DEF Put, At
  <2>3. PICK n \in Name : n = Head(rest[a]).name
    BY <2>2 DEF OwnKey, Sound, Record
  <2>4. PICK x : x = [p EXCEPT !.at = "find", !.why = "put", !.op = "PUT", !.name = n]
    OBVIOUS
  <2>5. pc' = [pc EXCEPT ![a] = x]
    BY <1>2, <2>3, <2>4 DEF Put
  <2>6. /\ x \in Place /\ x.at = "find" /\ x.why = "put" /\ x.op = "PUT" /\ x.name = n
        /\ x.held = p.held
    BY <1>0, <2>4 DEF Place
  <2>7. Placed(x, rest[a])
    BY <2>2, <2>3, <2>6, WhyAt DEF Placed
  <2>8. Goal(a, x, rest[a])
    BY <1>0, <2>1, <2>5, <2>6, <2>7 DEF Goal, Keeps
  <2>9. Moves(a, x)
    BY <2>1, <2>2, <2>6 DEF Moves
  <2> QED
    BY <2>1, <2>8, <2>9 DEF Stepped
<1> QED
  BY <1>1, <1>2

LEMMA UseStep ==
  ASSUME Shape, NEW a \in Actors,
         \/ UseReset(a) \/ UseReadReset(a) \/ UseReadRemove(a) \/ UseLength(a)
         \/ UseTimer(a) \/ UseSendEvent(a) \/ UseArithmetic(a)
  PROVE  Stepped(a) /\ TablesTyped
<1> DEFINE p == pc[a]
           o == p.held
<1>0. /\ p \in Place /\ p.held <= Len(obj) /\ Placed(p, rest[a])
      /\ p.name \in Name /\ p.held \in Nat /\ Len(obj) \in Nat /\ p.pers \in BOOLEAN
      /\ rest[a] \in Seq(OwnKey) /\ p.at = "use"
  BY ShapeOf, PlaceOf
     DEF UseReset, UseReadReset, UseReadRemove, UseLength, UseTimer, UseSendEvent, UseArithmetic,
         Uses, At
<1>1. o \in Id /\ p.why \in {"handler", "again"}
  <2>1. o # 0 /\ p.why \in {"handler", "again"}
    BY <1>0, WhyAt DEF Placed
  <2> QED
    BY <1>0, <2>1, IdIsNat
<1>2. /\ obj[o].type \in AllTypes /\ obj[o].value \in Content /\ obj[o].orig \in Content
      /\ Canonical(obj[o].type, obj[o].value)
  BY <1>1, ObjOfId
<1>3. ASSUME Keeps, Done(a), NEW y \in Seq(OwnKey), rest' = [rest EXCEPT ![a] = y]
      PROVE  Stepped(a)
  BY <1>0, <1>3, IdleGoal DEF Keeps
<1>4. UNCHANGED rest => rest' = [rest EXCEPT ![a] = rest[a]]
  BY ShapeOf
<1>5. CASE UseReset(a)
  <2>1. PICK v \in Content :
          /\ v = IF obj[o].pers THEN Converted(obj[o].type, obj[o].orig, obj[o].value)
                                ELSE Blank(obj[o].type, obj[o].value)
          /\ Canonical(obj[o].type, v)
    BY <1>2, ConvertedIsCanonical, BlankIsCanonical
  <2>2. obj' = [obj EXCEPT ![o].value = v]
    BY <1>5, <2>1 DEF UseReset
  <2>3. TablesTyped /\ Keeps
    BY <1>1, <1>5, <2>1, <2>2, KeepsSet DEF UseReset
  <2> QED
    BY <1>0, <1>3, <1>4, <1>5, <2>3 DEF UseReset
<1>6. CASE UseReadReset(a)
  <2>1. TablesTyped /\ Keeps
    BY <1>6, KeepsAll DEF UseReadReset
  <2>2. PICK n \in Name : n = Cut(p.name, 10)
    BY <1>0, CutIsName
  <2>3. PICK x : x = [p EXCEPT !.at = "find", !.why = "handler", !.op = "RESET",
                               !.name = n, !.held = 0]
    OBVIOUS
  <2>4. pc' = [pc EXCEPT ![a] = x]
    BY <1>6, <2>2, <2>3 DEF UseReadReset
  <2>5. x \in Place /\ x.at = "find" /\ x.why = "handler" /\ x.op = "RESET" /\ x.held = 0
    BY <1>0, <2>3 DEF Place
  <2>6. x.why \in Whys(x.at)
    BY <2>5, WhyAt
  <2>7. UNCHANGED rest /\ x.held <= Len(obj)
    BY <1>0, <1>6, <2>5 DEF UseReadReset
  <2>8. Stepped(a)
    BY <1>0, <2>1, <2>4, <2>5, <2>6, <2>7, PlaceGoal
  <2> QED
    BY <2>1, <2>8
<1>7. CASE UseReadRemove(a)
  <2>1. TablesTyped /\ Keeps
    BY <1>7, KeepsAll DEF UseReadRemove
  <2>2. PICK n \in Name : n = Cut(p.name, 7)
    BY <1>0, CutIsName
  <2>3. PICK x : x = [p EXCEPT !.at = "take", !.why = "remove", !.op = "REMOVE",
                               !.name = n, !.held = 0]
    OBVIOUS
  <2>4. pc' = [pc EXCEPT ![a] = x]
    BY <1>7, <2>2, <2>3 DEF UseReadRemove
  <2>5. x \in Place /\ x.at = "take" /\ x.why = "remove" /\ x.op = "REMOVE" /\ x.held = 0
    BY <1>0, <2>3 DEF Place
  <2>6. x.why \in Whys(x.at)
    BY <2>5, WhyAt
  <2>7. UNCHANGED rest /\ x.held <= Len(obj)
    BY <1>0, <1>7, <2>5 DEF UseReadRemove
  <2>8. Stepped(a)
    BY <1>0, <2>1, <2>4, <2>5, <2>6, <2>7, PlaceGoal
  <2> QED
    BY <2>1, <2>8
<1>8. CASE UseLength(a)
  <2>1. TablesTyped /\ Keeps
    BY <1>8, KeepsAll DEF UseLength
  <2> QED
    BY <1>0, <1>3, <1>4, <1>8, <2>1 DEF UseLength
<1>9. CASE UseTimer(a)
  <2>1. PICK v \in Content : v = SetTo(obj[o].type, p.pers, obj[o].value) /\ Canonical(obj[o].type, v)
    BY <1>0, <1>2, SetToIsCanonical
  <2>2. obj' = [obj EXCEPT ![o].value = v]
    BY <1>9, <2>1 DEF UseTimer
  <2>3. TablesTyped /\ Keeps
    BY <1>1, <1>9, <2>1, <2>2, KeepsSet DEF UseTimer
  <2> QED
    BY <1>0, <1>3, <1>4, <1>9, <2>3 DEF UseTimer
<1>10. CASE UseSendEvent(a)
  <2>1. "boolean" \in AllTypes /\ "true" \in Content
    BY DEF AllTypes, Content
  <2>2. TablesTyped /\ Keeps
    BY <1>1, <1>10, <2>1, AssignedKeeps DEF UseSendEvent
  <2> QED
    BY <1>0, <1>3, <1>4, <1>10, <2>2 DEF UseSendEvent
<1>11. CASE UseArithmetic(a)
  <2>1. PICK w \in Numerals :
          obj' = [obj EXCEPT ![o].value = IF obj[o].type = "number" THEN w ELSE @]
    BY <1>11 DEF UseArithmetic
  <2>2. PICK v \in Content : /\ v = IF obj[o].type = "number" THEN w ELSE obj[o].value
                             /\ Canonical(obj[o].type, v)
    BY <1>2 DEF Content, Canonical
  <2>3. obj' = [obj EXCEPT ![o].value = v]
    BY <2>1, <2>2
  <2>4. TablesTyped /\ Keeps
    BY <1>1, <1>11, <2>2, <2>3, KeepsSet DEF UseArithmetic
  <2>5. Done(a) /\ rest' = [rest EXCEPT ![a] = <<>>] /\ <<>> \in Seq(OwnKey)
    BY <1>11 DEF UseArithmetic
  <2> QED
    BY <1>3, <2>4, <2>5
<1> QED
  BY <1>5, <1>6, <1>7, <1>8, <1>9, <1>10, <1>11

LEMMA InsideStep ==
  ASSUME Shape, NEW a \in Actors, Inside(a)
  PROVE  Stepped(a) /\ TablesTyped /\ DiskTyped /\ boot' \in {boot, "down"}
<1>1. Stepped(a) /\ TablesTyped
  BY InsertStep, AppendStep, RemoveStep, FindStep, SetStep, TakeStep, UseStep DEF Inside
<1>2. out' = out /\ boot' \in {boot, "down"} /\ (file' = file \/ file' = [file EXCEPT !.state = "mixed"])
  BY DEF Inside, disk, Undefined, Missing, Present, Get, Insert, AppendAdded, AppendPut, Set,
     SetAgain, SetNull, Take, DeleteObject, EraseEntry, Put, UseReset, UseReadReset,
     UseReadRemove, UseLength, UseTimer, UseSendEvent, UseArithmetic
<1>3. DiskTyped
  BY <1>2 DEF DiskTyped, Shape
<1> QED
  BY <1>1, <1>2, <1>3

-----------------------------------------------------------------------------
(* The steps that begin a command, and those of the walks.                 *)

LEMMA RowIsSound == ASSUME NEW v \in Sound PROVE Row(v) \in SoundRow
<1>1. /\ v \in Record /\ Settled(v.name) /\ Canonical(v.type, v.value)
      /\ v.name \in Name /\ v.type \in AllTypes /\ v.value \in Content
  BY DEF Sound, Record
<1>2. ASSUME NEW text \in Content, Canonical(v.type, text)
      PROVE  [name |-> v.name, type |-> v.type, text |-> text] \in SoundRow
  <2>1. PICK r : r = [name |-> v.name, type |-> v.type, text |-> text]
    OBVIOUS
  <2>2. r \in FileRow /\ r.name = v.name /\ r.type = v.type /\ r.text = text
    BY <1>1, <2>1 DEF FileRow
  <2> QED
    BY <1>1, <1>2, <2>1, <2>2 DEF SoundRow
<1>3. CASE v.type \in {"string", "boolean", "number", "timestamp"}
  BY <1>1, <1>2, <1>3 DEF Row, ValueRow
<1>4. CASE v.type \notin {"string", "boolean", "number", "timestamp"}
  <2>1. "" \in Content /\ Canonical(v.type, "")
    BY <1>4 DEF Content, Canonical
  <2> QED
    BY <1>2, <1>4, <2>1 DEF Row, EmptyRow
<1> QED
  BY <1>3, <1>4

LEMMA LoadedRow ==
  ASSUME NEW row \in SoundRow
  PROVE  Loaded(row) \in OwnKey
<1>1. row.name \in Name /\ row.type \in AllTypes /\ row.text \in Content
  BY DEF SoundRow, FileRow
<1>2. PICK v \in Content : /\ v = Converted(row.type, row.text, Initial(row.type))
                           /\ Canonical(row.type, v)
  BY <1>1, InitialIsCanonical, ConvertedIsCanonical
<1>3. PICK b \in BOOLEAN : b = TRUE
  OBVIOUS
<1>4. Loaded(row) = UnderName(Variable(row.name, row.type, b, v, row.text))
  BY <1>2, <1>3 DEF Loaded
<1> QED
  BY <1>1, <1>2, <1>4, VariableIsSound

LEMMA ParsedIsOwn == ASSUME Shape, NEW rows \in Parsed PROVE rows \in Seq(OwnKey)
<1>1. file.rows \in Seq(SoundRow) /\ Len(file.rows) \in Nat
  BY DEF Shape
<1>2. ASSUME NEW i \in 1..Len(file.rows) PROVE Loaded(file.rows[i]) \in OwnKey
  BY <1>1, LoadedRow
<1>3. FileVariables \in Seq(OwnKey)
  BY <1>1, <1>2, IsASeq DEF FileVariables
<1>4. rows = <<>> \/ rows = FileVariables
  BY DEF Parsed
<1>5. <<>> \in Seq(OwnKey)
  OBVIOUS
<1> QED
  BY <1>3, <1>4, <1>5

LEMMA BlendType ==
  ASSUME NEW S, NEW x \in Seq(S), NEW y \in Seq(S), NEW z \in Blend(x, y)
  PROVE  z \in Seq(S)
<1>1. Len(x) \in Nat /\ Len(y) \in Nat
  OBVIOUS
<1>2. PICK n : n = IF Len(x) < Len(y) THEN Len(y) ELSE Len(x)
  OBVIOUS
<1>3. n \in Nat /\ Len(x) <= n /\ Len(y) <= n /\ (n = Len(x) \/ n = Len(y))
  BY <1>1, <1>2
<1>4. PICK over \in [1..n -> BOOLEAN] :
        z = [i \in 1..n |-> IF i > Len(x) \/ (i <= Len(y) /\ over[i]) THEN y[i] ELSE x[i]]
  BY <1>2 DEF Blend
<1>5. ASSUME NEW i \in 1..n
      PROVE  (IF i > Len(x) \/ (i <= Len(y) /\ over[i]) THEN y[i] ELSE x[i]) \in S
  <2>1. i > Len(x) => i \in 1..Len(y)
    BY <1>1, <1>3
  <2>2. ~(i > Len(x)) => i \in 1..Len(x)
    BY <1>1, <1>3
  <2>3. i <= Len(y) => i \in 1..Len(y)
    BY <1>1, <1>3
  <2>4. (i \in 1..Len(y) => y[i] \in S) /\ (i \in 1..Len(x) => x[i] \in S)
    OBVIOUS
  <2> QED
    BY <2>1, <2>2, <2>3, <2>4
<1> QED
  BY <1>3, <1>4, <1>5, IsASeq

Typed == /\ TablesTyped /\ DiskTyped
         /\ boot' \in {"loading", "fresh", "running", "down"}

Ops == {"none", "WRITE", "READ", "RESET", "READRESET", "REMOVE", "READREMOVE", "LENGTH",
        "LIST", "SAVE", "PUT", "TIMER", "ADDTIMER", "SENDEVENT", "ARITH"}

LEMMA BeginStep ==
  ASSUME Shape, NEW a \in Actors, NEW at \in {"find", "take"},
         NEW why \in {"handler", "add", "remove"}, why \in Whys(at), NEW op \in Ops,
         NEW n \in Name, NEW type \in AllTypes, NEW pers, pers \in BOOLEAN, NEW text \in Content,
         Begin(a, at, why, op, n, type, pers, text),
         NEW y \in Seq(OwnKey), rest' = [rest EXCEPT ![a] = y], op = "ARITH" => y # <<>>
  PROVE  Stepped(a) /\ Typed
<1>1. pc[a].at = "idle" /\ boot' = "running" /\ UNCHANGED <<memory, disk>>
  BY DEF Begin, Begins
<1>2. TablesTyped /\ Keeps
  BY <1>1, KeepsAll
<1>3. DiskTyped
  BY <1>1 DEF DiskTyped, disk, Shape
<1>4. PICK x : x = [at |-> at, why |-> why, op |-> op, name |-> n, type |-> type,
                    pers |-> pers, text |-> text, held |-> 0]
  OBVIOUS
<1>5. pc' = [pc EXCEPT ![a] = x]
  BY <1>4 DEF Begin
<1>6. x \in Place /\ x.at = at /\ x.why = why /\ x.op = op /\ x.held = 0
  BY <1>4 DEF Place, Ops
<1>7. Placed(x, y)
  BY <1>6 DEF Placed
<1>8. Len(obj') \in Nat
  BY <1>2, ShapeOf DEF Keeps
<1>9. Goal(a, x, y)
  BY <1>5, <1>6, <1>7, <1>8 DEF Goal
<1>10. Moves(a, x)
  BY <1>1, <1>2, <1>6 DEF Moves
<1> QED
  BY <1>1, <1>2, <1>3, <1>9, <1>10 DEF Stepped, Typed

LEMMA HandlesStep ==
  ASSUME Shape, NEW a \in Actors, NEW op \in Ops \ {"ARITH"}, NEW n \in Name, Handles(a, op, n)
  PROVE  Stepped(a) /\ Typed
<1>1. Begin(a, "find", "handler", op, n, "string", FALSE, "") /\ rest' = [rest EXCEPT ![a] = rest[a]]
  BY ShapeOf DEF Handles
<1>2. "string" \in AllTypes /\ "" \in Content /\ "handler" \in Whys("find")
  BY WhyAt DEF AllTypes, Content
<1> QED
  BY <1>1, <1>2, BeginStep, ShapeOf

(* Beginning to put what has been loaded or made.                          *)
LEMMA RestStep ==
  ASSUME Shape, NEW a \in Actors, Begins(a), NEW y \in Seq(OwnKey),
         rest' = [rest EXCEPT ![a] = y], UNCHANGED <<memory, pc, disk>>
  PROVE  Stepped(a) /\ Typed
<1>0. /\ pc[a] \in Place /\ pc[a].held <= Len(obj) /\ Placed(pc[a], rest[a]) /\ rest[a] = <<>>
      /\ pc' = [pc EXCEPT ![a] = pc[a]] /\ pc[a].at = "idle" /\ boot' = "running"
  BY ShapeOf DEF Begins
<1>1. TablesTyped /\ Keeps
  BY KeepsAll
<1>2. DiskTyped
  BY DEF DiskTyped, disk, Shape
<1>3. Placed(pc[a], y)
  BY <1>0, WhyAt DEF Placed
<1>4. Goal(a, pc[a], y)
  BY <1>0, <1>1, <1>3 DEF Goal, Keeps
<1>5. Moves(a, pc[a])
  BY <1>0, <1>1 DEF Moves
<1> QED
  BY <1>0, <1>1, <1>2, <1>4, <1>5 DEF Stepped, Typed

LEMMA WalkPlaces ==
  ASSUME Shape
  PROVE  /\ First \in Nat /\ First <= Len(obj)
         /\ \A o : Listed(o) => o \in Id /\ Following(o) \in Nat /\ Following(o) <= Len(obj)
<1>1. list \in Seq(Id) /\ Len(list) \in Nat /\ Len(obj) \in Nat
  BY DEF Shape
<1>2. \A n \in Id : n \in Nat /\ n <= Len(obj)
  BY IdIsNat
<1>3. First \in Nat /\ First <= Len(obj)
  <2>1. list # <<>> => list[1] \in Id
    BY <1>1
  <2> QED
    BY <1>1, <1>2, <2>1 DEF First
<1>4. ASSUME NEW o, Listed(o)
      PROVE  o \in Id /\ Following(o) \in Nat /\ Following(o) <= Len(obj)
  <2>1. Index(o) \in 1..Len(list) /\ list[Index(o)] = o
    BY <1>4 DEF Listed, Index
  <2>2. o \in Id
    BY <1>1, <2>1
  <2>3. Index(o) # Len(list) => list[Index(o) + 1] \in Id
    BY <1>1, <2>1
  <2> QED
    BY <1>1, <1>2, <2>2, <2>3 DEF Following
<1> QED
  BY <1>3, <1>4

(* The walker gets to a node, or to the end of the list.                   *)
LEMMA WalkerGoal ==
  ASSUME Shape, NEW s \in Actors, pc[s].at \in {"idle", "walk"},
         UNCHANGED <<memory, rest>>, NEW n \in Nat, n <= Len(obj),
         NEW x \in Place, x.at = "walk", x.why = pc[s].why, x.op # "ARITH", x.held = n,
         pc' = [pc EXCEPT ![s] = x]
  PROVE  Stepped(s) /\ TablesTyped
<1>1. TablesTyped /\ Keeps
  BY KeepsAll
<1>2. x.why = "none"
  BY ShapeOf, WhyAt DEF Placed
<1>3. Stepped(s)
  BY <1>1, <1>2, PlaceGoal, WhyAt
<1> QED
  BY <1>1, <1>3

LEMMA WalkStep ==
  ASSUME Shape, NEW s \in Actors, List(s) \/ SaveBegin(s) \/ Walk(s)
  PROVE  Stepped(s) /\ Typed
<1> DEFINE p == pc[s]
<1>0. p \in Place /\ p.held <= Len(obj) /\ Placed(p, rest[s]) /\ UNCHANGED <<memory, rest>>
  BY ShapeOf DEF List, SaveBegin, Walk
<1>1. ASSUME NEW op \in {"LIST", "SAVE"}, p.at = "idle", boot' = "running", DiskTyped,
             pc' = [pc EXCEPT ![s].at = "walk", ![s].op = op, ![s].held = First]
      PROVE  Stepped(s) /\ Typed
  <2>1. PICK x : x = [p EXCEPT !.at = "walk", !.op = op, !.held = First]
    OBVIOUS
  <2>2. pc' = [pc EXCEPT ![s] = x]
    BY <1>1, <2>1
  <2>3. First \in Nat /\ First <= Len(obj)
    BY WalkPlaces
  <2>4. x \in Place /\ x.at = "walk" /\ x.op = op /\ x.held = First /\ x.why = p.why
    BY <1>0, <2>1, <2>3 DEF Place
  <2> QED
    BY <1>0, <1>1, <2>2, <2>3, <2>4, WalkerGoal DEF Typed
<1>2. CASE List(s)
  <2>1. DiskTyped
    BY <1>2 DEF List, DiskTyped, disk, Shape
  <2> QED
    BY <1>1, <1>2, <2>1 DEF List, Begins
<1>3. CASE SaveBegin(s)
  <2>1. PICK st \in {"mixed", "partial"} : file' = [state |-> st, rows |-> <<>>]
    BY <1>3 DEF SaveBegin
  <2>2. out' = [out EXCEPT ![s] = <<>>]
    BY <1>3 DEF SaveBegin
  <2>3. DiskTyped
    BY <2>1, <2>2 DEF DiskTyped, Shape
  <2> QED
    BY <1>1, <1>3, <2>3 DEF SaveBegin, Begins
<1>4. CASE Walk(s)
  <2>1. p.at = "walk" /\ p.held \in Id /\ boot' = boot /\ file' = file
    BY <1>4, WalkPlaces DEF Walk, At
  <2>2. Following(p.held) \in Nat /\ Following(p.held) <= Len(obj)
    BY <1>4, WalkPlaces DEF Walk
  <2>3. Row(obj[p.held]) \in SoundRow
    BY <2>1, ObjOfId, RowIsSound
  <2>4. out' \in [Actors -> Seq(SoundRow)]
    <3>1. out' = out \/ out' = [out EXCEPT ![s] = Append(out[s], Row(obj[p.held]))]
      BY <1>4 DEF Walk
    <3>2. out \in [Actors -> Seq(SoundRow)] /\ Append(out[s], Row(obj[p.held])) \in Seq(SoundRow)
      BY <2>3 DEF Shape
    <3> QED
      BY <3>1, <3>2
  <2>5. DiskTyped /\ boot' \in {"loading", "fresh", "running", "down"}
    BY <2>1, <2>4 DEF DiskTyped, Shape
  <2>6. PICK x : x = [p EXCEPT !.at = "walk", !.held = Following(p.held)]
    OBVIOUS
  <2>7. pc' = [pc EXCEPT ![s] = x]
    BY <1>4, <2>6 DEF Walk, Holds
  <2>8. x \in Place /\ x.at = "walk" /\ x.op = p.op /\ x.held = Following(p.held) /\ x.why = p.why
    BY <1>0, <2>2, <2>6 DEF Place
  <2>9. CASE p.op # "ARITH"
    BY <1>0, <2>1, <2>2, <2>5, <2>7, <2>8, <2>9, WalkerGoal DEF Typed
  <2>10. CASE p.op = "ARITH"
    <3>1. TablesTyped /\ Keeps
      BY <1>0, KeepsAll
    <3>2. x.why \in Whys(x.at)
      BY <1>0, <2>1, <2>8, WhyAt DEF Placed
    <3>3. x.why # "put"
      BY <2>8, <3>2, WhyAt
    <3>4. Stepped(s)
      BY <1>0, <2>1, <2>2, <2>7, <2>8, <3>1, <3>2, <3>3, PlaceGoal
    <3> QED
      BY <2>5, <3>1, <3>4 DEF Typed
  <2> QED
    BY <2>9, <2>10
<1> QED
  BY <1>2, <1>3, <1>4

LEMMA WalkEndStep ==
  ASSUME Shape, NEW s \in Actors, ListEnd(s) \/ WalkAstray(s) \/ SaveEnd(s)
  PROVE  Stepped(s) /\ Typed
<1>0. /\ UNCHANGED <<memory, rest>> /\ Done(s) /\ pc[s].at = "walk"
      /\ boot' \in {boot, "down"}
  BY DEF ListEnd, WalkAstray, SaveEnd, Undefined, At
<1>1. TablesTyped /\ Keeps
  BY <1>0, KeepsAll
<1>2. Stepped(s)
  <2>1. rest[s] \in Seq(OwnKey) /\ rest' = [rest EXCEPT ![s] = rest[s]] /\ Len(obj') \in Nat
    BY <1>0, <1>1, ShapeOf DEF Keeps
  <2> QED
    BY <1>0, <1>1, <2>1, IdleGoal
<1>3. out' = out \/ out' = [out EXCEPT ![s] = <<>>]
  BY DEF ListEnd, WalkAstray, SaveEnd, disk
<1>4. out' \in [Actors -> Seq(SoundRow)]
  <2>1. out \in [Actors -> Seq(SoundRow)] /\ <<>> \in Seq(SoundRow)
    BY DEF Shape
  <2> QED
    BY <1>3, <2>1
<1>5. /\ file \in [state: {"absent", "partial", "mixed", "whole"}, rows: Seq(SoundRow)]
      /\ out[s] \in Seq(SoundRow) /\ file.rows \in Seq(SoundRow)
  BY DEF Shape
<1>6. CASE ListEnd(s) \/ WalkAstray(s)
  <2>1. file' = file \/ file' = [file EXCEPT !.state = "mixed"]
    BY <1>6 DEF ListEnd, WalkAstray, Undefined, disk
  <2> QED
    BY <1>0, <1>1, <1>2, <1>4, <1>5, <2>1 DEF Typed, DiskTyped, Shape
<1>7. CASE SaveEnd(s)
  <2>1. \E st \in {"mixed", "whole"}, rows \in Seq(SoundRow) : file' = [state |-> st, rows |-> rows]
    BY <1>5, <1>7, BlendType DEF SaveEnd
  <2> QED
    BY <1>0, <1>1, <1>2, <1>4, <2>1 DEF Typed, DiskTyped, Shape
<1> QED
  BY <1>6, <1>7

LEMMA CommandStep ==
  ASSUME Shape, NEW s \in Sessions, Command(s)
  PROVE  Stepped(s) /\ Typed
<1>0. s \in Actors
  BY DEF Actors
<1>1. ASSUME NEW n \in Given, NEW type \in GivenTypes, NEW pers \in BOOLEAN, NEW text \in GivenTexts,
             Write(s, n, type, pers, text)
      PROVE  Stepped(s) /\ Typed
  <2>1. type \in AllTypes /\ text \in Content /\ n \in Name /\ "WRITE" \in Ops /\ "add" \in Whys("find")
    BY GivenIsName, WhyAt DEF Content, Ops, GivenTypes, GivenTexts
  <2>2. /\ Begin(s, "find", "add", "WRITE", n, type, pers, text)
        /\ rest[s] \in Seq(OwnKey) /\ rest' = [rest EXCEPT ![s] = rest[s]]
    BY <1>0, <1>1, ShapeOf DEF Write
  <2>3. ASSUME NEW b, b \in BOOLEAN, Begin(s, "find", "add", "WRITE", n, type, b, text)
        PROVE  Stepped(s) /\ Typed
    BY <1>0, <2>1, <2>2, <2>3, BeginStep
  <2> QED
    BY <2>2, <2>3
<1>2. ASSUME NEW n \in Given, Remove(s, n)
      PROVE  Stepped(s) /\ Typed
  <2>1. "string" \in AllTypes /\ "" \in Content /\ n \in Name /\ "REMOVE" \in Ops /\ "remove" \in Whys("take")
    BY GivenIsName, WhyAt DEF Content, Ops, AllTypes
  <2>2. /\ Begin(s, "take", "remove", "REMOVE", n, "string", FALSE, "")
        /\ rest[s] \in Seq(OwnKey) /\ rest' = [rest EXCEPT ![s] = rest[s]]
    BY <1>0, <1>2, ShapeOf DEF Remove
  <2> QED
    BY <1>0, <2>1, <2>2, BeginStep
<1>3. ASSUME NEW n \in Given, Read(s, n) \/ Reset(s, n) \/ ReadReset(s, n) \/ ReadRemove(s, n) \/ Length(s, n)
      PROVE  Stepped(s) /\ Typed
  <2>1. n \in Name
    BY GivenIsName
  <2>2. Cut([n EXCEPT !.cmd = "RESET "], 10) \in Name
    <3>1. [n EXCEPT !.cmd = "RESET "] \in Name
      BY <2>1 DEF Name
    <3> QED
      BY <3>1, CutIsName
  <2>3. \E op \in Ops \ {"ARITH"}, m \in Name : Handles(s, op, m)
    BY <1>3, <2>1, <2>2 DEF Read, Reset, ReadReset, ReadRemove, Length, Ops
  <2> QED
    BY <1>0, <2>3, HandlesStep
<1>4. CASE Load(s)
  <2>1. PICK rows \in Parsed : rest' = [rest EXCEPT ![s] = rows]
    BY <1>4 DEF Load
  <2>2. rows \in Seq(OwnKey)
    BY ParsedIsOwn
  <2>3. Begins(s) /\ UNCHANGED <<memory, pc, disk>>
    BY <1>4 DEF Load
  <2> QED
    BY <1>0, <2>1, <2>2, <2>3, RestStep
<1>5. CASE List(s) \/ SaveBegin(s) \/ Walk(s)
  BY <1>0, <1>5, WalkStep
<1>6. CASE ListEnd(s) \/ WalkAstray(s) \/ SaveEnd(s)
  BY <1>0, <1>6, WalkEndStep
<1> QED
  BY <1>1, <1>2, <1>3, <1>4, <1>5, <1>6 DEF Command

LEMMA MainStep ==
  ASSUME Shape, MainThread
  PROVE  Stepped(Main) /\ Typed
<1>0. Main \in Actors
  BY DEF Actors
<1>1. CASE BootDone
  <2>1. TablesTyped /\ Keeps
    BY <1>1, KeepsAll DEF BootDone
  <2>2. DiskTyped /\ boot' = "fresh"
    BY <1>1 DEF DiskTyped, BootDone, disk, Shape
  <2>3. /\ pc[Main] \in Place /\ rest[Main] \in Seq(OwnKey) /\ pc[Main].held <= Len(obj')
        /\ Placed(pc[Main], rest[Main]) /\ rest' = [rest EXCEPT ![Main] = rest[Main]]
        /\ pc' = [pc EXCEPT ![Main] = pc[Main]] /\ pc[Main].at = "idle"
    BY <1>0, <1>1, <2>1, ShapeOf DEF BootDone, Keeps
  <2>4. Goal(Main, pc[Main], rest[Main]) /\ Moves(Main, pc[Main])
    BY <2>1, <2>3 DEF Goal, Moves
  <2> QED
    BY <2>1, <2>2, <2>4 DEF Stepped, Typed
<1>2. ASSUME NEW n \in Given, NEW type \in {"boolean", "string"}, NEW pers \in BOOLEAN,
             NEW text \in {"", "true", "false"}, NEW op \in {"TIMER", "ADDTIMER", "SENDEVENT"},
             Begin(Main, "find", "handler", op, n, type, pers, text), UNCHANGED rest
      PROVE  Stepped(Main) /\ Typed
  <2>1. type \in AllTypes /\ text \in Content /\ n \in Name /\ op \in Ops /\ op # "ARITH" /\ "handler" \in Whys("find")
    BY GivenIsName, WhyAt DEF Content, Ops, AllTypes
  <2>2. rest[Main] \in Seq(OwnKey) /\ rest' = [rest EXCEPT ![Main] = rest[Main]]
    BY <1>0, <1>2, ShapeOf
  <2>3. ASSUME NEW b, b \in BOOLEAN, Begin(Main, "find", "handler", op, n, type, b, text)
        PROVE  Stepped(Main) /\ Typed
    BY <1>0, <2>1, <2>2, <2>3, BeginStep
  <2> QED
    BY <1>2, <2>3
<1>3. ASSUME NEW n \in Given, (\E b \in BOOLEAN : Timer(n, b)) \/ AddTimer(n) \/ SendEvent(n)
      PROVE  Stepped(Main) /\ Typed
  BY <1>2, <1>3 DEF Timer, AddTimer, SendEvent
<1>4. ASSUME NEW n \in Given, Arithmetic(n)
      PROVE  Stepped(Main) /\ Typed
  <2>1. /\ "number" \in AllTypes /\ "" \in Content /\ "0" \in Content /\ n \in Name /\ "ARITH" \in Ops
        /\ "handler" \in Whys("find") /\ Canonical("number", "0")
    BY GivenIsName, WhyAt DEF Content, Ops, AllTypes, Canonical, Numerals
  <2>2. PICK v \in OwnKey : v = UnderName(Variable(n, "number", FALSE, "0", ""))
    BY <2>1, VariableIsSound
  <2>3. <<v>> \in Seq(OwnKey) /\ <<v>> # <<>>
    OBVIOUS
  <2>4. Begin(Main, "find", "handler", "ARITH", n, "number", FALSE, "") /\ rest' = [rest EXCEPT ![Main] = <<v>>]
    BY <1>4, <2>2 DEF Arithmetic
  <2> QED
    BY <1>0, <2>1, <2>3, <2>4, BeginStep
<1>5. ASSUME NEW n \in Given, NEW type \in GivenTypes, NEW pers \in BOOLEAN, StoreVariable(n, type, pers)
      PROVE  Stepped(Main) /\ Typed
  <2>1. type \in AllTypes /\ "" \in Content /\ "whole" \in Content /\ n \in Name
    BY GivenIsName DEF Content, GivenTypes
  <2>2. PICK w \in Content : w = Converted(type, "whole", Initial(type)) /\ Canonical(type, w)
    BY <2>1, InitialIsCanonical, ConvertedIsCanonical
  <2>3. PICK v \in OwnKey : v = UnderName(Variable(n, type, pers, w, ""))
    BY <2>1, <2>2, VariableIsSound
  <2>4. <<v>> \in Seq(OwnKey)
    OBVIOUS
  <2>5. Begins(Main) /\ rest' = [rest EXCEPT ![Main] = <<v>>] /\ UNCHANGED <<memory, pc, disk>>
    BY <1>5, <2>2, <2>3 DEF StoreVariable
  <2> QED
    BY <1>0, <2>4, <2>5, RestStep
<1> QED
  BY <1>1, <1>3, <1>4, <1>5 DEF MainThread

(* Every step but a restart is one actor's.                                *)
LEMMA StepTyped ==
  ASSUME Shape, Next, ~Restart
  PROVE  Typed /\ \E a \in Actors : Stepped(a)
<1>1. ASSUME NEW s \in Sessions, Command(s) PROVE Typed /\ Stepped(s) /\ s \in Actors
  BY <1>1, CommandStep DEF Actors
<1>2. ASSUME NEW a \in Actors, Inside(a) PROVE Typed /\ Stepped(a)
  BY <1>2, InsideStep DEF Typed, Shape
<1>3. CASE MainThread
  BY <1>3, MainStep DEF Actors
<1> QED
  BY <1>1, <1>2, <1>3 DEF Next

LEMMA RestartIs ==
  ASSUME Shape, Restart
  PROVE  /\ obj' = <<>> /\ DOMAIN hash' = {} /\ list' = <<>> /\ boot' = "loading"
         /\ \A k : Lookup(k)' = 0
         /\ \A a \in Actors : /\ pc'[a] = Idle
                              /\ a # Main => rest'[a] = <<>>
         /\ pc' \in [Actors -> Place] /\ rest' \in [Actors -> Seq(OwnKey)]
         /\ rest'[Main] \in Parsed /\ file' = file
<1>1. PICK rows \in Parsed : rest' = [a \in Actors |-> IF a = Main THEN rows ELSE <<>>]
  BY DEF Restart
<1>2. rows \in Seq(OwnKey) /\ <<>> \in Seq(OwnKey)
  BY ParsedIsOwn
<1>3. pc' \in [Actors -> Place] /\ \A a \in Actors : pc'[a] = Idle
  BY IdlePlace DEF Restart
<1>4. DOMAIN hash' = {}
  BY DEF Restart
<1>5. \A k : Lookup(k)' = 0
  BY <1>4 DEF Lookup
<1>6. Main \in Actors
  BY DEF Actors
<1> QED
  BY <1>1, <1>2, <1>3, <1>4, <1>5, <1>6 DEF Restart

LEMMA ShapeInit == ASSUME Init PROVE Shape
<1>1. \A a \in Actors : pc[a] = Idle /\ rest[a] = <<>>
  BY DEF Init
<1>2. Len(obj) = 0
  BY DEF Init
<1> QED
  BY <1>1, <1>2, IdlePlace DEF Init, Shape

LEMMA RacedType ==
  ASSUME Shape, Next, pc' \in [Actors -> Place]
  PROVE  raced' \subseteq Name
<1>1. \A a \in Actors : Touched(a)' \subseteq Name
  BY PlaceOf DEF Touched
<1>2. Contested' \subseteq Name
  BY <1>1 DEF Contested
<1> QED
  BY <1>2 DEF Next, Shape

LEMMA ShapeStep == ASSUME Shape, [Next]_vars PROVE Shape'
<1>1. CASE UNCHANGED vars
  BY <1>1 DEF vars, memory, disk, Shape, Id
<1>2. CASE Next /\ ~Restart
  <2>1. Typed
    BY <1>2, StepTyped
  <2>2. PICK a \in Actors : Stepped(a)
    BY <1>2, StepTyped
  <2>3. PICK x, y : Goal(a, x, y)
    BY <2>2 DEF Stepped
  <2>4. pc' \in [Actors -> Place] /\ rest' \in [Actors -> Seq(OwnKey)]
    BY <2>3 DEF Goal, Shape
  <2>5. ASSUME NEW b \in Actors PROVE pc'[b].held <= Len(obj') /\ Placed(pc'[b], rest'[b])
    <3>1. CASE b = a
      BY <2>3, <3>1 DEF Goal, Shape
    <3>2. CASE b # a
      <4>1. pc'[b] = pc[b] /\ rest'[b] = rest[b]
        BY <2>3, <3>2 DEF Goal, Shape
      <4>2. pc[b].held \in Nat /\ pc[b].held <= Len(obj) /\ Placed(pc[b], rest[b]) /\ Len(obj) \in Nat
        BY ShapeOf, PlaceOf
      <4>3. Len(obj) <= Len(obj') /\ Len(obj') \in Nat
        BY <2>1 DEF Typed, TablesTyped
      <4> QED
        BY <4>1, <4>2, <4>3
    <3> QED
      BY <3>1, <3>2
  <2>6. raced' \subseteq Name
    BY <1>2, <2>4, RacedType
  <2> QED
    BY <2>1, <2>4, <2>5, <2>6 DEF Typed, TablesTyped, DiskTyped, Shape
<1>3. CASE Next /\ Restart
  <2>1. raced' \subseteq Name
    BY <1>3, RestartIs, RacedType
  <2>2. /\ out' \in [Actors -> Seq(SoundRow)]
        /\ file' \in [state: {"absent", "partial", "mixed", "whole"}, rows: Seq(SoundRow)]
    BY <1>3 DEF Restart, Shape
  <2>3. \A a \in Actors : pc'[a].held <= Len(obj') /\ Placed(pc'[a], rest'[a])
    BY <1>3, RestartIs, IdlePlace
  <2>4. /\ obj' \in Seq(Sound) /\ list' \in Seq(Id') /\ DOMAIN hash' \subseteq Name
        /\ hash' \in [DOMAIN hash' -> Id' \cup {0}]
    BY <1>3 DEF Restart
  <2> QED
    BY <1>3, <2>1, <2>2, <2>3, <2>4, RestartIs DEF Shape
<1> QED
  BY <1>1, <1>2, <1>3

(* Between any two calls every table, place, row and list has its type, and*)
(* each place in a call has what the calls before it made certain.         *)
THEOREM ShapeInvariant == Spec => []Shape
<1> QED
  BY ShapeInit, ShapeStep, PTL DEF Spec

(* TypeOK: the variables have their types, though an entry of the hash may *)
(* be null; a handler goes on only with a variable that exists, and put    *)
(* only with one that it has still to put.                                 *)
THEOREM TypeCorrect == Spec => []TypeOK
<1>1. ASSUME Shape PROVE TypeOK
  <2>1. obj \in Seq(Record)
    <3>1. Sound \subseteq Record
      BY DEF Sound
    <3>2. Seq(Sound) \subseteq Seq(Record)
      BY <3>1
    <3> QED
      BY <1>1, <3>2 DEF Shape
  <2>2. rest \in [Actors -> Seq(Record)]
    <3>1. OwnKey \subseteq Record
      BY DEF OwnKey, Sound
    <3>2. Seq(OwnKey) \subseteq Seq(Record)
      BY <3>1
    <3> QED
      BY <1>1, <3>2 DEF Shape
  <2>3. Seq(SoundRow) \subseteq Seq(FileRow)
    BY DEF SoundRow
  <2>4. out \in [Actors -> Seq(FileRow)]
    BY <1>1, <2>3 DEF Shape
  <2>5. file \in [state: {"absent", "partial", "mixed", "whole"}, rows: Seq(FileRow)]
    BY <1>1, <2>3 DEF Shape
  <2> QED
    BY <1>1, <2>1, <2>2, <2>4, <2>5 DEF Shape, TypeOK, Placed
<1> QED
  BY <1>1, ShapeInvariant, PTL

-----------------------------------------------------------------------------
(* A load runs before there is any session, and nothing else with it.      *)

Alone ==
  boot = "loading" =>
    /\ raced = {}
    /\ \A a \in Actors : a # Main => pc[a] = Idle /\ rest[a] = <<>>
    /\ pc[Main].why \in {"none", "put"} /\ pc[Main].op \in {"none", "PUT"}

LEMMA MainIsActor == Main \in Actors
BY DEF Actors

(* While nothing but a load runs, the steps are those of put.              *)
LEMMA LoadingStep ==
  ASSUME Shape, Alone, Next, ~Restart, boot = "loading"
  PROVE  BootDone \/ Inside(Main)
<1>1. ASSUME NEW a \in Actors, a # Main
      PROVE  pc[a].at = "idle" /\ rest[a] = <<>>
  BY <1>1, IdlePlace DEF Alone
<1>2. ASSUME NEW s \in Sessions, Command(s) PROVE FALSE
  <2>1. s \in Actors /\ s # Main
    BY VariablesAssumption DEF Actors
  <2>2. pc[s].at = "idle"
    BY <1>1, <2>1
  <2> QED
    BY <1>2, <2>2
       DEF Command, Write, Read, Reset, ReadReset, Remove, ReadRemove, Length, Handles, Begin,
           Begins, List, ListEnd, SaveBegin, Walk, WalkAstray, SaveEnd, Load, At
<1>3. ASSUME NEW a \in Actors, a # Main, Inside(a) PROVE FALSE
  BY <1>1, <1>3
     DEF Inside, Missing, Present, Get, Insert, AppendAdded, AppendPut, Set,
         SetAgain, SetNull, Take, DeleteObject, EraseEntry, Put, UseReset, UseReadReset,
         UseReadRemove, UseLength, UseTimer, UseSendEvent, UseArithmetic, Uses, At
<1>4. CASE MainThread
  BY <1>4 DEF MainThread, Timer, AddTimer, SendEvent, Arithmetic, StoreVariable, Begin, Begins
<1> QED
  BY <1>2, <1>3, <1>4 DEF Next

LEMMA PutSteps ==
  ASSUME Shape, NEW a \in Actors, Inside(a), pc[a].why \in {"none", "put"},
         pc[a].op \in {"none", "PUT"}
  PROVE  /\ \/ Missing(a) \/ Present(a) \/ Get(a) \/ Insert(a) \/ AppendPut(a)
            \/ Take(a) \/ DeleteObject(a) \/ EraseEntry(a) \/ Put(a)
         /\ pc'[a].why \in {"none", "put"} /\ pc'[a].op \in {"none", "PUT"}
         /\ boot' = boot /\ file' = file
<1> DEFINE p == pc[a]
<1>0. p \in Place /\ pc \in [Actors -> Place] /\ p.why \in Whys(p.at)
  BY ShapeOf DEF Placed
<1>1. p.at \notin {"set", "set again", "use"}
  BY <1>0, WhyAt
<1>2. p.at = "append" => ~AppendAdded(a)
  BY DEF AppendAdded
<1>3. \/ Missing(a) \/ Present(a) \/ Get(a) \/ Insert(a) \/ AppendPut(a)
      \/ Take(a) \/ DeleteObject(a) \/ EraseEntry(a) \/ Put(a)
  BY <1>1, <1>2
     DEF Inside, AppendAdded, Set, SetAgain, SetNull, UseReset, UseReadReset,
         UseReadRemove, UseLength, UseTimer, UseSendEvent, UseArithmetic, Uses, At
<1>4. boot' = boot /\ file' = file
  BY <1>3 DEF Missing, Present, Get, Insert, AppendPut, Take, DeleteObject, EraseEntry, Put, disk
<1>5. CASE Missing(a) \/ Get(a)
  <2>1. p.why = "put"
    BY <1>0, <1>5, WhyAt DEF Missing, Get, At
  <2>2. pc'[a] = [p EXCEPT !.at = "insert"] \/ pc'[a] = [p EXCEPT !.at = "take"]
    BY <1>0, <1>5, <2>1 DEF Missing, Get, FoundNone, FoundIt
  <2> QED
    BY <1>0, <1>3, <1>4, <2>2 DEF Place
<1>6. CASE Present(a) \/ Insert(a) \/ Take(a) \/ DeleteObject(a)
  <2>1. ASSUME NEW at, NEW o, Goes(a, at) \/ Holds(a, at, o)
        PROVE  pc'[a].why = p.why /\ pc'[a].op = p.op
    BY <1>0, <2>1 DEF Goes, Holds, Place
  <2>2. pc'[a].why = p.why /\ pc'[a].op = p.op
    BY <1>6, <2>1 DEF Present, Insert, Take, DeleteObject
  <2> QED
    BY <1>3, <1>4, <2>2
<1>7. CASE AppendPut(a) \/ EraseEntry(a)
  <2>1. pc'[a] = Idle \/ (pc'[a].why = p.why /\ pc'[a].op = p.op)
    <3>1. Goes(a, "insert") => pc'[a].why = p.why /\ pc'[a].op = p.op
      BY <1>0 DEF Goes, Place
    <3>2. Done(a) => pc'[a] = Idle
      BY <1>0 DEF Done
    <3> QED
      BY <1>7, <3>1, <3>2 DEF AppendPut, EraseEntry
  <2> QED
    BY <1>3, <1>4, <2>1, IdlePlace
<1>8. CASE Put(a)
  <2>1. pc'[a].why = "put" /\ pc'[a].op = "PUT"
    BY <1>0, <1>8 DEF Put, Place
  <2> QED
    BY <1>3, <1>4, <2>1
<1> QED
  BY <1>3, <1>5, <1>6, <1>7, <1>8

LEMMA StaysUp ==
  ASSUME Shape, Next, ~Restart, boot # "loading"
  PROVE  boot' # "loading"
<1>1. ASSUME NEW s \in Sessions, Command(s) PROVE boot' # "loading"
  BY <1>1
     DEF Command, Write, Read, Reset, ReadReset, Remove, ReadRemove, Length, Handles, Begin,
         Begins, List, ListEnd, SaveBegin, Walk, WalkAstray, SaveEnd, Load, Undefined
<1>2. ASSUME NEW a \in Actors, Inside(a) PROVE boot' # "loading"
  BY <1>2, InsideStep
<1>3. CASE MainThread
  BY <1>3 DEF MainThread, Timer, AddTimer, SendEvent, Arithmetic, StoreVariable, Begin, Begins,
              BootDone
<1> QED
  BY <1>1, <1>2, <1>3 DEF Next

LEMMA AloneStep == ASSUME Shape, Alone, [Next]_vars PROVE Alone'
<1>1. CASE UNCHANGED vars
  BY <1>1 DEF vars, memory, disk, Alone
<1>2. CASE Next /\ Restart
  <2>1. boot' = "loading" /\ raced' = {}
    BY <1>2 DEF Restart, Next
  <2> QED
    BY <1>2, <2>1, RestartIs, IdlePlace, MainIsActor DEF Alone
<1>3. CASE Next /\ ~Restart /\ boot = "loading"
  <2>1. CASE BootDone
    BY <2>1 DEF BootDone, Alone
  <2>2. CASE Inside(Main)
    <3>1. pc[Main].why \in {"none", "put"} /\ pc[Main].op \in {"none", "PUT"}
      BY <1>3 DEF Alone
    <3>2. pc'[Main].why \in {"none", "put"} /\ pc'[Main].op \in {"none", "PUT"}
      BY <2>2, <3>1, PutSteps, MainIsActor
    <3>3. Stepped(Main)
      BY <2>2, InsideStep, MainIsActor
    <3>4. \A a \in Actors : a # Main => pc'[a] = pc[a] /\ rest'[a] = rest[a]
      BY <3>3 DEF Stepped, Goal, Shape
    <3>5. boot' = "loading" => raced' = {}
      BY <1>3 DEF Next
    <3> QED
      BY <1>3, <3>2, <3>4, <3>5 DEF Alone
  <2> QED
    BY <1>3, <2>1, <2>2, LoadingStep
<1>4. CASE Next /\ ~Restart /\ boot # "loading"
  <2>1. boot' # "loading"
    BY <1>4, StaysUp
  <2> QED
    BY <2>1 DEF Alone
<1> QED
  BY <1>1, <1>2, <1>3, <1>4

(* Two calls that add or remove one name at once are on record.            *)
Race == \A a, b \in Actors : a # b => Touched(a) \cap Touched(b) \subseteq raced

LEMMA RaceStep == ASSUME Shape, Alone', Race, [Next]_vars PROVE Race'
<1>1. CASE UNCHANGED vars
  BY <1>1 DEF vars, Race, Touched
<1>2. CASE Next /\ boot' = "loading"
  <2>1. \A a \in Actors : a # Main => Touched(a)' = {}
    BY <1>2, IdlePlace DEF Alone, Touched
  <2> QED
    BY <2>1 DEF Race
<1>3. CASE Next /\ boot' # "loading"
  <2>1. raced' = raced \cup Contested'
    BY <1>3 DEF Next
  <2>2. ASSUME NEW a \in Actors, NEW b \in Actors, a # b, NEW k \in Touched(a)', k \in Touched(b)'
        PROVE  k \in Contested'
    BY <2>2 DEF Contested
  <2> QED
    BY <2>1, <2>2 DEF Race
<1> QED
  BY <1>1, <1>2, <1>3

-----------------------------------------------------------------------------
(* What the calls that enter and take out do to the tables.                *)

LEMMA InsertIs ==
  ASSUME Shape, NEW a \in Actors, Insert(a)
  PROVE  LET n == Len(obj) + 1
             x == pc[a].name
         IN  /\ pc[a].at = "insert" /\ pc'[a].at = "append" /\ pc'[a].held = n
             /\ pc'[a].name = x /\ pc'[a].why = pc[a].why
             /\ list' = list /\ Len(obj') = n /\ n \notin Id
             /\ \A o \in Id : obj'[o] = obj[o]
             /\ obj'[n] = New(a) /\ New(a).key = x
             /\ \A k : Lookup(k)' = IF k = x THEN n ELSE Lookup(k)
<1>1. pc[a].at = "insert" /\ pc[a] \in Place /\ pc \in [Actors -> Place] /\ Len(obj) \in Nat
      /\ obj \in Seq(Sound)
  BY ShapeOf DEF Insert, At, Shape
<1>2. New(a) \in Sound /\ New(a).key = pc[a].name
  BY <1>1, NewIsSound
<1>3. PICK n \in Nat : n = Len(obj) + 1
  BY <1>1
<1>4. n \notin Id
  BY <1>1, <1>3 DEF Id
<1>5. Len(obj') = n /\ obj'[n] = New(a) /\ \A o \in Id : obj'[o] = obj[o]
  <2>1. obj' = Append(obj, New(a))
    BY DEF Insert
  <2> QED
    BY <1>1, <1>2, <1>3, <2>1, AppendProperties DEF Id
<1>6. hash' = Enter(hash, pc[a].name, n) /\ list' = list
  BY <1>3 DEF Insert
<1>7. \A k : Lookup(k)' = IF k = pc[a].name THEN n ELSE Lookup(k)
  BY <1>6 DEF Lookup, Enter
<1>8. pc'[a].at = "append" /\ pc'[a].held = n /\ pc'[a].name = pc[a].name /\ pc'[a].why = pc[a].why
  BY <1>1, <1>3 DEF Insert, Holds, Place
<1> QED
  BY <1>1, <1>2, <1>3, <1>4, <1>5, <1>6, <1>7, <1>8

LEMMA AppendIs ==
  ASSUME Shape, NEW a \in Actors, AppendAdded(a) \/ AppendPut(a)
  PROVE  /\ pc[a].at = "append" /\ pc[a].held \in Id
         /\ pc'[a].at \in {"idle", "find"} /\ pc'[a].why \in {"none", "again"}
         /\ obj' = obj /\ hash' = hash /\ \A k : Lookup(k)' = Lookup(k)
         /\ Len(list) \in Nat /\ Len(list') = Len(list) + 1 /\ list'[Len(list) + 1] = pc[a].held
         /\ \A i \in 1..Len(list) : list'[i] = list[i]
<1>1. /\ pc[a].at = "append" /\ pc[a] \in Place /\ pc \in [Actors -> Place]
      /\ list \in Seq(Id) /\ Placed(pc[a], rest[a]) /\ pc[a].held <= Len(obj)
  BY ShapeOf DEF AppendAdded, AppendPut, At, Shape
<1>2. pc[a].held \in Id
  BY <1>1, IdIsNat, PlaceOf DEF Placed
<1>3. list' = Append(list, pc[a].held) /\ UNCHANGED <<obj, hash>>
  BY DEF AppendAdded, AppendPut
<1>4. pc'[a].at \in {"idle", "find"} /\ pc'[a].why \in {"none", "again"}
  <2>1. pc'[a] = Idle \/ pc'[a] = [pc[a] EXCEPT !.at = "find", !.why = "again", !.held = 0]
    BY <1>1 DEF AppendAdded, AppendPut, Added, Done
  <2> QED
    BY <1>1, <2>1, IdlePlace DEF Place
<1>5. /\ Len(list) \in Nat /\ Len(list') = Len(list) + 1 /\ list'[Len(list) + 1] = pc[a].held
      /\ \A i \in 1..Len(list) : list'[i] = list[i]
  BY <1>1, <1>2, <1>3, AppendProperties
<1> QED
  BY <1>1, <1>2, <1>3, <1>4, <1>5 DEF Lookup

LEMMA DeleteIs ==
  ASSUME Shape, OneEach(list), NEW a \in Actors, DeleteObject(a)
  PROVE  /\ pc[a].at = "unlist" /\ pc'[a].at = "erase"
         /\ pc'[a].name = pc[a].name /\ pc'[a].why = pc[a].why
         /\ obj' = obj /\ hash' = hash /\ \A k : Lookup(k)' = Lookup(k)
         /\ OneEach(list') /\ list' \in Seq(Id)
         /\ \A i \in 1..Len(list') : \E j \in 1..Len(list) : list'[i] = list[j]
         /\ \A i \in 1..Len(list) : list[i] # pc[a].held => \E j \in 1..Len(list') : list'[j] = list[i]
         /\ \A i \in 1..Len(list') : list'[i] # pc[a].held
<1>1. /\ pc[a].at = "unlist" /\ pc[a] \in Place /\ pc \in [Actors -> Place] /\ list \in Seq(Id)
  BY ShapeOf DEF DeleteObject, At, Shape
<1>2. list' = Unlist(list, pc[a].held) /\ UNCHANGED <<obj, hash>>
  BY DEF DeleteObject
<1>3. pc'[a].at = "erase" /\ pc'[a].name = pc[a].name /\ pc'[a].why = pc[a].why
  BY <1>1 DEF DeleteObject, Holds, Place
<1>4. \A k : Lookup(k)' = Lookup(k)
  BY <1>2 DEF Lookup
<1>5. PICK S : S = Id
  OBVIOUS
<1>6. PICK l \in Seq(S) : l = list
  BY <1>1, <1>5
<1>7. PICK o : o = pc[a].held
  OBVIOUS
<1>8. OneEach(l)
  BY <1>6
<1>9. /\ Unlist(l, o) \in Seq(S) /\ OneEach(Unlist(l, o))
      /\ \A i \in 1..Len(Unlist(l, o)) : \E j \in 1..Len(l) : Unlist(l, o)[i] = l[j]
      /\ \A i \in 1..Len(l) : l[i] # o => \E j \in 1..Len(Unlist(l, o)) : Unlist(l, o)[j] = l[i]
      /\ \A i \in 1..Len(Unlist(l, o)) : Unlist(l, o)[i] # o
  BY <1>8, UnlistList
<1>10. list' = Unlist(l, o)
  BY <1>2, <1>6, <1>7
<1> QED
  BY <1>1, <1>2, <1>3, <1>4, <1>5, <1>6, <1>7, <1>9, <1>10 DEF OneEach

LEMMA EraseIs ==
  ASSUME Shape, NEW a \in Actors, EraseEntry(a)
  PROVE  /\ pc[a].at = "erase" /\ pc'[a].at \in {"insert", "idle"}
         /\ pc'[a].at = "insert" => pc'[a].name = pc[a].name
         /\ pc'[a].at = "idle" => pc'[a] = Idle
         /\ pc[a].why = "put" <=> pc'[a].at = "insert"
         /\ UNCHANGED <<obj, list>>
         /\ \A k : Lookup(k)' = IF k = pc[a].name THEN 0 ELSE Lookup(k)
<1>1. pc[a].at = "erase" /\ pc[a] \in Place /\ pc \in [Actors -> Place]
  BY ShapeOf DEF EraseEntry, At
<1>2. hash' = Erase(hash, pc[a].name) /\ UNCHANGED <<obj, list>>
  BY DEF EraseEntry
<1>3. \A k : Lookup(k)' = IF k = pc[a].name THEN 0 ELSE Lookup(k)
  BY <1>2 DEF Lookup, Erase
<1>4. CASE pc[a].why = "put"
  <2>1. pc'[a] = [pc[a] EXCEPT !.at = "insert"]
    BY <1>1, <1>4 DEF EraseEntry, Goes
  <2> QED
    BY <1>1, <1>2, <1>3, <1>4, <2>1 DEF Place
<1>5. CASE pc[a].why # "put"
  <2>1. pc'[a] = Idle
    BY <1>1, <1>5 DEF EraseEntry, Done
  <2> QED
    BY <1>1, <1>2, <1>3, <1>5, <2>1, IdlePlace
<1> QED
  BY <1>4, <1>5

-----------------------------------------------------------------------------
(* The keys of the two tables: a name leads only to what was entered under *)
(* it, what is about to be appended is not yet in the list, and nothing is *)
(* there twice.                                                            *)

Tables ==
  /\ OneEach(list)
  /\ \A k : Lookup(k) # 0 => obj[Lookup(k)].key = k
  /\ \A a \in Actors : pc[a].at = "unlist" /\ pc[a].held # 0 => obj[pc[a].held].key = pc[a].name
  /\ \A a \in Actors : pc[a].at = "append" => /\ obj[pc[a].held].key = pc[a].name
                                              /\ ~Listed(pc[a].held)
  /\ \A a, b \in Actors :
       pc[a].at = "append" /\ pc[b].at = "append" /\ pc[a].held = pc[b].held => a = b

(* What can be found is listed, or being appended or erased.               *)
Entries ==
  \A k : Lookup(k) # 0 =>
    \/ Listed(Lookup(k))
    \/ \E a \in Actors : \/ pc[a].at = "append" /\ pc[a].held = Lookup(k)
                         \/ pc[a].at = "erase" /\ pc[a].name = k

LEMMA HeldIsId ==
  ASSUME Shape
  PROVE  /\ \A a \in Actors : pc[a].held # 0 => pc[a].held \in Id
         /\ \A a \in Actors : pc[a].at = "append" => pc[a].held \in Id
         /\ \A k : Lookup(k) # 0 => Lookup(k) \in Id
         /\ \A o : Listed(o) => o \in Id
<1>1. ASSUME NEW a \in Actors
      PROVE  pc[a].held \in Nat /\ pc[a].held <= Len(obj) /\ (pc[a].at = "append" => pc[a].held # 0)
  BY ShapeOf, PlaceOf DEF Placed
<1>2. \A a \in Actors : pc[a].held # 0 => pc[a].held \in Id
  BY <1>1, IdIsNat
<1>3. \A k : Lookup(k) # 0 => Lookup(k) \in Id
  BY LookupInRange
<1>4. \A o : Listed(o) => o \in Id
  BY WalkPlaces
<1> QED
  BY <1>1, <1>2, <1>3, <1>4

LEMMA TablesMoves ==
  ASSUME Shape, Tables, Entries, NEW a \in Actors, NEW x, Moves(a, x),
         pc' = [pc EXCEPT ![a] = x]
  PROVE  Tables' /\ Entries'
<1>1. /\ list' = list /\ \A k : Lookup(k)' = Lookup(k)
      /\ \A o \in Id : obj'[o].key = obj[o].key
      /\ \A o : Listed(o)' <=> Listed(o)
  BY DEF Moves, Keeps, Listed
<1>2. /\ pc'[a] = x /\ x.at \notin {"append", "erase"}
      /\ \A b \in Actors : b # a => pc'[b] = pc[b]
      /\ pc[a].at \notin {"append", "erase"}
  BY ShapeOf DEF Moves
<1>3. OneEach(list')
  BY <1>1 DEF Tables
<1>4. \A k : Lookup(k)' # 0 => obj'[Lookup(k)'].key = k
  BY <1>1, HeldIsId DEF Tables
<1>5. ASSUME NEW b \in Actors, pc'[b].at = "unlist", pc'[b].held # 0
      PROVE  obj'[pc'[b].held].key = pc'[b].name
  <2>1. CASE b = a
    <3>1. x.held = Lookup(x.name) /\ x.held # 0
      BY <1>2, <1>5, <2>1 DEF Moves
    <3> QED
      BY <1>1, <1>2, <1>4, <2>1, <3>1
  <2>2. CASE b # a
    BY <1>1, <1>2, <1>5, <2>2, HeldIsId DEF Tables
  <2> QED
    BY <2>1, <2>2
<1>6. ASSUME NEW b \in Actors, pc'[b].at = "append"
      PROVE  b # a /\ pc'[b] = pc[b] /\ obj'[pc'[b].held].key = pc'[b].name /\ ~(\E i \in 1..Len(list') : list'[i] = pc'[b].held)
  <2>1. b # a /\ pc'[b] = pc[b]
    BY <1>2, <1>6
  <2>2. pc[b].held \in Id /\ obj[pc[b].held].key = pc[b].name /\ ~Listed(pc[b].held)
    BY <1>6, <2>1, HeldIsId DEF Tables
  <2> QED
    BY <1>1, <2>1, <2>2 DEF Listed
<1>7. ASSUME NEW b \in Actors, NEW c \in Actors, pc'[b].at = "append", pc'[c].at = "append",
             pc'[b].held = pc'[c].held
      PROVE  b = c
  <2>1. pc'[b] = pc[b] /\ pc'[c] = pc[c]
    BY <1>6, <1>7
  <2> QED
    BY <1>7, <2>1 DEF Tables
<1>8. Tables'
  BY <1>3, <1>4, <1>5, <1>6, <1>7 DEF Tables, Listed, OneEach
<1>9. ASSUME NEW k, Lookup(k)' # 0
      PROVE  \/ Listed(Lookup(k))'
             \/ \E b \in Actors : \/ pc'[b].at = "append" /\ pc'[b].held = Lookup(k)'
                                  \/ pc'[b].at = "erase" /\ pc'[b].name = k
  BY <1>1, <1>2, <1>9 DEF Entries, Listed
<1> QED
  BY <1>8, <1>9 DEF Entries

LEMMA TablesInsert ==
  ASSUME Shape, Tables, Entries, NEW a \in Actors, Insert(a),
         \A b \in Actors : b # a => pc'[b] = pc[b]
  PROVE  Tables' /\ Entries'
<1> DEFINE m == pc[a].name
<1>0. PICK n : n = Len(obj) + 1
  OBVIOUS
<1>1. /\ list' = list /\ n \notin Id /\ \A o \in Id : obj'[o] = obj[o]
      /\ obj'[n].key = m /\ \A k : Lookup(k)' = IF k = m THEN n ELSE Lookup(k)
      /\ pc[a].at = "insert" /\ pc'[a].at = "append" /\ pc'[a].held = n /\ pc'[a].name = m
  BY <1>0, InsertIs
<1>2. \A o : Listed(o)' <=> Listed(o)
  BY <1>1 DEF Listed
<1>3. OneEach(list')
  BY <1>1 DEF Tables
<1>4. ASSUME NEW k, Lookup(k)' # 0 PROVE obj'[Lookup(k)'].key = k
  <2>1. k # m => Lookup(k) \in Id /\ obj[Lookup(k)].key = k
    BY <1>1, <1>4, HeldIsId DEF Tables
  <2> QED
    BY <1>1, <2>1
<1>5. ASSUME NEW b \in Actors, pc'[b].at = "unlist", pc'[b].held # 0
      PROVE  obj'[pc'[b].held].key = pc'[b].name
  <2>1. b # a /\ pc'[b] = pc[b]
    BY <1>1, <1>5
  <2>2. pc[b].held \in Id /\ obj[pc[b].held].key = pc[b].name
    BY <1>5, <2>1, HeldIsId DEF Tables
  <2> QED
    BY <1>1, <2>1, <2>2
<1>6. ASSUME NEW b \in Actors, pc'[b].at = "append"
      PROVE  /\ obj'[pc'[b].held].key = pc'[b].name /\ ~(\E i \in 1..Len(list') : list'[i] = pc'[b].held)
             /\ b # a => pc'[b].held \in Id /\ pc'[b] = pc[b]
  <2>1. b # a => /\ pc'[b] = pc[b] /\ pc[b].held \in Id /\ obj[pc[b].held].key = pc[b].name
                 /\ ~Listed(pc[b].held)
    BY <1>6, HeldIsId DEF Tables
  <2>2. ~Listed(n)
    BY <1>1, HeldIsId
  <2> QED
    BY <1>1, <2>1, <2>2 DEF Listed
<1>7. ASSUME NEW b \in Actors, NEW c \in Actors, pc'[b].at = "append", pc'[c].at = "append",
             pc'[b].held = pc'[c].held
      PROVE  b = c
  <2>1. \A d \in Actors : d # a /\ pc'[d].at = "append" => pc'[d].held \in Id /\ pc'[d] = pc[d]
    BY <1>6
  <2>2. CASE b # a /\ c # a
    BY <1>7, <2>1, <2>2 DEF Tables
  <2>3. CASE b = a \/ c = a
    BY <1>1, <1>7, <2>1, <2>3
  <2> QED
    BY <2>2, <2>3
<1>8. Tables'
  BY <1>3, <1>4, <1>5, <1>6, <1>7 DEF Tables, Listed, OneEach
<1>9. ASSUME NEW k, Lookup(k)' # 0
      PROVE  \/ Listed(Lookup(k))'
             \/ \E b \in Actors : \/ pc'[b].at = "append" /\ pc'[b].held = Lookup(k)'
                                  \/ pc'[b].at = "erase" /\ pc'[b].name = k
  <2>1. CASE k = m
    BY <1>1, <2>1
  <2>2. CASE k # m
    BY <1>1, <1>9, <2>2 DEF Entries, Listed
  <2> QED
    BY <2>1, <2>2
<1> QED
  BY <1>8, <1>9 DEF Entries

LEMMA TablesAppend ==
  ASSUME Shape, Tables, Entries, NEW a \in Actors, AppendAdded(a) \/ AppendPut(a),
         \A b \in Actors : b # a => pc'[b] = pc[b]
  PROVE  Tables' /\ Entries'
<1>0. PICK o : o = pc[a].held
  OBVIOUS
<1>1. /\ obj' = obj /\ \A k : Lookup(k)' = Lookup(k)
      /\ Len(list) \in Nat /\ Len(list') = Len(list) + 1 /\ list'[Len(list) + 1] = o
      /\ \A i \in 1..Len(list) : list'[i] = list[i]
      /\ pc[a].at = "append" /\ pc'[a].at \in {"idle", "find"} /\ o \in Id /\ ~Listed(o)
  BY <1>0, AppendIs DEF Tables
<1>2. \A p : (\E i \in 1..Len(list') : list'[i] = p) <=> Listed(p) \/ p = o
  BY <1>1 DEF Listed
<1>3. OneEach(list')
  <2>1. \A i, j \in 1..Len(list) : list[i] = list[j] => i = j
    BY DEF Tables, OneEach
  <2>2. \A i \in 1..Len(list') : i \in 1..Len(list) \/ i = Len(list) + 1
    BY <1>1
  <2> QED
    BY <1>1, <2>1, <2>2 DEF OneEach, Listed
<1>4. \A k : Lookup(k)' # 0 => obj'[Lookup(k)'].key = k
  BY <1>1 DEF Tables
<1>5. \A b \in Actors : pc'[b].at = "unlist" /\ pc'[b].held # 0 => obj'[pc'[b].held].key = pc'[b].name
  BY <1>1 DEF Tables
<1>6. ASSUME NEW b \in Actors, pc'[b].at = "append"
      PROVE  /\ obj'[pc'[b].held].key = pc'[b].name /\ ~(\E i \in 1..Len(list') : list'[i] = pc'[b].held)
             /\ pc'[b] = pc[b]
  <2>1. b # a /\ pc'[b] = pc[b]
    BY <1>1, <1>6
  <2>2. obj[pc[b].held].key = pc[b].name /\ ~Listed(pc[b].held) /\ pc[b].held # o
    BY <1>0, <1>1, <1>6, <2>1 DEF Tables
  <2> QED
    BY <1>1, <1>2, <2>1, <2>2
<1>7. ASSUME NEW b \in Actors, NEW c \in Actors, pc'[b].at = "append", pc'[c].at = "append",
             pc'[b].held = pc'[c].held
      PROVE  b = c
  <2>1. pc'[b] = pc[b] /\ pc'[c] = pc[c]
    BY <1>6, <1>7
  <2> QED
    BY <1>7, <2>1 DEF Tables
<1>8. Tables'
  BY <1>3, <1>4, <1>5, <1>6, <1>7 DEF Tables, Listed, OneEach
<1>9. ASSUME NEW k, Lookup(k)' # 0
      PROVE  \/ \E i \in 1..Len(list') : list'[i] = Lookup(k)'
             \/ \E b \in Actors : \/ pc'[b].at = "append" /\ pc'[b].held = Lookup(k)'
                                  \/ pc'[b].at = "erase" /\ pc'[b].name = k
  BY <1>0, <1>1, <1>2, <1>9 DEF Entries
<1> QED
  BY <1>8, <1>9 DEF Entries, Listed

LEMMA TablesDelete ==
  ASSUME Shape, Tables, Entries, NEW a \in Actors, DeleteObject(a),
         \A b \in Actors : b # a => pc'[b] = pc[b]
  PROVE  Tables' /\ Entries'
<1>0. PICK o : o = pc[a].held
  OBVIOUS
<1>1. /\ pc[a].at = "unlist" /\ pc'[a].at = "erase" /\ pc'[a].name = pc[a].name
      /\ obj' = obj /\ \A k : Lookup(k)' = Lookup(k)
      /\ OneEach(list')
      /\ \A i \in 1..Len(list') : \E j \in 1..Len(list) : list'[i] = list[j]
      /\ \A i \in 1..Len(list) : list[i] # o => \E j \in 1..Len(list') : list'[j] = list[i]
  BY <1>0, DeleteIs DEF Tables
<1>2. /\ \A p : (\E i \in 1..Len(list') : list'[i] = p) => Listed(p)
      /\ \A p : Listed(p) /\ p # o => \E i \in 1..Len(list') : list'[i] = p
  BY <1>1 DEF Listed
<1>3. \A k : Lookup(k)' # 0 => obj'[Lookup(k)'].key = k
  BY <1>1 DEF Tables
<1>4. \A b \in Actors : pc'[b].at = "unlist" /\ pc'[b].held # 0 => obj'[pc'[b].held].key = pc'[b].name
  BY <1>1 DEF Tables
<1>5. ASSUME NEW b \in Actors, pc'[b].at = "append"
      PROVE  /\ obj'[pc'[b].held].key = pc'[b].name /\ ~(\E i \in 1..Len(list') : list'[i] = pc'[b].held)
             /\ pc'[b] = pc[b]
  <2>1. b # a /\ pc'[b] = pc[b]
    BY <1>1, <1>5
  <2>2. obj[pc[b].held].key = pc[b].name /\ ~Listed(pc[b].held)
    BY <1>5, <2>1 DEF Tables
  <2> QED
    BY <1>1, <1>2, <2>1, <2>2
<1>6. ASSUME NEW b \in Actors, NEW c \in Actors, pc'[b].at = "append", pc'[c].at = "append",
             pc'[b].held = pc'[c].held
      PROVE  b = c
  <2>1. pc'[b] = pc[b] /\ pc'[c] = pc[c]
    BY <1>5, <1>6
  <2> QED
    BY <1>6, <2>1 DEF Tables
<1>7. Tables'
  BY <1>1, <1>3, <1>4, <1>5, <1>6 DEF Tables, Listed, OneEach
<1>8. ASSUME NEW k, Lookup(k)' # 0
      PROVE  \/ \E i \in 1..Len(list') : list'[i] = Lookup(k)'
             \/ \E b \in Actors : \/ pc'[b].at = "append" /\ pc'[b].held = Lookup(k)'
                                  \/ pc'[b].at = "erase" /\ pc'[b].name = k
  <2>1. CASE Lookup(k) = o
    <3>1. k = pc[a].name
      BY <1>0, <1>1, <1>8, <2>1 DEF Tables
    <3> QED
      BY <1>1, <3>1
  <2>2. CASE Lookup(k) # o
    BY <1>1, <1>2, <1>8, <2>2 DEF Entries
  <2> QED
    BY <2>1, <2>2
<1> QED
  BY <1>7, <1>8 DEF Entries, Listed

LEMMA TablesErase ==
  ASSUME Shape, Tables, Entries, NEW a \in Actors, EraseEntry(a),
         \A b \in Actors : b # a => pc'[b] = pc[b]
  PROVE  Tables' /\ Entries'
<1>1. /\ pc[a].at = "erase" /\ pc'[a].at \in {"insert", "idle"} /\ UNCHANGED <<obj, list>>
      /\ \A k : Lookup(k)' = IF k = pc[a].name THEN 0 ELSE Lookup(k)
  BY EraseIs
<1>2. Tables'
  <2>1. \A k : Lookup(k)' # 0 => obj'[Lookup(k)'].key = k
    BY <1>1 DEF Tables
  <2>2. \A b \in Actors : pc'[b].at \in {"unlist", "append"} => pc'[b] = pc[b]
    BY <1>1
  <2> QED
    BY <1>1, <2>1, <2>2 DEF Tables, Listed, OneEach
<1>3. ASSUME NEW k, Lookup(k)' # 0
      PROVE  \/ \E i \in 1..Len(list') : list'[i] = Lookup(k)'
             \/ \E b \in Actors : \/ pc'[b].at = "append" /\ pc'[b].held = Lookup(k)'
                                  \/ pc'[b].at = "erase" /\ pc'[b].name = k
  BY <1>1, <1>3 DEF Entries, Listed
<1> QED
  BY <1>2, <1>3 DEF Entries, Listed

LEMMA TablesStep == ASSUME Shape, Tables, Entries, [Next]_vars PROVE Tables' /\ Entries'
<1>1. CASE UNCHANGED vars
  BY <1>1 DEF vars, memory, Tables, Entries, Listed, Lookup, OneEach
<1>2. CASE Next /\ Restart
  <2>1. /\ list' = <<>> /\ \A k : Lookup(k)' = 0
        /\ \A a \in Actors : pc'[a].at = "idle"
    BY <1>2, RestartIs, IdlePlace
  <2>2. OneEach(list')
    BY <2>1 DEF OneEach
  <2>3. Tables'
    BY <2>1, <2>2 DEF Tables
  <2> QED
    BY <2>1, <2>3 DEF Entries
<1>3. CASE Next /\ ~Restart
  <2>1. PICK a \in Actors : Stepped(a)
    BY <1>3, StepTyped
  <2>2. PICK x, y : Goal(a, x, y) /\ (Moves(a, x) \/ Calls(a))
    BY <2>1 DEF Stepped
  <2>3. pc' = [pc EXCEPT ![a] = x] /\ \A b \in Actors : b # a => pc'[b] = pc[b]
    BY <2>2, ShapeOf DEF Goal
  <2>4. CASE Moves(a, x)
    BY <2>3, <2>4, TablesMoves
  <2>5. CASE Calls(a)
    BY <2>3, <2>5, TablesInsert, TablesAppend, TablesDelete, TablesErase DEF Calls
  <2> QED
    BY <2>2, <2>4, <2>5
<1> QED
  BY <1>1, <1>2, <1>3

LEMMA LayersInit == ASSUME Init PROVE Tables /\ Entries /\ Alone /\ Race
<1>1. /\ list = <<>> /\ raced = {}
      /\ \A a \in Actors : pc[a] = Idle /\ rest[a] = <<>>
  BY DEF Init
<1>2. \A k : Lookup(k) = 0
  BY DEF Init, Lookup
<1>3. Tables /\ Entries
  <2>1. OneEach(list)
    BY <1>1 DEF OneEach
  <2>2. \A a \in Actors : pc[a].at = "idle"
    BY <1>1, IdlePlace
  <2>3. Tables
    BY <1>2, <2>1, <2>2 DEF Tables
  <2> QED
    BY <1>2, <2>3 DEF Entries
<1>4. Alone
  BY <1>1, IdlePlace, MainIsActor DEF Alone
<1>5. Race
  BY <1>1, IdlePlace DEF Race, Touched
<1> QED
  BY <1>3, <1>4, <1>5

(* A name leads only to what was entered under it, and what it leads to is *)
(* in the list, or about to be appended or erased by a call that runs: the *)
(* inductive invariant of the two tables.                                  *)
THEOREM TablesInvariant == Spec => [](Shape /\ Tables /\ Entries)
<1> QED
  BY ShapeInit, ShapeStep, LayersInit, TablesStep, PTL DEF Spec

(* HashInList: whatever the sessions do to each other, what can be found is*)
(* in the list once, unless a call that appends or erases it still runs; no*)
(* two names lead to it, and a plain name is the name LIST shows.          *)
THEOREM HashAndListAgree == Spec => []HashInList
<1>1. ASSUME Shape, Tables, Entries PROVE HashInList
  <2>1. \A k \in DOMAIN hash : hash[k] = Lookup(k)
    BY DEF Lookup
  <2>2. \A k \in DOMAIN hash :
          hash[k] # 0 =>
            \/ Listed(hash[k])
            \/ \E a \in Actors : \/ pc[a].at = "append" /\ pc[a].held = hash[k]
                                 \/ pc[a].at = "erase" /\ pc[a].name = k
    BY <1>1, <2>1 DEF Entries
  <2>3. \A i, j \in 1..Len(list) : list[i] = list[j] => i = j
    BY <1>1 DEF Tables, OneEach
  <2>4. \A k \in DOMAIN hash : hash[k] # 0 => obj[hash[k]].key = k /\ hash[k] \in Id
    BY <1>1, <2>1, HeldIsId DEF Tables
  <2>5. \A k \in DOMAIN hash : Plain(k) /\ hash[k] # 0 => obj[hash[k]].name = k
    BY <1>1, <2>4, ObjOfId DEF Sound
  <2> QED
    BY <2>2, <2>3, <2>4, <2>5 DEF HashInList
<1> QED
  BY <1>1, TablesInvariant, PTL

-----------------------------------------------------------------------------
(* What is listed under a name that find looks for, and on which no calls  *)
(* have overlapped, is what the name leads to; one call may be about to    *)
(* change that, but it has not got far.                                    *)

Calm(k) == Stripped(k) = k /\ k \notin raced

Before(p, o) == \/ p.at \in {"find", "get", "set", "set again", "take"}
                \/ p.at = "unlist" /\ p.held = o

Led ==
  \A k : Calm(k) =>
    /\ \A i \in 1..Len(list) :
         obj[list[i]].key = k => /\ Lookup(k) = list[i]
                                 /\ \A a \in Actors : k \in Touched(a) => Before(pc[a], list[i])
    /\ \A a \in Actors : pc[a].at = "append" /\ pc[a].name = k => Lookup(k) = pc[a].held

LEMMA RacedGrows ==
  ASSUME Shape, Alone, Next, ~Restart
  PROVE  raced \subseteq raced'
<1>1. CASE boot = "loading"
  BY <1>1 DEF Alone
<1>2. CASE boot # "loading"
  BY <1>2, StaysUp DEF Next
<1> QED
  BY <1>1, <1>2

(* A call that enters or takes out touches its name, and so nobody else    *)
(* does if the name is calm.                                               *)
LEMMA TouchedAt ==
  ASSUME Shape, NEW a \in Actors, pc[a].at \in {"insert", "append", "unlist", "erase"}
  PROVE  Touched(a) = {pc[a].name}
<1>1. pc[a].why \in Whys(pc[a].at)
  BY ShapeOf DEF Placed
<1>2. pc[a].why \in {"add", "put", "remove"}
  BY <1>1, WhyAt
<1> QED
  BY <1>2 DEF Touched

LEMMA OnlyToucher ==
  ASSUME Shape, Race, NEW a \in Actors, NEW b \in Actors, a # b, NEW k, k \in Touched(a),
         k \in Touched(b)
  PROVE  ~Calm(k)
BY DEF Race, Calm

LEMMA ListIds ==
  ASSUME Shape
  PROVE  \A i \in 1..Len(list) : list[i] \in Id /\ list[i] # 0
<1>1. ASSUME NEW i \in 1..Len(list) PROVE list[i] \in Id
  BY HeldIsId DEF Listed
<1> QED
  BY <1>1 DEF Id

LEMMA LedMoves ==
  ASSUME Shape, Led, raced \subseteq raced', NEW a \in Actors, NEW x, NEW y, Moves(a, x), Goal(a, x, y)
  PROVE  Led'
<1>1. /\ list' = list /\ \A k : Lookup(k)' = Lookup(k)
      /\ \A o \in Id : obj'[o].key = obj[o].key
      /\ \A k : Calm(k)' => Calm(k)
  BY DEF Moves, Keeps, Calm
<1>2. /\ pc'[a] = x /\ x.at \notin {"append", "erase"} /\ x \in Place /\ x.why \in Whys(x.at)
      /\ \A b \in Actors : b # a => pc'[b] = pc[b]
  BY ShapeOf DEF Moves, Goal, Placed
<1>3. \A i \in 1..Len(list) : obj'[list[i]].key = obj[list[i]].key /\ list[i] # 0
  BY <1>1, ListIds
<1> SUFFICES ASSUME NEW k, Calm(k)'
             PROVE  /\ \A i \in 1..Len(list') :
                         obj'[list'[i]].key = k =>
                           /\ Lookup(k)' = list'[i]
                           /\ \A b \in Actors : k \in Touched(b)' => Before(pc'[b], list'[i])
                    /\ \A b \in Actors : pc'[b].at = "append" /\ pc'[b].name = k => Lookup(k)' = pc'[b].held
  BY DEF Led, Before
<1>4. Calm(k)
  BY <1>1
<1>5. ASSUME NEW i \in 1..Len(list), obj[list[i]].key = k
      PROVE  Lookup(k) = list[i] /\ \A b \in Actors : k \in Touched(b)' => Before(pc'[b], list[i])
  <2>1. Lookup(k) = list[i] /\ list[i] # 0
    BY <1>3, <1>4, <1>5 DEF Led
  <2>2. ASSUME k \in Touched(a)' PROVE Before(x, list[i])
    <3>1. x.why \in {"add", "put", "remove"} /\ x.name = k
      BY <1>2, <2>2 DEF Touched
    <3>2. x.at \in {"find", "get", "set", "set again", "insert", "take", "unlist"}
      BY <1>2, <3>1, WhyAt DEF Place
    <3>3. x.at # "insert"
      BY <1>4, <2>1, <3>1 DEF Moves, Calm
    <3>4. x.at = "unlist" => x.held = list[i]
      BY <2>1, <3>1 DEF Moves
    <3> QED
      BY <3>2, <3>3, <3>4 DEF Before
  <2>3. k \in Touched(a)' => Before(x, list[i])
    BY <2>2
  <2>4. ASSUME NEW b \in Actors, b # a, k \in Touched(b)' PROVE Before(pc'[b], list[i])
    <3>1. pc'[b] = pc[b] /\ k \in Touched(b)
      BY <1>2, <2>4 DEF Touched
    <3> QED
      BY <1>4, <1>5, <3>1 DEF Led
  <2> QED
    BY <1>2, <2>1, <2>3, <2>4
<1>6. ASSUME NEW b \in Actors, pc'[b].at = "append", pc'[b].name = k
      PROVE  Lookup(k)' = pc'[b].held
  <2>1. pc'[b] = pc[b]
    BY <1>2, <1>6
  <2> QED
    BY <1>1, <1>4, <1>6, <2>1 DEF Led
<1> QED
  BY <1>1, <1>3, <1>5, <1>6

(* What the calls do: to the list, to the names, and who touches what.     *)
LEMMA LedInsert ==
  ASSUME Shape, Led, Race, raced \subseteq raced', NEW a \in Actors, Insert(a),
         \A b \in Actors : b # a => pc'[b] = pc[b]
  PROVE  Led'
<1> DEFINE m == pc[a].name
<1>0. PICK n : n = Len(obj) + 1
  OBVIOUS
<1>1. /\ list' = list /\ n \notin Id /\ \A o \in Id : obj'[o] = obj[o]
      /\ \A k : Lookup(k)' = IF k = m THEN n ELSE Lookup(k)
      /\ pc[a].at = "insert" /\ pc'[a].at = "append" /\ pc'[a].held = n /\ pc'[a].name = m
      /\ \A k : Calm(k)' => Calm(k)
  BY <1>0, InsertIs DEF Calm
<1>2. m \in Touched(a)
  BY <1>1, TouchedAt
<1>3. \A i \in 1..Len(list) : obj'[list[i]] = obj[list[i]]
  BY <1>1, ListIds
<1> SUFFICES ASSUME NEW k, Calm(k)'
             PROVE  /\ \A i \in 1..Len(list') :
                         obj'[list'[i]].key = k =>
                           /\ Lookup(k)' = list'[i]
                           /\ \A b \in Actors : k \in Touched(b)' => Before(pc'[b], list'[i])
                    /\ \A b \in Actors : pc'[b].at = "append" /\ pc'[b].name = k => Lookup(k)' = pc'[b].held
  BY DEF Led, Before
<1>4. Calm(k)
  BY <1>1
<1>5. ASSUME NEW i \in 1..Len(list), obj[list[i]].key = k
      PROVE  Lookup(k)' = list[i] /\ \A b \in Actors : k \in Touched(b)' => Before(pc'[b], list[i])
  <2>1. k # m
    BY <1>1, <1>2, <1>4, <1>5 DEF Led, Before
  <2>2. Lookup(k)' = list[i]
    BY <1>1, <1>4, <1>5, <2>1 DEF Led
  <2>3. ASSUME NEW b \in Actors, k \in Touched(b)' PROVE Before(pc'[b], list[i])
    <3>1. b # a
      BY <1>1, <2>1, <2>3 DEF Touched
    <3>2. pc'[b] = pc[b] /\ k \in Touched(b)
      BY <2>3, <3>1 DEF Touched
    <3> QED
      BY <1>4, <1>5, <3>2 DEF Led
  <2> QED
    BY <2>2, <2>3
<1>6. ASSUME NEW b \in Actors, pc'[b].at = "append", pc'[b].name = k
      PROVE  Lookup(k)' = pc'[b].held
  <2>1. CASE b = a
    BY <1>1, <1>6, <2>1
  <2>2. CASE b # a
    <3>1. pc'[b] = pc[b] /\ k \in Touched(b)
      BY <1>6, <2>2, TouchedAt
    <3>2. k # m
      BY <1>2, <1>4, <2>2, <3>1, OnlyToucher
    <3> QED
      BY <1>1, <1>4, <1>6, <3>1, <3>2 DEF Led
  <2> QED
    BY <2>1, <2>2
<1> QED
  BY <1>1, <1>3, <1>5, <1>6

LEMMA LedAppend ==
  ASSUME Shape, Tables, Led, Race, raced \subseteq raced', NEW a \in Actors,
         AppendAdded(a) \/ AppendPut(a), \A b \in Actors : b # a => pc'[b] = pc[b]
  PROVE  Led'
<1> DEFINE m == pc[a].name
<1>0. PICK o : o = pc[a].held
  OBVIOUS
<1>1. /\ obj' = obj /\ \A k : Lookup(k)' = Lookup(k)
      /\ Len(list) \in Nat /\ Len(list') = Len(list) + 1 /\ list'[Len(list) + 1] = o
      /\ \A i \in 1..Len(list) : list'[i] = list[i]
      /\ pc[a].at = "append" /\ pc'[a].at \in {"idle", "find"} /\ pc'[a].why \in {"none", "again"}
      /\ obj[o].key = m
      /\ \A k : Calm(k)' => Calm(k)
  BY <1>0, AppendIs DEF Calm, Tables
<1>2. m \in Touched(a) /\ Touched(a)' = {}
  BY <1>1, TouchedAt DEF Touched
<1> SUFFICES ASSUME NEW k, Calm(k)'
             PROVE  /\ \A i \in 1..Len(list') :
                         obj'[list'[i]].key = k =>
                           /\ Lookup(k)' = list'[i]
                           /\ \A b \in Actors : k \in Touched(b)' => Before(pc'[b], list'[i])
                    /\ \A b \in Actors : pc'[b].at = "append" /\ pc'[b].name = k => Lookup(k)' = pc'[b].held
  BY DEF Led, Before
<1>4. Calm(k)
  BY <1>1
<1>5. ASSUME NEW b \in Actors, k \in Touched(b)' PROVE b # a /\ pc'[b] = pc[b] /\ k \in Touched(b)
  <2>1. b # a
    BY <1>2, <1>5
  <2> QED
    BY <1>5, <2>1 DEF Touched
<1>6. ASSUME NEW i \in 1..Len(list'), obj'[list'[i]].key = k
      PROVE  Lookup(k)' = list'[i] /\ \A b \in Actors : k \in Touched(b)' => Before(pc'[b], list'[i])
  <2>1. CASE i \in 1..Len(list)
    <3>1. list'[i] = list[i] /\ obj[list[i]].key = k
      BY <1>1, <1>6, <2>1
    <3> QED
      BY <1>1, <1>4, <1>5, <2>1, <3>1 DEF Led
  <2>2. CASE i = Len(list) + 1
    <3>1. k = m /\ list'[i] = o
      BY <1>1, <1>6, <2>2
    <3>2. Lookup(k) = o
      BY <1>0, <1>1, <1>4, <3>1 DEF Led
    <3>3. ASSUME NEW b \in Actors, k \in Touched(b)' PROVE FALSE
      BY <1>2, <1>4, <1>5, <3>1, <3>3, OnlyToucher
    <3> QED
      BY <1>1, <3>1, <3>2, <3>3
  <2>3. i \in 1..Len(list) \/ i = Len(list) + 1
    BY <1>1
  <2> QED
    BY <2>1, <2>2, <2>3
<1>7. ASSUME NEW b \in Actors, pc'[b].at = "append", pc'[b].name = k
      PROVE  Lookup(k)' = pc'[b].held
  <2>1. pc'[b] = pc[b]
    BY <1>1, <1>7
  <2> QED
    BY <1>1, <1>4, <1>7, <2>1 DEF Led
<1> QED
  BY <1>6, <1>7

LEMMA LedDelete ==
  ASSUME Shape, Tables, Led, raced \subseteq raced', NEW a \in Actors, DeleteObject(a),
         \A b \in Actors : b # a => pc'[b] = pc[b]
  PROVE  Led'
<1> DEFINE m == pc[a].name
<1>0. PICK o : o = pc[a].held
  OBVIOUS
<1>1. /\ pc[a].at = "unlist" /\ pc'[a].at = "erase" /\ pc'[a].name = m
      /\ obj' = obj /\ \A k : Lookup(k)' = Lookup(k)
      /\ \A i \in 1..Len(list') : list'[i] # o /\ \E j \in 1..Len(list) : list'[i] = list[j]
      /\ \A k : Calm(k)' => Calm(k)
  BY <1>0, DeleteIs DEF Tables, Calm
<1>2. m \in Touched(a)
  BY <1>1, TouchedAt
<1> SUFFICES ASSUME NEW k, Calm(k)'
             PROVE  /\ \A i \in 1..Len(list') :
                         obj'[list'[i]].key = k =>
                           /\ Lookup(k)' = list'[i]
                           /\ \A b \in Actors : k \in Touched(b)' => Before(pc'[b], list'[i])
                    /\ \A b \in Actors : pc'[b].at = "append" /\ pc'[b].name = k => Lookup(k)' = pc'[b].held
  BY DEF Led, Before
<1>4. Calm(k)
  BY <1>1
<1>5. ASSUME NEW i \in 1..Len(list'), obj'[list'[i]].key = k
      PROVE  Lookup(k)' = list'[i] /\ \A b \in Actors : k \in Touched(b)' => Before(pc'[b], list'[i])
  <2>1. PICK j \in 1..Len(list) : list'[i] = list[j]
    BY <1>1
  <2>2. Lookup(k) = list[j] /\ \A b \in Actors : k \in Touched(b) => Before(pc[b], list[j])
    BY <1>1, <1>4, <1>5, <2>1 DEF Led
  <2>3. k # m
    BY <1>0, <1>1, <1>2, <2>1, <2>2 DEF Before
  <2>4. ASSUME NEW b \in Actors, k \in Touched(b)' PROVE Before(pc'[b], list[j])
    <3>1. b # a
      BY <1>1, <2>3, <2>4 DEF Touched
    <3>2. pc'[b] = pc[b] /\ k \in Touched(b)
      BY <2>4, <3>1 DEF Touched
    <3> QED
      BY <2>2, <3>2
  <2> QED
    BY <1>1, <2>1, <2>2, <2>4
<1>6. ASSUME NEW b \in Actors, pc'[b].at = "append", pc'[b].name = k
      PROVE  Lookup(k)' = pc'[b].held
  <2>1. pc'[b] = pc[b]
    BY <1>1, <1>6
  <2> QED
    BY <1>1, <1>4, <1>6, <2>1 DEF Led
<1> QED
  BY <1>5, <1>6

LEMMA LedErase ==
  ASSUME Shape, Led, Race, raced \subseteq raced', NEW a \in Actors, EraseEntry(a),
         \A b \in Actors : b # a => pc'[b] = pc[b]
  PROVE  Led'
<1> DEFINE m == pc[a].name
<1>1. /\ pc[a].at = "erase" /\ pc'[a].at \in {"insert", "idle"} /\ UNCHANGED <<obj, list>>
      /\ pc'[a].at = "insert" => pc'[a].name = m
      /\ \A k : Lookup(k)' = IF k = m THEN 0 ELSE Lookup(k)
      /\ \A k : Calm(k)' => Calm(k)
  BY EraseIs DEF Calm
<1>2. m \in Touched(a)
  BY <1>1, TouchedAt
<1>3. Touched(a)' \subseteq {m}
  <2>1. pc'[a].at = "idle" => pc'[a] = Idle
    BY EraseIs
  <2> QED
    BY <1>1, <2>1, IdlePlace DEF Touched
<1> SUFFICES ASSUME NEW k, Calm(k)'
             PROVE  /\ \A i \in 1..Len(list') :
                         obj'[list'[i]].key = k =>
                           /\ Lookup(k)' = list'[i]
                           /\ \A b \in Actors : k \in Touched(b)' => Before(pc'[b], list'[i])
                    /\ \A b \in Actors : pc'[b].at = "append" /\ pc'[b].name = k => Lookup(k)' = pc'[b].held
  BY DEF Led, Before
<1>4. Calm(k)
  BY <1>1
<1>5. ASSUME NEW i \in 1..Len(list), obj[list[i]].key = k
      PROVE  Lookup(k)' = list[i] /\ \A b \in Actors : k \in Touched(b)' => Before(pc'[b], list[i])
  <2>1. k # m
    BY <1>1, <1>2, <1>4, <1>5 DEF Led, Before
  <2>2. Lookup(k)' = list[i]
    BY <1>1, <1>4, <1>5, <2>1 DEF Led
  <2>3. ASSUME NEW b \in Actors, k \in Touched(b)' PROVE Before(pc'[b], list[i])
    <3>1. b # a
      BY <1>3, <2>1, <2>3
    <3>2. pc'[b] = pc[b] /\ k \in Touched(b)
      BY <2>3, <3>1 DEF Touched
    <3> QED
      BY <1>4, <1>5, <3>2 DEF Led
  <2> QED
    BY <2>2, <2>3
<1>6. ASSUME NEW b \in Actors, pc'[b].at = "append", pc'[b].name = k
      PROVE  Lookup(k)' = pc'[b].held
  <2>1. b # a /\ pc'[b] = pc[b]
    BY <1>1, <1>6
  <2>2. k \in Touched(b)
    BY <1>6, <2>1, TouchedAt
  <2>3. k # m
    BY <1>2, <1>4, <2>1, <2>2, OnlyToucher
  <2> QED
    BY <1>1, <1>4, <1>6, <2>1, <2>3 DEF Led
<1> QED
  BY <1>1, <1>5, <1>6

LEMMA LedStep ==
  ASSUME Shape, Tables, Alone, Race, Led, [Next]_vars
  PROVE  Led'
<1>1. CASE UNCHANGED vars
  <2>1. /\ list' = list /\ obj' = obj /\ pc' = pc
        /\ \A k : Lookup(k)' = Lookup(k) /\ (Calm(k)' <=> Calm(k))
        /\ \A a \in Actors : Touched(a)' = Touched(a)
    BY <1>1 DEF vars, memory, Calm, Lookup, Touched
  <2> SUFFICES ASSUME NEW k, Calm(k)'
               PROVE  /\ \A i \in 1..Len(list') :
                           obj'[list'[i]].key = k =>
                             /\ Lookup(k)' = list'[i]
                             /\ \A b \in Actors : k \in Touched(b)' => Before(pc'[b], list'[i])
                      /\ \A b \in Actors : pc'[b].at = "append" /\ pc'[b].name = k => Lookup(k)' = pc'[b].held
    BY DEF Led, Before
  <2>2. Calm(k)
    BY <2>1
  <2> QED
    BY <2>1, <2>2 DEF Led
<1>2. CASE Next /\ Restart
  <2>1. list' = <<>> /\ \A a \in Actors : pc'[a].at = "idle"
    BY <1>2, RestartIs, IdlePlace
  <2> QED
    BY <2>1 DEF Led
<1>3. CASE Next /\ ~Restart
  <2>1. PICK a \in Actors : Stepped(a)
    BY <1>3, StepTyped
  <2>2. PICK x, y : Goal(a, x, y) /\ (Moves(a, x) \/ Calls(a))
    BY <2>1 DEF Stepped
  <2>3. \A b \in Actors : b # a => pc'[b] = pc[b]
    BY <2>2, ShapeOf DEF Goal
  <2>4. raced \subseteq raced'
    BY <1>3, RacedGrows
  <2>5. CASE Moves(a, x)
    BY <2>2, <2>4, <2>5, LedMoves
  <2>6. CASE Calls(a)
    BY <2>3, <2>4, <2>6, LedInsert, LedAppend, LedDelete, LedErase DEF Calls
  <2> QED
    BY <2>2, <2>5, <2>6
<1> QED
  BY <1>1, <1>2, <1>3

(* ListIsRead: what LIST shows READ finds, between two calls, unless it was*)
(* created under a name with a prefix or two calls were adding or removing *)
(* its name at once.                                                       *)
THEOREM ListAgrees == Spec => []ListIsRead
<1>1. ASSUME Init PROVE Led
  BY <1>1, IdlePlace DEF Led, Init
<1>2. ASSUME Shape, Led PROVE ListIsRead
  BY <1>2 DEF Led, ListIsRead, Calm
<1> DEFINE Layers == Shape /\ Tables /\ Entries /\ Alone /\ Race /\ Led
<1>3. Init => Layers
  BY <1>1, ShapeInit, LayersInit
<1>4. Layers /\ [Next]_vars => Layers'
  <2>1. ASSUME Layers, [Next]_vars PROVE Alone'
    BY <2>1, AloneStep
  <2> QED
    BY <2>1, ShapeStep, TablesStep, RaceStep, LedStep
<1> HIDE DEF Layers
<1>5. Layers => ListIsRead
  BY <1>2 DEF Layers
<1> QED
  BY <1>3, <1>4, <1>5, PTL DEF Spec

-----------------------------------------------------------------------------
(* A load puts the rows of the file one after the other: as many variables *)
(* exist as rows have been taken, and what a name leads to is never older  *)
(* than the last row of that name, unless it is just being replaced.       *)

Coming == IF Parses THEN FileVariables ELSE <<>>

LoadedSoFar ==
  boot \in {"loading", "fresh"} /\ file.state # "mixed" =>
    /\ Len(obj) + Len(rest[Main]) = Len(Coming) + (IF pc[Main].at = "append" THEN 1 ELSE 0)
    /\ \A j \in Id : obj[j] = Coming[j]
    /\ \A j \in 1..Len(rest[Main]) : rest[Main][j] = Coming[Len(Coming) - Len(rest[Main]) + j]
    /\ \A j \in Id : \/ j <= Lookup(obj[j].key)
                     \/ pc[Main].at = "insert" /\ pc[Main].name = obj[j].key

(* When it has come to its end nothing else has begun.                     *)
Quiet == boot = "fresh" => \A a \in Actors : pc[a].at = "idle" /\ rest[a] = <<>>

LEMMA ComingType == ASSUME Shape PROVE Coming \in Seq(OwnKey) /\ Len(Coming) \in Nat
<1>1. <<>> \in Seq(OwnKey) /\ Len(<<>>) \in Nat
  OBVIOUS
<1>2. CASE Parses
  <2>1. FileVariables \in Parsed
    BY <1>2 DEF Parsed
  <2>2. FileVariables \in Seq(OwnKey)
    BY <2>1, ParsedIsOwn
  <2> QED
    BY <1>2, <2>2 DEF Coming
<1> QED
  BY <1>1, <1>2 DEF Coming

(* The part of it that a step of a load has to keep.                       *)
LoadedRows(o, r, p, c) ==
  /\ Len(o) + Len(r) = Len(c) + (IF p.at = "append" THEN 1 ELSE 0)
  /\ \A j \in 1..Len(o) : o[j] = c[j]
  /\ \A j \in 1..Len(r) : r[j] = c[Len(c) - Len(r) + j]

LEMMA LoadedOf ==
  LoadedSoFar <=>
    (boot \in {"loading", "fresh"} /\ file.state # "mixed" =>
       /\ LoadedRows(obj, rest[Main], pc[Main], Coming)
       /\ \A j \in Id : \/ j <= Lookup(obj[j].key)
                        \/ pc[Main].at = "insert" /\ pc[Main].name = obj[j].key)
BY DEF LoadedSoFar, LoadedRows, Id

(* A step of put that enters nothing and takes nothing from what remains.  *)
LEMMA LoadedMoves ==
  ASSUME Shape, LoadedSoFar, boot = "loading", boot' = "loading", file' = file,
         UNCHANGED <<obj, rest>>, \A k : Lookup(k)' = Lookup(k),
         pc[Main].at \notin {"insert", "append"}, pc'[Main].at # "append"
  PROVE  LoadedSoFar'
<1>1. Coming' = Coming
  BY DEF Coming, Parses, FileVariables
<1>2. CASE file.state # "mixed"
  <2>1. /\ LoadedRows(obj, rest[Main], pc[Main], Coming)
        /\ \A j \in Id : j <= Lookup(obj[j].key)
    BY <1>2, LoadedOf
  <2>2. LoadedRows(obj, rest[Main], pc'[Main], Coming)
    BY <2>1 DEF LoadedRows
  <2> QED
    BY <1>1, <2>1, <2>2 DEF LoadedSoFar, LoadedRows, Id
<1>3. CASE file.state = "mixed"
  BY <1>3 DEF LoadedSoFar
<1> QED
  BY <1>2, <1>3

LEMMA LoadedInsert ==
  ASSUME Shape, LoadedSoFar, boot = "loading", boot' = "loading", file' = file,
         pc[Main].why = "put", Insert(Main)
  PROVE  LoadedSoFar'
<1> DEFINE m == pc[Main].name
<1>0. Main \in Actors /\ Len(obj) \in Nat /\ rest[Main] \in Seq(OwnKey) /\ Placed(pc[Main], rest[Main])
  BY MainIsActor, ShapeOf
<1>1. Coming' = Coming
  BY DEF Coming, Parses, FileVariables
<1>2. PICK n \in Nat : n = Len(obj) + 1
  BY <1>0
<1>3. /\ pc[Main].at = "insert" /\ pc'[Main].at = "append"
      /\ Len(obj') = n /\ obj'[n] = New(Main) /\ New(Main).key = m
      /\ \A o \in Id : obj'[o] = obj[o]
      /\ \A k : Lookup(k)' = IF k = m THEN n ELSE Lookup(k)
  BY <1>0, <1>2, InsertIs
<1>4. rest' = rest /\ New(Main) = Head(rest[Main]) /\ rest[Main] # <<>>
  BY <1>0 DEF Insert, New, Placed
<1>5. CASE file.state # "mixed"
  <2>1. /\ LoadedRows(obj, rest[Main], pc[Main], Coming)
        /\ \A j \in Id : j <= Lookup(obj[j].key) \/ m = obj[j].key
    BY <1>5, LoadedOf
  <2>2. PICK c \in Seq(OwnKey) : c = Coming
    BY ComingType
  <2>3. PICK r \in Seq(OwnKey) : r = rest[Main]
    BY <1>0
  <2>a. PICK lc, lr, lo \in Nat : lc = Len(c) /\ lr = Len(r) /\ lo = Len(obj)
    BY <1>0
  <2>b. 1 \in 1..Len(r) /\ Head(r) = r[1]
    BY <1>4, <2>3
  <2>c. LoadedRows(obj, r, pc[Main], c)
    BY <2>1, <2>2, <2>3
  <2>4. /\ \A j \in 1..Len(obj) : obj[j] = c[j]
        /\ \A j \in 1..Len(r) : r[j] = c[Len(c) - Len(r) + j]
    BY <2>c DEF LoadedRows
  <2>5. Len(obj) + Len(r) = Len(c) + 0
    BY <1>3, <2>c DEF LoadedRows
  <2>6. lo + lr = lc /\ n = lo + 1
    BY <1>2, <2>5, <2>a
  <2>d. lc - lr + 1 = n
    BY <2>6
  <2>7. obj'[n] = c[n]
    BY <1>3, <1>4, <2>3, <2>4, <2>a, <2>b, <2>d
  <2>8. \A j \in 1..n : j \in 1..Len(obj) \/ j = n
    BY <1>0, <1>2
  <2>9. \A j \in 1..n : obj'[j] = c[j]
    BY <1>3, <2>4, <2>7, <2>8 DEF Id
  <2>e. Len(obj') + Len(r) = Len(c) + 1
    BY <1>3, <2>6, <2>a
  <2>10. LoadedRows(obj', r, pc'[Main], c)
    BY <1>3, <2>4, <2>9, <2>e DEF LoadedRows
  <2>11. ASSUME NEW j \in 1..n, NEW k, k = obj'[j].key PROVE j <= Lookup(k)'
    <3>1. CASE k = m
      BY <1>2, <1>3, <3>1
    <3>2. CASE k # m
      <4>1. j \in Id /\ k = obj[j].key
        BY <1>3, <1>4, <2>8, <2>11, <3>2 DEF Id
      <4> QED
        BY <1>3, <2>1, <3>2, <4>1
    <3> QED
      BY <3>1, <3>2
  <2> QED
    BY <1>1, <1>3, <1>4, <2>2, <2>3, <2>10, <2>11 DEF LoadedSoFar, LoadedRows, Id
<1>6. CASE file.state = "mixed"
  BY <1>6 DEF LoadedSoFar
<1> QED
  BY <1>5, <1>6

LEMMA LoadedAppend ==
  ASSUME Shape, LoadedSoFar, boot = "loading", boot' = "loading", file' = file, AppendPut(Main)
  PROVE  LoadedSoFar'
<1>0. /\ Main \in Actors /\ Len(obj) \in Nat /\ rest[Main] \in Seq(OwnKey)
      /\ Placed(pc[Main], rest[Main])
  BY MainIsActor, ShapeOf
<1>1. Coming' = Coming
  BY DEF Coming, Parses, FileVariables
<1>2. /\ pc[Main].at = "append" /\ pc'[Main].at \in {"idle", "find"} /\ obj' = obj
      /\ \A k : Lookup(k)' = Lookup(k)
  BY <1>0, AppendIs
<1>3. rest[Main] # <<>> /\ rest'[Main] = Tail(rest[Main])
  BY <1>0, ShapeOf DEF AppendPut, Placed
<1>4. CASE file.state # "mixed"
  <2>1. /\ LoadedRows(obj, rest[Main], pc[Main], Coming)
        /\ \A j \in Id : j <= Lookup(obj[j].key)
    BY <1>2, <1>4, LoadedOf
  <2>2. PICK c \in Seq(OwnKey) : c = Coming
    BY ComingType
  <2>3. PICK r \in Seq(OwnKey) : r = rest[Main]
    BY <1>0
  <2>a. PICK lc, lr, lo \in Nat : lc = Len(c) /\ lr = Len(r) /\ lo = Len(obj)
    BY <1>0
  <2>b. Len(r) # 0 /\ Len(Tail(r)) = Len(r) - 1
    BY <1>3, <2>3
  <2>c. LoadedRows(obj, r, pc[Main], c)
    BY <2>1, <2>2, <2>3
  <2>4. /\ \A j \in 1..Len(obj) : obj[j] = c[j]
        /\ \A j \in 1..Len(r) : r[j] = c[Len(c) - Len(r) + j]
    BY <2>c DEF LoadedRows
  <2>5. lo + lr = lc + 1 /\ lr # 0 /\ Len(Tail(r)) = lr - 1
    <3>1. Len(obj) + Len(r) = Len(c) + 1
      BY <1>2, <2>c DEF LoadedRows
    <3> QED
      BY <3>1, <2>a, <2>b
  <2>d. \A j \in 1..Len(Tail(r)) : Tail(r)[j] = r[j + 1]
    BY <1>3, <2>3
  <2>6. ASSUME NEW j \in 1..Len(Tail(r)) PROVE Tail(r)[j] = c[Len(c) - Len(Tail(r)) + j]
    <3>1. j \in 1..(lr - 1)
      BY <2>5
    <3>2. j + 1 \in 1..lr /\ lc - lr + (j + 1) = lc - (lr - 1) + j
      BY <3>1
    <3>3. r[j + 1] = c[lc - lr + (j + 1)]
      BY <2>4, <2>a, <3>2
    <3> QED
      BY <2>5, <2>a, <2>d, <3>2, <3>3
  <2>7. Len(obj) + Len(Tail(r)) = Len(c) + 0
    <3>1. lo + (lr - 1) = lc + 0
      BY <2>5
    <3> QED
      BY <2>5, <2>a, <3>1
  <2>8. LoadedRows(obj, Tail(r), pc'[Main], c)
    BY <1>2, <2>4, <2>6, <2>7 DEF LoadedRows
  <2> QED
    BY <1>1, <1>2, <1>3, <2>1, <2>2, <2>3, <2>8 DEF LoadedSoFar, LoadedRows, Id
<1>5. CASE file.state = "mixed"
  BY <1>5 DEF LoadedSoFar
<1> QED
  BY <1>4, <1>5

LEMMA LoadedErase ==
  ASSUME Shape, LoadedSoFar, boot = "loading", boot' = "loading", file' = file,
         pc[Main].why = "put", EraseEntry(Main)
  PROVE  LoadedSoFar'
<1> DEFINE m == pc[Main].name
<1>1. Coming' = Coming
  BY DEF Coming, Parses, FileVariables
<1>2. /\ pc[Main].at = "erase" /\ pc'[Main].at = "insert" /\ pc'[Main].name = m /\ obj' = obj
      /\ \A k : Lookup(k)' = IF k = m THEN 0 ELSE Lookup(k)
      /\ rest' = rest
  BY MainIsActor, EraseIs DEF EraseEntry
<1>3. CASE file.state # "mixed"
  <2>1. /\ LoadedRows(obj, rest[Main], pc[Main], Coming)
        /\ \A j \in Id : j <= Lookup(obj[j].key)
    BY <1>2, <1>3, LoadedOf
  <2>2. LoadedRows(obj, rest[Main], pc'[Main], Coming)
    BY <1>2, <2>1 DEF LoadedRows
  <2>3. ASSUME NEW j \in Id, NEW k, k = obj[j].key PROVE j <= Lookup(k)' \/ m = k
    BY <1>2, <2>1, <2>3
  <2> QED
    BY <1>1, <1>2, <2>2, <2>3 DEF LoadedSoFar, LoadedRows, Id
<1>4. CASE file.state = "mixed"
  BY <1>4 DEF LoadedSoFar
<1> QED
  BY <1>3, <1>4

LEMMA LoadedDone ==
  ASSUME Shape, LoadedSoFar, BootDone
  PROVE  LoadedSoFar'
<1>1. /\ boot = "loading" /\ UNCHANGED <<obj, hash, list, pc, rest, file>>
      /\ \A a \in Actors : rest[a] = <<>> /\ pc[a].at = "idle"
  BY DEF BootDone, memory, disk
<1>2. Coming' = Coming /\ \A k : Lookup(k)' = Lookup(k)
  BY <1>1 DEF Coming, Parses, FileVariables, Lookup
<1> QED
  BY <1>1, <1>2 DEF LoadedSoFar, Id

LEMMA LoadedRestart ==
  ASSUME Shape, Restart
  PROVE  LoadedSoFar'
<1>1. /\ obj' = <<>> /\ boot' = "loading" /\ \A a \in Actors : pc'[a] = Idle
      /\ rest'[Main] \in Parsed /\ file' = file
  BY RestartIs
<1>2. Coming' = Coming
  BY <1>1 DEF Coming, Parses, FileVariables
<1>3. file.state # "mixed" => rest'[Main] = Coming
  BY <1>1 DEF Coming, Parsed, Parses, Fails
<1>4. PICK c \in Seq(OwnKey) : c = Coming
  BY ComingType
<1>5. pc'[Main].at = "idle" /\ Len(obj') = 0
  BY <1>1, MainIsActor, IdlePlace
<1>6. ASSUME file.state # "mixed" PROVE LoadedRows(obj', rest'[Main], pc'[Main], Coming)
  <2>1. LoadedRows(obj', c, pc'[Main], c)
    <3>1. PICK n \in Nat : n = Len(c)
      OBVIOUS
    <3>2. 0 + n = n + 0 /\ n - n = 0 /\ \A j \in 1..n : n - n + j = j
      OBVIOUS
    <3>3. \A j \in 1..Len(obj') : FALSE
      BY <1>5
    <3>4. \A j \in 1..Len(c) : c[j] = c[Len(c) - Len(c) + j]
      BY <3>1, <3>2
    <3>5. Len(obj') + Len(c) = Len(c) + 0
      BY <1>5, <3>1, <3>2
    <3> QED
      BY <1>5, <3>3, <3>4, <3>5 DEF LoadedRows
  <2> QED
    BY <1>3, <1>4, <1>6, <2>1
<1>7. \A j \in 1..Len(obj') : FALSE
  BY <1>5
<1>8. ASSUME file.state # "mixed"
      PROVE  /\ Len(obj') + Len(rest'[Main]) = Len(Coming) + (IF pc'[Main].at = "append" THEN 1 ELSE 0)
             /\ \A j \in 1..Len(rest'[Main]) : rest'[Main][j] = Coming[Len(Coming) - Len(rest'[Main]) + j]
  BY <1>6, <1>8 DEF LoadedRows
<1> QED
  BY <1>1, <1>2, <1>7, <1>8 DEF LoadedSoFar, Id

LEMMA FreshStep == ASSUME Shape, Quiet, Next, boot' = "fresh" PROVE BootDone
<1>1. ASSUME NEW s \in Sessions, Command(s) PROVE FALSE
  <2>1. boot' # "running"
    OBVIOUS
  <2>2. boot = "fresh" /\ pc[s].at = "walk"
    BY <1>1, <2>1
       DEF Command, Write, Read, Reset, ReadReset, Remove, ReadRemove, Length, Handles, Begin,
           Begins, List, ListEnd, SaveBegin, Walk, WalkAstray, SaveEnd, Load, Undefined, At
  <2> QED
    BY <2>2 DEF Quiet, Actors
<1>2. ASSUME NEW a \in Actors, Inside(a) PROVE FALSE
  <2>1. boot = "fresh"
    BY <1>2, InsideStep
  <2>2. pc[a].at = "idle" /\ rest[a] = <<>>
    BY <2>1 DEF Quiet
  <2> QED
    BY <1>2, <2>2
       DEF Inside, Missing, Present, Get, Insert, AppendAdded, AppendPut, Set,
           SetAgain, SetNull, Take, DeleteObject, EraseEntry, Put, UseReset, UseReadReset,
           UseReadRemove, UseLength, UseTimer, UseSendEvent, UseArithmetic, Uses, At
<1>3. CASE MainThread
  BY <1>3 DEF MainThread, Timer, AddTimer, SendEvent, Arithmetic, StoreVariable, Begin, Begins
<1>4. CASE Restart
  BY <1>4 DEF Restart
<1> QED
  BY <1>1, <1>2, <1>3, <1>4 DEF Next

LEMMA LoadedStep ==
  ASSUME Shape, Alone, Quiet, LoadedSoFar, [Next]_vars
  PROVE  LoadedSoFar'
<1>1. CASE UNCHANGED vars
  <2>1. /\ UNCHANGED <<obj, pc, rest, file, boot>> /\ Coming' = Coming
        /\ \A k : Lookup(k)' = Lookup(k)
    BY <1>1 DEF vars, memory, disk, Coming, Parses, FileVariables, Lookup
  <2> QED
    BY <2>1 DEF LoadedSoFar, Id
<1>2. CASE Next /\ Restart
  BY <1>2, LoadedRestart
<1>3. CASE Next /\ ~Restart /\ boot = "loading"
  <2>1. CASE BootDone
    BY <2>1, LoadedDone
  <2>2. CASE Inside(Main)
    <3> DEFINE p == pc[Main]
    <3>0. /\ Main \in Actors /\ p.why \in {"none", "put"} /\ p.op \in {"none", "PUT"}
          /\ p \in Place /\ pc \in [Actors -> Place] /\ p.why \in Whys(p.at)
      BY <1>3, MainIsActor, ShapeOf DEF Alone, Placed
    <3>1. /\ \/ Missing(Main) \/ Present(Main) \/ Get(Main) \/ Insert(Main) \/ AppendPut(Main)
             \/ Take(Main) \/ DeleteObject(Main) \/ EraseEntry(Main) \/ Put(Main)
          /\ boot' = "loading" /\ file' = file
      BY <1>3, <2>2, <3>0, PutSteps
    <3>2. p.at \in {"insert", "erase", "find", "get"} => p.why = "put"
      BY <3>0, WhyAt
    <3>3. CASE Insert(Main)
      BY <1>3, <3>1, <3>2, <3>3, LoadedInsert DEF Insert, At
    <3>4. CASE AppendPut(Main)
      BY <1>3, <3>1, <3>4, LoadedAppend
    <3>5. CASE EraseEntry(Main)
      BY <1>3, <3>1, <3>2, <3>5, LoadedErase DEF EraseEntry, At
    <3>6. CASE Missing(Main) \/ Present(Main) \/ Put(Main) \/ DeleteObject(Main)
      <4>1. UNCHANGED <<obj, hash, rest>>
        BY <3>6 DEF Missing, Present, Put, DeleteObject, memory
      <4>2. p.at \notin {"insert", "append"}
        BY <3>6 DEF Missing, Present, Put, DeleteObject, At
      <4>3. pc'[Main].at # "append"
        <5>1. CASE Missing(Main)
          <6>1. pc'[Main] = [p EXCEPT !.at = "insert"]
            BY <3>0, <3>2, <5>1 DEF Missing, FoundNone, At
          <6> QED
            BY <3>0, <6>1 DEF Place
        <5>2. CASE Present(Main) \/ DeleteObject(Main)
          BY <3>0, <5>2 DEF Present, DeleteObject, Goes, Holds, Place
        <5>3. CASE Put(Main)
          BY <3>0, <5>3 DEF Put, Place
        <5> QED
          BY <3>6, <5>1, <5>2, <5>3
      <4>4. \A k : Lookup(k)' = Lookup(k)
        BY <4>1 DEF Lookup
      <4> QED
        BY <1>3, <3>1, <4>1, <4>2, <4>3, <4>4, LoadedMoves
    <3>7. CASE Get(Main) \/ Take(Main)
      <4>1. UNCHANGED <<obj, rest, list>> /\ \E k \in Name : hash' = Touch(hash, k)
        BY <3>0, <3>7, PlaceOf, NameOfName DEF Get, Take
      <4>2. \A k : Lookup(k)' = Lookup(k)
        BY <4>1, KeepsTouch DEF Keeps
      <4>3. p.at \notin {"insert", "append"}
        BY <3>7 DEF Get, Take, At
      <4>4. pc'[Main].at # "append"
        <5>1. CASE Get(Main)
          <6>1. pc'[Main] = [p EXCEPT !.at = "insert"] \/ pc'[Main] = [p EXCEPT !.at = "take"]
            BY <3>0, <3>2, <5>1 DEF Get, FoundNone, FoundIt, At
          <6> QED
            BY <3>0, <6>1 DEF Place
        <5>2. CASE Take(Main)
          BY <3>0, <5>2 DEF Take, Holds, Place
        <5> QED
          BY <3>7, <5>1, <5>2
      <4> QED
        BY <1>3, <3>1, <4>1, <4>2, <4>3, <4>4, LoadedMoves
    <3> QED
      BY <3>1, <3>3, <3>4, <3>5, <3>6, <3>7
  <2> QED
    BY <1>3, <2>1, <2>2, LoadingStep
<1>4. CASE Next /\ ~Restart /\ boot # "loading"
  <2>1. boot' # "loading" /\ boot' # "fresh"
    BY <1>4, StaysUp, FreshStep DEF BootDone
  <2> QED
    BY <2>1 DEF LoadedSoFar
<1> QED
  BY <1>1, <1>2, <1>3, <1>4

LEMMA QuietStep == ASSUME Shape, Quiet, [Next]_vars PROVE Quiet'
<1>1. CASE UNCHANGED vars
  BY <1>1 DEF vars, Quiet
<1>2. CASE Next
  BY <1>2, FreshStep DEF Quiet, BootDone
<1> QED
  BY <1>1, <1>2

-----------------------------------------------------------------------------
(* What a row gives is the variable that was saved.                        *)
LEMMA LoadedIs ==
  ASSUME NEW row \in SoundRow
  PROVE  /\ Loaded(row).key = Stripped(row.name) /\ Loaded(row).type = row.type
         /\ Loaded(row).pers
         /\ row.type \in {"string", "boolean", "number"} /\ row.text # "-1" => Loaded(row).value = row.text
<1>1. /\ row.name \in Name /\ row.type \in AllTypes /\ row.text \in Content
      /\ Settled(row.name) /\ Canonical(row.type, row.text)
  BY DEF SoundRow, FileRow
<1>2. NameOf(row.name) = Stripped(row.name)
  BY <1>1, NameOfName
<1>3. Loaded(row) = [name |-> NameOf(row.name), type |-> row.type, pers |-> TRUE \/ Marked(row.name),
                     value |-> Converted(row.type, row.text, Initial(row.type)), orig |-> row.text,
                     key |-> NameOf(row.name)]
  BY DEF Loaded, Variable, UnderName
<1>a. PICK b \in BOOLEAN : b = (TRUE \/ Marked(row.name))
  OBVIOUS
<1>b. b = TRUE
  BY <1>a
<1>4. /\ Loaded(row).key = Stripped(row.name) /\ Loaded(row).type = row.type
      /\ Loaded(row).pers = TRUE /\ Loaded(row).value = Converted(row.type, row.text, Initial(row.type))
  <2>1. Loaded(row) = [name |-> NameOf(row.name), type |-> row.type, pers |-> b,
                       value |-> Converted(row.type, row.text, Initial(row.type)), orig |-> row.text,
                       key |-> NameOf(row.name)]
    BY <1>3, <1>a
  <2> QED
    BY <1>2, <1>b, <2>1
<1>5. ASSUME row.type \in {"string", "boolean", "number"}, row.text # "-1"
      PROVE  Converted(row.type, row.text, Initial(row.type)) = row.text
  <2>1. CASE row.type = "string"
    BY <2>1 DEF Converted
  <2>2. CASE row.type = "boolean"
    BY <1>1, <2>2 DEF Converted, Canonical
  <2>3. CASE row.type = "number"
    BY <1>1, <1>5, <2>3 DEF Converted, Canonical, Number
  <2> QED
    BY <1>5, <2>1, <2>2, <2>3
<1> QED
  BY <1>4, <1>5

LEMMA LoadedComesBack ==
  ASSUME Shape, Tables, Quiet, LoadedSoFar
  PROVE  SavedComesBack
<1> SUFFICES ASSUME boot = "fresh", file.state # "mixed"
             PROVE  IF Parses
                    THEN \A i \in 1..Len(file.rows) :
                           LET row == file.rows[i]
                           IN  row.type \in {"string", "boolean", "number"} /\ row.text # "-1"
                               /\ LastOfName(file.rows, i) =>
                             LET o == Lookup(Stripped(row.name))
                             IN  /\ o # 0
                                 /\ obj[o].type = row.type
                                 /\ obj[o].value = row.text
                                 /\ obj[o].pers
                    ELSE list = <<>>
  BY DEF SavedComesBack
<1>1. rest[Main] = <<>> /\ pc[Main].at = "idle"
  BY MainIsActor DEF Quiet
<1>2. Len(obj) \in Nat /\ Len(Coming) \in Nat /\ Len(rest[Main]) = 0
  BY <1>1, ComingType DEF Shape
<1>3. Len(obj) = Len(Coming) /\ \A j \in Id : obj[j] = Coming[j] /\ j <= Lookup(obj[j].key)
  BY <1>1, <1>2 DEF LoadedSoFar
<1>4. CASE ~Parses
  <2>1. Len(obj) = 0
    BY <1>3, <1>4 DEF Coming
  <2>2. Len(list) \in Nat /\ list \in Seq(Id)
    BY DEF Shape
  <2>3. ~(1 \in 1..Len(list))
    BY <2>1, ListIds DEF Id
  <2>4. list = <<>>
    BY <2>2, <2>3
  <2> QED
    BY <1>4, <2>4
<1>5. ASSUME Parses, NEW i \in 1..Len(file.rows), NEW row, row = file.rows[i],
             row.type \in {"string", "boolean", "number"}, row.text # "-1", LastOfName(file.rows, i),
             NEW o, o = Lookup(Stripped(row.name))
      PROVE  o # 0 /\ obj[o].type = row.type /\ obj[o].value = row.text /\ obj[o].pers
  <2>1. file.rows \in Seq(SoundRow) /\ Len(file.rows) \in Nat /\ row \in SoundRow
    BY <1>5 DEF Shape
  <2>2. Len(obj) = Len(file.rows) /\ \A j \in 1..Len(file.rows) : obj[j] = Loaded(file.rows[j])
    <3>1. Coming = [j \in 1..Len(file.rows) |-> Loaded(file.rows[j])]
      BY <1>5 DEF Coming, FileVariables
    <3>2. PICK n \in Nat : n = Len(file.rows)
      BY <2>1
    <3>3. PICK c \in Seq(OwnKey) : c = Coming
      BY ComingType
    <3>4. DOMAIN c = 1..n
      BY <3>1, <3>2, <3>3
    <3>5. Len(c) = n
      BY <3>2, <3>4
    <3>6. Len(obj) = n
      BY <1>3, <3>3, <3>5
    <3>7. \A j \in 1..n : obj[j] = Coming[j] /\ Coming[j] = Loaded(file.rows[j])
      BY <1>3, <3>1, <3>2, <3>6 DEF Id
    <3> QED
      BY <3>2, <3>6, <3>7
  <2>3. \A j \in 1..Len(file.rows) : obj[j].key = Stripped(file.rows[j].name)
    BY <2>1, <2>2, LoadedIs
  <2>4. i <= o
    BY <1>3, <1>5, <2>2, <2>3 DEF Id
  <2>5. o \in 1..Len(file.rows) /\ obj[o].key = Stripped(row.name)
    <3>1. o # 0
      BY <1>5, <2>1, <2>4
    <3> QED
      BY <1>5, <2>2, <3>1, HeldIsId DEF Tables, Id
  <2>6. o = i
    <3>1. Stripped(file.rows[o].name) = Stripped(file.rows[i].name)
      BY <1>5, <2>3, <2>5
    <3>2. o \notin i+1..Len(file.rows)
      BY <1>5, <3>1 DEF LastOfName
    <3> QED
      BY <1>5, <2>1, <2>4, <2>5, <3>2
  <2>7. obj[o] = Loaded(row)
    BY <1>5, <2>2, <2>6
  <2>8. o # 0
    BY <1>5, <2>1, <2>6
  <2> QED
    BY <1>5, <2>1, <2>7, <2>8, LoadedIs
<1> QED
  BY <1>4, <1>5

(* SavedComesBack: after a start every row of the last complete SAVE is    *)
(* back, unless another SAVE ran at the same time; from a file that does   *)
(* not parse comes none.                                                   *)
THEOREM SavedIsLoaded == Spec => []SavedComesBack
<1>1. ASSUME Init PROVE Quiet /\ LoadedSoFar
  <2>1. /\ obj = <<>> /\ Len(obj) = 0 /\ boot = "loading" /\ rest[Main] = <<>> /\ pc[Main].at = "idle"
    BY <1>1, MainIsActor, IdlePlace DEF Init
  <2>2. Coming = <<>>
    BY <1>1 DEF Init, Coming, Parses
  <2>3. Len(<<>>) = 0 /\ \A j \in 1..Len(<<>>) : FALSE
    OBVIOUS
  <2> QED
    BY <2>1, <2>2, <2>3 DEF Quiet, LoadedSoFar, Id
<1> DEFINE Layers == Shape /\ Tables /\ Entries /\ Alone /\ Quiet /\ LoadedSoFar
<1>2. Init => Layers
  BY <1>1, ShapeInit, LayersInit
<1>3. Layers /\ [Next]_vars => Layers'
  BY ShapeStep, TablesStep, AloneStep, QuietStep, LoadedStep
<1>4. Layers => SavedComesBack
  BY LoadedComesBack
<1> QED
  BY <1>2, <1>3, <1>4, PTL DEF Spec
=============================================================================

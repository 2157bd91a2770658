------------------------------ MODULE EventBus ------------------------------
(***************************************************************************)
(* What the daemon promises about events, without threads, semaphores and  *)
(* locks: every accepted event goes on one bus; the oldest event on the    *)
(* bus is handed to each attached client in turn, at most once, unless the *)
(* client sent it, filters it out or has a full mailbox, and it leaves the *)
(* bus only when every attached client has been considered.  A client may  *)
(* also get an event directly, when the sender addresses it.               *)
(***************************************************************************)
EXTENDS Naturals, Sequences

CONSTANTS
  Clients,    \* every session that ever attaches to the daemon
  Event,      \* records with at least the fields obid, kind and dest
  Kinds,      \* the classes of events a client's filter tells apart
  MaxItems    \* a mailbox may hold one event more than this

VARIABLES
  bus,        \* accepted events, the oldest first
  seen,       \* clients already considered for the oldest event
  members,    \* clients attached now
  filter,     \* for each client, the kinds of events it wants
  mailbox     \* for each client, the events it has not read yet

vars == <<bus, seen, members, filter, mailbox>>

Init ==
  /\ bus = <<>>
  /\ seen = {}
  /\ members = {}
  /\ filter = [c \in Clients |-> Kinds]
  /\ mailbox = [c \in Clients |-> <<>>]

Accept(e) ==
  /\ bus' = Append(bus, e)
  /\ UNCHANGED <<seen, members, filter, mailbox>>

(* A mailbox may be found full a little before it is skipped: the reader   *)
(* may empty it in between, so fullness is judged in the step itself.      *)
Excused(c) ==
  \/ c = Head(bus).obid
  \/ Head(bus).kind \notin filter[c]
  \/ Len(mailbox[c]) > MaxItems

Hand(c) ==
  /\ bus # <<>>
  /\ c \in members \ seen
  /\ c # Head(bus).obid
  /\ Len(mailbox[c]) <= MaxItems
  /\ mailbox' = [mailbox EXCEPT ![c] = Append(@, Head(bus))]
  /\ seen' = seen \cup {c}
  /\ UNCHANGED <<bus, members, filter>>

Skip(c) ==
  /\ bus # <<>>
  /\ c \in members \ seen
  /\ Excused(c)
  /\ seen' = seen \cup {c}
  /\ UNCHANGED <<bus, members, filter, mailbox>>

Retire ==
  /\ bus # <<>>
  /\ members \subseteq seen
  /\ bus' = Tail(bus)
  /\ seen' = {}
  /\ UNCHANGED <<members, filter, mailbox>>

Direct(e) ==
  /\ e.dest \in members
  /\ Len(mailbox[e.dest]) <= MaxItems
  /\ mailbox' = [mailbox EXCEPT ![e.dest] = Append(@, e)]
  /\ UNCHANGED <<bus, seen, members, filter>>

Attach(c) ==
  /\ c \notin members
  /\ seen = {}
  /\ members' = members \cup {c}
  /\ UNCHANGED <<bus, seen, filter, mailbox>>

Detach(c) ==
  /\ c \in members
  /\ seen = {}
  /\ members' = members \ {c}
  /\ mailbox' = [mailbox EXCEPT ![c] = <<>>]
  /\ UNCHANGED <<bus, seen, filter>>

Read(c) ==
  /\ mailbox[c] # <<>>
  /\ mailbox' = [mailbox EXCEPT ![c] = Tail(@)]
  /\ UNCHANGED <<bus, seen, members, filter>>

Discard(c) ==
  /\ mailbox' = [mailbox EXCEPT ![c] = <<>>]
  /\ UNCHANGED <<bus, seen, members, filter>>

SetFilter(c) ==
  /\ \E F \in SUBSET Kinds : filter' = [filter EXCEPT ![c] = F]
  /\ UNCHANGED <<bus, seen, members, mailbox>>

Next ==
  \/ \E e \in Event : Accept(e) \/ Direct(e)
  \/ Retire
  \/ \E c \in Clients :
       Hand(c) \/ Skip(c) \/ Attach(c) \/ Detach(c) \/ Read(c)
         \/ Discard(c) \/ SetFilter(c)

Spec == Init /\ [][Next]_vars
=============================================================================

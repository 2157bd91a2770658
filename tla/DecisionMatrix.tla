--------------------------- MODULE DecisionMatrix ---------------------------
(***************************************************************************)
(* The decision matrix (CDM): the rows, the timers, the events that the    *)
(* main thread (CControlObject::run) feeds through the rows -- the LOOP    *)
(* event, the events of the clock and those of its input queue -- and the  *)
(* DM commands of the TCP sessions, which share the rows with it under     *)
(* m_mutexDM.  The main thread holds that mutex while it does the actions  *)
(* of all the rows an event matches.                                       *)
(*                                                                         *)
(* Of a variable only its being there and its logical value are kept (the  *)
(* module Variables has the rest).  Whether an event is waiting for the    *)
(* matrix and whether there is room in the output queue is up to the other *)
(* threads (the module EventRouter) and open at every look.                *)
(***************************************************************************)
EXTENDS Integers, Sequences

CONSTANTS
  Sessions,     \* TCP sessions that issue DM commands
  Matrices,     \* the matrices there may be at the start: sequences of rows
  NewRows,      \* the rows that DM ADD may add
  Timers,       \* identifiers of timers
  Names,        \* names of variables
  None,         \* no name, no timer, no owner
  Main,         \* the main thread
  Minute,       \* seconds in a minute
  MaxDelay,     \* longest delay of a timer
  MaxRows,      \* bound: rows of the matrix
  MaxCommands   \* bound: commands of the sessions

Actions == {"noop", "execute", "send", "conditional", "file", "store", "add", "subtract",
            "multiply", "divide", "start", "pause", "resume", "stop", "write", "url"}

(* The LOOP event is sent as SHUTTING_DOWN: all three types are given to   *)
(* it.  The events of the start and of the end have no class and no type,  *)
(* only what the memory held, so that each may be of any kind.             *)
Kinds == {"second", "minute", "random", "loop", "other"}

(* A parameter, as handleEscapes sees it: "escape" is an escape it knows,  *)
(* "data" one that is replaced by the data of the event, or by the whole   *)
(* event, "double" is "%%", and "percent" a "%" alone, or before a word    *)
(* that makes no escape of it.                                             *)
Tokens == {"word", "space", "escape", "data", "double", "percent"}
Parameter == {p \in Seq(Tokens) :
                \A i \in 1..(Len(p) - 1) : p[i] = "percent" => p[i + 1] \in {"word", "space"}}
First(S) == CHOOSE i \in S : \A j \in S : i <= j

(* The places of p that handleEscapes gets to, and 0 if it never ends.     *)
(* What is left after an escape begins one character before the next space *)
(* whatever that is, so that escapes in between are lost; a "%" there, or  *)
(* the last one of a "%%", is found again for ever, and so is one that     *)
(* begins no escape when there is no space.                                *)
Visits(p) ==
  LET from[i \in 1..(Len(p) + 1)] ==
        LET marks == {k \in i..Len(p) : p[k] \in {"escape", "data", "double", "percent"}}
            k     == First(marks)
            gaps  == {j \in (k + 1)..Len(p) : p[j] = "space"}
            gap   == First(gaps)
            again == IF gaps = {} THEN p[k] = "percent"
                     ELSE p[gap - 1] = "percent" \/ (p[gap - 1] = "double" /\ gap - 1 # k)
        IN  IF marks = {} THEN {}
            ELSE {k} \cup IF again THEN {0} ELSE from[IF gaps = {} THEN k + 1 ELSE gap]
  IN  from[1]

Ends(p) == 0 \notin Visits(p)
FollowsData(p) == \E k \in 1..Len(p) : k \in Visits(p) /\ p[k] = "data"

(* A row: the events its filter lets through, the answers ShouldWeDoAction *)
(* may give, its action and what the parameter of the action holds.  The   *)
(* name of a variable may have a prefix, "$" (or "@", which is like it) or *)
(* "$@": CVariableStorage::find strips both.                               *)
Row == [kinds: SUBSET Kinds, allow: SUBSET BOOLEAN, action: Actions, param: Parameter,
        var: Names \cup {None}, pre: {"", "$", "$@"}, timer: Timers, delay: 0..MaxDelay,
        set: BOOLEAN]

ASSUME MatrixAssumption ==
  /\ Matrices \subseteq Seq(Row)
  /\ NewRows \subseteq Row
  /\ None \notin Names \cup Sessions \cup {Main}
  /\ Main \notin Sessions
  /\ MaxDelay \in Nat /\ MaxRows \in Nat /\ MaxCommands \in Nat
  /\ Minute \in Nat \ {0, 1}

VARIABLES
  rows,       \* m_DMList
  lock,       \* owner of m_mutexDM
  main,       \* where the main thread is
  timer,      \* m_timerHash: "absent", "null", or the timer's state
  var,        \* the variables: "missing", "false", "true" or "freed"
  now,        \* the time of day, two minutes long
  last,       \* m_lastTime
  quit,       \* m_bQuit
  cmd,        \* what each session is doing
  count,      \* commands so far, for the bound
  passed,     \* seconds since the main thread last read the clock for good
  ticked,     \* history: a second has passed since serviceTimers last ran
  risky       \* history: a row or a command known to stop the daemon was met

clock == <<now, passed, ticked>>
sessions == <<cmd, count>>
vars == <<rows, lock, main, timer, var, clock, last, quit, sessions, risky>>

(* The events of the loop, of the start and of the end are wild: the size  *)
(* of their data and the pointer to it were never set.                     *)
NoTimer == [is |-> "absent", active |-> FALSE, delay |-> 0, name |-> None, set |-> FALSE,
            start |-> 0, served |-> 0, paused |-> FALSE]
At(p) == [at |-> p, ev |-> "loop", i |-> 1, then |-> "top", wild |-> FALSE]
Fed(ev, then) == [at |-> "feed", ev |-> ev, i |-> 1, then |-> then, wild |-> FALSE]
Wild(ev, then) == [Fed(ev, then) EXCEPT !.wild = TRUE]

Init ==
  /\ rows \in Matrices
  /\ lock = None
  /\ \E ev \in Kinds : main = Wild(ev, "top")
  /\ timer = [t \in Timers |-> NoTimer]
  /\ var \in [Names -> {"missing", "false"}]
  /\ now = 0
  /\ last = 0
  /\ quit = FALSE
  /\ cmd = [s \in Sessions |-> [op |-> "none", todo |-> <<>>]]
  /\ count = 0
  /\ passed = 0
  /\ ticked = FALSE
  /\ risky = FALSE

Running == main.at \notin {"crashed", "stuck", "gone"}
Crash == main' = At("crashed")
Feed(ev, then) == main' = Fed(ev, then)
FeedWild(ev, then) == main' = Wild(ev, then)
Second(t) == t % Minute
MinuteOf(t) == t \div Minute

-----------------------------------------------------------------------------
(* The main loop.                                                          *)

(* Mutant: the clock is compared with itself.                              *)
TopSame ==
  /\ main.at = "top"
  /\ IF quit THEN \E ev \in Kinds : FeedWild(ev, "gone") ELSE main' = At("minute")
  /\ UNCHANGED <<rows, lock, timer, var, clock, last, quit, sessions, risky>>

(* feedPeriodicEvent reads the clock anew for every comparison ...         *)
Top ==
  /\ main.at = "top"
  /\ IF quit THEN \E ev \in Kinds : FeedWild(ev, "gone")
     ELSE IF Second(last) # Second(now) THEN Feed("second", "service")
     ELSE main' = At("minute")
  /\ UNCHANGED <<rows, lock, timer, var, clock, last, quit, sessions, risky>>

(* m_rndMinute is always 0: the random number below 1 is cut to an integer *)
(* before it is multiplied.                                                *)
Random ==
  /\ main.at = "random"
  /\ IF Second(now) = 0 THEN Feed("random", "minute") ELSE main' = At("minute")
  /\ UNCHANGED <<rows, lock, timer, var, clock, last, quit, sessions, risky>>

(* The minute stands for the longer periods too, which are tested alike.   *)
PassMinute ==
  /\ main.at = "minute"
  /\ IF MinuteOf(last) # MinuteOf(now) THEN Feed("minute", "end") ELSE main' = At("end")
  /\ UNCHANGED <<rows, lock, timer, var, clock, last, quit, sessions, risky>>

(* Mutant: the time of this turn is not remembered.                        *)
EndPeriodicForgets ==
  /\ main.at = "end"
  /\ passed' = 0
  /\ FeedWild("loop", "wait")
  /\ UNCHANGED <<rows, lock, timer, var, now, ticked, last, quit, sessions, risky>>

(* ... and once more to remember it: what has passed meanwhile is lost.    *)
EndPeriodic ==
  /\ main.at = "end"
  /\ last' = now
  /\ passed' = 0
  /\ FeedWild("loop", "wait")
  /\ UNCHANGED <<rows, lock, timer, var, now, ticked, quit, sessions, risky>>

(* WaitTimeout on the semaphore of the input queue runs out, or an event   *)
(* has come.                                                               *)
Wait ==
  /\ main.at = "wait"
  /\ FeedWild("loop", "top") \/ Feed("other", "top")
  /\ UNCHANGED <<rows, lock, timer, var, clock, last, quit, sessions, risky>>

-----------------------------------------------------------------------------
(* serviceTimers.  Every entry of the hash is followed, null ones too.     *)

Serves(t) == timer[t].active /\ var[timer[t].name] # "missing"
Left(t) == IF timer[t].delay = 0 THEN 0 ELSE timer[t].delay - 1

(* Mutant: the timer elapses one second late.                              *)
ElapsesLate(t) == Serves(t) /\ timer[t].delay = 0

Elapses(t) == Serves(t) /\ Left(t) = 0

Served(t) ==
  IF ~Serves(t) THEN timer[t]
  ELSE [timer[t] EXCEPT !.delay = Left(t), !.active = ~Elapses(t), !.served = @ + 1]

(* setTrue or setFalse of a variable that has been freed may do anything.  *)
Service ==
  /\ main.at = "service"
  /\ ticked' = FALSE
  /\ IF \E t \in Timers : timer[t].is = "null"
     THEN Crash /\ UNCHANGED <<timer, var>>
     ELSE /\ timer' = [t \in Timers |-> Served(t)]
          /\ var' \in {f \in [Names -> {"missing", "false", "true", "freed"}] :
                \A n \in Names :
                  LET due == {t \in Timers : timer[t].name = n /\ Elapses(t)}
                  IN  IF due = {} \/ var[n] = "freed" THEN f[n] = var[n]
                      ELSE \E t \in due : f[n] = IF timer[t].set THEN "true" ELSE "false"}
          /\ \/ main' = At("random")
             \/ (\E t \in Timers : Elapses(t) /\ var[timer[t].name] = "freed") /\ Crash
  /\ UNCHANGED <<rows, lock, now, passed, last, quit, sessions, risky>>

-----------------------------------------------------------------------------
(* feed and doAction.                                                      *)

FeedLock ==
  /\ main.at = "feed"
  /\ lock = None
  /\ lock' = Main
  /\ main' = [main EXCEPT !.at = "row"]
  /\ UNCHANGED <<rows, timer, var, clock, last, quit, sessions, risky>>

InFeed == main.at = "row"
Matching == {i \in main.i..Len(rows) : main.ev \in rows[i].kinds}
Hit == First(Matching)
Ahead == main' = [main EXCEPT !.i = Hit + 1]

(* Mutant: the lock is not given up.                                       *)
FeedEndKeeps ==
  /\ InFeed
  /\ Matching = {}
  /\ main' = At(main.then)
  /\ UNCHANGED <<rows, lock, timer, var, clock, last, quit, sessions, risky>>

FeedEnd ==
  /\ InFeed
  /\ Matching = {}
  /\ lock' = None
  /\ main' = At(main.then)
  /\ UNCHANGED <<rows, timer, var, clock, last, quit, sessions, risky>>

(* The time window of the row does not let it act.                         *)
RowRefused ==
  /\ InFeed
  /\ Matching # {}
  /\ FALSE \in rows[Hit].allow
  /\ Ahead
  /\ UNCHANGED <<rows, lock, timer, var, clock, last, quit, sessions, risky>>

Allowed ==
  /\ InFeed
  /\ Matching # {}
  /\ TRUE \in rows[Hit].allow

Acts(action) ==
  /\ Allowed
  /\ rows[Hit].action = action
  /\ Ends(rows[Hit].param) \/ action = "noop"

(* Every action but NOOP begins with handleEscapes: it may never end, ...  *)
RowStuck ==
  /\ Allowed
  /\ rows[Hit].action # "noop"
  /\ ~Ends(rows[Hit].param)
  /\ main' = At("stuck")
  /\ risky' = TRUE
  /\ UNCHANGED <<rows, lock, timer, var, clock, last, quit, sessions>>

(* ... or follow a pointer to data that was never set.                     *)
RowAstray ==
  /\ Allowed
  /\ rows[Hit].action # "noop"
  /\ main.wild /\ FollowsData(rows[Hit].param)
  /\ Crash
  /\ risky' = TRUE
  /\ UNCHANGED <<rows, lock, timer, var, clock, last, quit, sessions>>

(* A row that names a variable which is not there has it created.  The     *)
(* looks of CVariableStorage::add are apart from the row's own: when       *)
(* sessions create and remove the variable in between, a null entry is     *)
(* followed (the module Variables has the steps).                          *)
RowRaces ==
  /\ Acts("send") \/ Acts("start")
  /\ rows[Hit].var # None /\ var[rows[Hit].var] = "missing"
  /\ Crash
  /\ risky' = TRUE
  /\ UNCHANGED <<rows, lock, timer, var, clock, last, quit, sessions>>

(* A variable is created under the name as it is given, and find does not  *)
(* find it there if that has a prefix.                                     *)
Created(n, pre, v) == IF pre = "" THEN [var EXCEPT ![n] = v] ELSE var

(* Nothing that the daemon would notice.                                   *)
NothingBut(action) ==
  /\ Acts(action)
  /\ Ahead
  /\ UNCHANGED <<rows, lock, timer, var, clock, last, quit, sessions, risky>>

ActNoop      == NothingBut("noop")
ActExecute   == NothingBut("execute")   \* a program, not waited for
ActWriteFile == NothingBut("write")     \* the path of the file is never set
ActGetURL    == NothingBut("url")       \* the thread is created and never run
ActResume    == NothingBut("resume")    \* empty
ActStop      == NothingBut("stop")      \* empty

(* doActionSendEvent.  The variable of the parameter is set once: it is    *)
(* cut off the row's own parameter, when there is room for the event.      *)
ActSend ==
  /\ Acts("send")
  /\ LET n == rows[Hit].var
     IN  \/ UNCHANGED <<rows, var>> /\ Ahead                \* no room
         \/ /\ rows' = [rows EXCEPT ![Hit].var = None]
            /\ \/ Ahead /\ var' = IF n = None \/ var[n] = "freed" THEN var
                                  ELSE IF var[n] = "missing" THEN Created(n, rows[Hit].pre, "true")
                                  ELSE [var EXCEPT ![n] = "true"]
               \/ n # None /\ var[n] = "freed" /\ Crash /\ var' = var
  /\ UNCHANGED <<lock, timer, clock, last, quit, sessions, risky>>

(* doActionSendEventConditional tests a second, unset pVar.                *)
ActConditional ==
  /\ Acts("conditional")
  /\ LET missing == rows[Hit].var = None \/ var[rows[Hit].var] = "missing"
     IN  /\ IF missing THEN Ahead ELSE Crash
         /\ risky' = (risky \/ ~missing)
  /\ UNCHANGED <<rows, lock, timer, var, clock, last, quit, sessions>>

(* doActionSendEventsFromFile: there is no such file, or its first element *)
(* is looked at for ever; if that is an event without content, events are  *)
(* queued for ever, and freed.                                             *)
ActFile ==
  /\ Acts("file")
  /\ \/ Ahead /\ risky' = risky
     \/ main' = At("stuck") /\ risky' = TRUE
  /\ UNCHANGED <<rows, lock, timer, var, clock, last, quit, sessions>>

(* doActionStoreVariable replaces the variable, whatever it was.  setName  *)
(* strips a "$" or a "@", not both.                                        *)
ActStore ==
  /\ Acts("store")
  /\ Ahead
  /\ var' = IF rows[Hit].var = None \/ rows[Hit].pre = "$@" THEN var
            ELSE [var EXCEPT ![rows[Hit].var] = IF rows[Hit].set THEN "true" ELSE "false"]
  /\ UNCHANGED <<rows, lock, timer, clock, last, quit, sessions, risky>>

(* Arithmetic: the success of CVariableStorage::add is taken for an error, *)
(* and the variable is freed while the storage keeps it.  A logical        *)
(* variable is left alone, and a freed one may have any type.              *)
Arithmetic(action) ==
  /\ Acts(action)
  /\ LET n == rows[Hit].var
     IN  /\ var' = IF n # None /\ var[n] = "missing" /\ rows[Hit].pre # "$@"
                   THEN [var EXCEPT ![n] = "freed"] ELSE var
         /\ risky' = (risky \/ (n # None /\ var[n] = "missing"))
         /\ \/ Ahead
            \/ n # None /\ var[n] = "freed" /\ Crash
  /\ UNCHANGED <<rows, lock, timer, clock, last, quit, sessions>>

ActAdd      == Arithmetic("add")
ActSubtract == Arithmetic("subtract")
ActMultiply == Arithmetic("multiply")
ActDivide   == Arithmetic("divide")     \* a divisor 0 is left out

(* Mutant: the entry is made and the timer is not.                         *)
StartedNull(r) == [NoTimer EXCEPT !.is = "null"]

Started(r) == [is |-> "made", active |-> TRUE, delay |-> r.delay, name |-> r.var, set |-> r.set,
               start |-> r.delay, served |-> 0, paused |-> FALSE]

(* addTimer creates the variable, as a logical one.                        *)
Named(r) == IF var[r.var] = "missing" THEN Created(r.var, r.pre, "false") ELSE var

(* startTimer creates a timer that is not there, and does nothing to one   *)
(* that is: a timer runs once.                                             *)
ActStart ==
  /\ Acts("start")
  /\ Ahead
  /\ LET r == rows[Hit]
     IN  IF r.var = None \/ timer[r.timer].is = "made"
         THEN UNCHANGED <<timer, var>>
         ELSE /\ timer' = [timer EXCEPT ![r.timer] = Started(r)]
              /\ var' = Named(r)
  /\ UNCHANGED <<rows, lock, clock, last, quit, sessions, risky>>

(* stopTimer of a timer that is not there leaves a null entry.             *)
ActPause ==
  /\ Acts("pause")
  /\ Ahead
  /\ LET t == rows[Hit].timer
     IN  IF timer[t].is = "made"
         THEN /\ timer' = [timer EXCEPT ![t].active = FALSE, ![t].paused = @ \/ timer[t].active]
              /\ risky' = risky
         ELSE /\ timer' = [timer EXCEPT ![t].is = "null"]
              /\ risky' = TRUE
  /\ UNCHANGED <<rows, lock, var, clock, last, quit, sessions>>

-----------------------------------------------------------------------------
(* The DM commands of the sessions.                                        *)

Begin(s, op, todo) ==
  /\ Running
  /\ cmd[s].op \in {"none", "silent"}
  /\ count < MaxCommands
  /\ count' = count + 1
  /\ cmd' = [cmd EXCEPT ![s] = [op |-> op, todo |-> todo]]
  /\ UNCHANGED <<rows, lock, main, timer, var, clock, last, quit, risky>>

(* The first position is read from a text that begins with the command     *)
(* word, and is 0; the second is what the client says.                     *)
Positions == {<<0, p>> : p \in 0..MaxRows}

(* ALL, or the row 0: no other is read.  DISABLE enables, and CLRTRIG is   *)
(* taken for TRIG.  No feed looks at the enable bit or at the counts.      *)
Enable(s)  == Begin(s, "all", <<>>) \/ Begin(s, "visit", <<0>>)
Disable(s) == Enable(s)

(* LIST with positions reads them and lists nothing.                       *)
List(s) == Begin(s, "all", <<>>)

(* doAction of no event: the row counts it and does nothing.               *)
Trigger(s)           == \E todo \in Positions : Begin(s, "visit", todo)
ClearTriggerCount(s) == Trigger(s)
ClearErrorCount(s)   == Begin(s, "all", <<>>) \/ Trigger(s)
Delete(s) == Begin(s, "delete all", <<>>) \/ \E todo \in Positions : Begin(s, "delete", todo)
Add(s)    == Begin(s, "add", <<>>)

(* A command that is cut short, as DM ENABLE with nothing after it, or     *)
(* that is none of these, is passed over without an answer.                *)
Unknown(s) == Begin(s, "silent", <<>>)

Command(s) ==
  \/ Unknown(s)
  \/ Enable(s) \/ Disable(s) \/ List(s) \/ Delete(s) \/ Add(s)
  \/ Trigger(s) \/ ClearTriggerCount(s) \/ ClearErrorCount(s)

Answered(s) == cmd' = [cmd EXCEPT ![s] = [op |-> "none", todo |-> <<>>]]

WalkRows(s) ==
  /\ cmd[s].op = "all"
  /\ lock = None
  /\ Answered(s)
  /\ UNCHANGED <<rows, lock, main, timer, var, clock, last, quit, count, risky>>

DeleteAll(s) ==
  /\ cmd[s].op = "delete all"
  /\ lock = None
  /\ rows' = <<>>
  /\ Answered(s)
  /\ UNCHANGED <<lock, main, timer, var, clock, last, quit, count, risky>>

(* One position under the lock.  With no rows GetCount() - 1 is the        *)
(* greatest number, the test lets the position through, and the row that   *)
(* is not there is followed.                                               *)
AtPosition(s) ==
  /\ cmd[s].op \in {"visit", "delete"}
  /\ lock = None
  /\ LET p == Head(cmd[s].todo) + 1
         on == IF Tail(cmd[s].todo) = <<>> THEN Answered(s)
               ELSE cmd' = [cmd EXCEPT ![s].todo = Tail(@)]
     IN  \/ /\ rows = <<>>
            /\ Crash
            /\ risky' = TRUE
            /\ UNCHANGED <<rows, cmd>>
         \/ /\ rows # <<>> /\ p > Len(rows)
            /\ Answered(s)
            /\ UNCHANGED <<rows, main, risky>>
         \/ /\ p <= Len(rows)
            /\ rows' = IF cmd[s].op = "delete"
                       THEN SubSeq(rows, 1, p - 1) \o SubSeq(rows, p + 1, Len(rows)) ELSE rows
            /\ on
            /\ UNCHANGED <<main, risky>>
  /\ UNCHANGED <<lock, timer, var, clock, last, quit, count>>

(* ADD takes the lock and addElement takes it again, which on one kind of  *)
(* wxMutex never returns and on the other is an error nobody looks at.     *)
AddRow(s) ==
  /\ cmd[s].op = "add"
  /\ lock = None
  /\ \/ /\ lock' = s
        /\ risky' = TRUE
        /\ cmd' = [cmd EXCEPT ![s].op = "blocked"]
        /\ UNCHANGED rows
     \/ /\ \E r \in NewRows : rows' = IF Len(rows) < MaxRows THEN Append(rows, r) ELSE rows
        /\ Answered(s)
        /\ UNCHANGED <<lock, risky>>
  /\ UNCHANGED <<main, timer, var, clock, last, quit, count>>

Locked(s) == WalkRows(s) \/ DeleteAll(s) \/ AtPosition(s) \/ AddRow(s)

-----------------------------------------------------------------------------
(* The rest of the daemon.                                                 *)

(* Bound on the clock: one turn of the main loop takes less than a minute. *)
Tick ==
  /\ Running
  /\ passed < Minute - 1
  /\ now' = (now + 1) % (2 * Minute)
  /\ passed' = passed + 1
  /\ ticked' = TRUE
  /\ UNCHANGED <<rows, lock, main, timer, var, last, quit, sessions, risky>>

(* VARIABLE REMOVE and WRITE of a session.                                 *)
VariableChanged(n) ==
  /\ Running
  /\ count < MaxCommands
  /\ count' = count + 1
  /\ var[n] # "freed"
  /\ \E v \in {"missing", "false", "true"} : var' = [var EXCEPT ![n] = v]
  /\ UNCHANGED <<rows, lock, main, timer, clock, last, quit, cmd, risky>>

Stop ==
  /\ Running
  /\ ~quit
  /\ quit' = TRUE
  /\ UNCHANGED <<rows, lock, main, timer, var, clock, last, sessions, risky>>

-----------------------------------------------------------------------------
Loop == Top \/ Service \/ Random \/ PassMinute \/ EndPeriodic \/ Wait \/ FeedLock
Act == \/ FeedEnd \/ RowRefused \/ RowStuck \/ RowAstray \/ RowRaces \/ ActNoop \/ ActExecute \/ ActSend
       \/ ActConditional \/ ActFile \/ ActWriteFile \/ ActGetURL \/ ActStore
       \/ ActAdd \/ ActSubtract \/ ActMultiply \/ ActDivide
       \/ ActStart \/ ActPause \/ ActResume \/ ActStop
MainThread == Loop \/ Act

Next ==
  \/ MainThread
  \/ \E s \in Sessions : Command(s) \/ (Running /\ Locked(s))
  \/ Tick \/ Stop
  \/ \E n \in Names : VariableChanged(n)

Spec == Init /\ [][Next]_vars

(* The scheduler runs the main thread.  It leaves m_mutexDM free while it  *)
(* waits, in every turn, so both it and a session get the mutex if they    *)
(* keep asking.  The clock runs, and now and then a second passes while it *)
(* waits: were it always between the first and the last look at the clock, *)
(* no second would ever be seen to pass.                                   *)
Fairness ==
  /\ WF_vars(MainThread)
  /\ SF_vars(FeedLock)
  /\ SF_vars(main.at = "wait" /\ Tick)
  /\ \A s \in Sessions : SF_vars(Running /\ Locked(s))

FairSpec == Spec /\ Fairness

-----------------------------------------------------------------------------
TimerState == [is: {"absent", "null", "made"}, active: BOOLEAN, delay: 0..MaxDelay,
               name: Names \cup {None}, set: BOOLEAN, start: 0..MaxDelay, served: Nat,
               paused: BOOLEAN]

(* The variables have their types, and the main thread is among the rows   *)
(* only with m_mutexDM, which it gives up when it leaves them.             *)
TypeOK ==
  /\ rows \in Seq(Row)
  /\ lock \in Sessions \cup {Main, None}
  /\ main.at \in {"top", "feed", "row", "service", "random", "minute", "end", "wait",
                  "crashed", "stuck", "gone"}
  /\ timer \in [Timers -> TimerState]
  /\ \A t \in Timers : timer[t].is = "made" => timer[t].name \in Names
  /\ var \in [Names -> {"missing", "false", "true", "freed"}]
  /\ now \in 0..(2 * Minute - 1) /\ last \in 0..(2 * Minute - 1)
  /\ main.at = "row" => lock = Main
  /\ lock = Main => main.at \in {"row", "stuck", "crashed"}

(* A timer that is running has been served once for each second it has     *)
(* lost, and one that has stopped by itself was served exactly its delay   *)
(* (once, when that is 0), whatever starts and pauses were done meanwhile. *)
TimerExact ==
  \A t \in Timers :
    timer[t].is = "made" =>
      IF timer[t].active
      THEN timer[t].delay + timer[t].served = timer[t].start
           /\ (timer[t].start > 0 => timer[t].delay > 0)
      ELSE timer[t].paused \/ timer[t].served = IF timer[t].start = 0 THEN 1 ELSE timer[t].start

(* The daemon dies or hangs in the matrix only after one of the nine       *)
(* things that are listed in the README: a row whose parameter             *)
(* handleEscapes does not finish, or for which it follows the data of the  *)
(* loop's event, a conditional event whose variable exists, an events      *)
(* file, a sum for a missing variable, a variable that a row creates while *)
(* sessions do, a pause of a timer that was never started, a position in   *)
(* an empty matrix, and DM ADD.                                            *)
StopsOnlyKnown ==
  /\ main.at \in {"crashed", "stuck"} => risky
  /\ (\E s \in Sessions : lock = s) => risky

(* The timers are never counted down twice in one second.                  *)
OnceASecond == [][main.at = "service" /\ main'.at # "service" => ticked]_vars

(* A timer that runs elapses, unless it is paused, its variable is not     *)
(* there (because it is removed, or because the timer created it under a   *)
(* name with a prefix, by which it is never found), or the daemon stops.   *)
TimerFires ==
  \A t \in Timers :
    timer[t].active ~> (~timer[t].active \/ var[timer[t].name] = "missing"
                        \/ ~Running \/ quit \/ risky)

(* Every DM command is answered, unless the daemon stops or dies first, or *)
(* handleClientDm does not know it.                                        *)
CommandAnswered ==
  \A s \in Sessions :
    cmd[s].op \notin {"none", "silent"} ~> (cmd[s].op = "none" \/ ~Running \/ risky)
=============================================================================

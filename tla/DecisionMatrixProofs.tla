------------------------ MODULE DecisionMatrixProofs -------------------------
(***************************************************************************)
(* Theorems about DecisionMatrix, for any rows, timers, variables, sessions*)
(* and delays.                                                             *)
(*                                                                         *)
(* MatrixInv adds to the types what each of the properties rests on: what  *)
(* a null timer and a freed variable have behind them (Risk), and that a   *)
(* second has passed wherever the main thread is on its way to the timers  *)
(* (OnTheWay).                                                             *)
(***************************************************************************)
EXTENDS DecisionMatrix, SequenceTheorems, WellFoundedInduction, TLAPS

Places == {"top", "feed", "row", "service", "random", "minute", "end", "wait", "crashed",
           "stuck", "gone"}
Thens == {"top", "service", "minute", "end", "wait", "gone"}

MainOK == main \in [at: Places, ev: Kinds, i: Nat \ {0}, then: Thens, wild: BOOLEAN]
RowsOK == rows \in Seq(Row)
LockOK == /\ lock \in Sessions \cup {Main, None}
          /\ main.at = "row" => lock = Main
          /\ lock = Main => main.at \in {"row", "stuck", "crashed"}
TimersOK == /\ timer \in [Timers -> TimerState]
            /\ \A t \in Timers : timer[t].is = "made" => timer[t].name \in Names
            /\ \A t \in Timers : timer[t].active => timer[t].is = "made"
VarsOK == var \in [Names -> {"missing", "false", "true", "freed"}]
ClockOK == now \in 0..(2 * Minute - 1) /\ last \in 0..(2 * Minute - 1)
Ops == {"none", "silent", "all", "delete all", "visit", "delete", "add", "blocked"}
CmdOK == /\ cmd \in [Sessions -> [op: Ops, todo: Seq(Nat)]]
         /\ \A s \in Sessions : cmd[s].op \in {"visit", "delete"} => cmd[s].todo # <<>>

(* Nothing that stops the daemon is there without its cause.               *)
Risk == /\ \A t \in Timers : timer[t].is = "null" => risky
        /\ \A n \in Names : var[n] = "freed" => risky
        /\ main.at \in {"crashed", "stuck"} => risky
        /\ \A s \in Sessions : lock = s => risky

(* The main thread goes to the timers only when a second has passed, and   *)
(* between its last look at the clock and the next one it has if the clock *)
(* shows another time.                                                     *)
Bound(p) == main.at = p \/ (main.at \in {"feed", "row"} /\ main.then = p)
OnTheWay == /\ Bound("service") => ticked = TRUE
            /\ (Bound("top") \/ Bound("wait")) /\ last # now => ticked = TRUE

Flags == risky \in BOOLEAN /\ ticked \in BOOLEAN

MatrixInv == /\ MainOK /\ RowsOK /\ LockOK /\ TimersOK /\ VarsOK /\ ClockOK /\ CmdOK
             /\ Risk /\ OnTheWay /\ Flags /\ TimerExact

-----------------------------------------------------------------------------
(* A set of numbers that is not empty has a first one.                     *)
LEMMA FirstOf ==
  ASSUME NEW S \in SUBSET Nat, S # {}
  PROVE  First(S) \in S
<1>1. PICK k \in S : \A j \in S : ~(<<j, k>> \in OpToRel(<, Nat))
  BY NatLessThanWellFounded, WFMin
<1>2. \A j \in S : k <= j
  <2> TAKE j \in S
  <2>1. ~(j < k)
    <3>1. <<j, k>> \in Nat \X Nat
      OBVIOUS
    <3> QED
      BY <1>1, <3>1 DEF OpToRel
  <2> QED
    BY <2>1
<1> QED
  BY <1>2 DEF First

(* The row that is looked at is one of the matrix.                         *)
LEMMA HitIsRow ==
  ASSUME MainOK, RowsOK, Matching # {}
  PROVE  Hit \in Nat \ {0} /\ Hit \in 1..Len(rows) /\ rows[Hit] \in Row
<1>1. main.i \in Nat \ {0} /\ Len(rows) \in Nat
  BY DEF MainOK, RowsOK
<1>2. Matching \subseteq 1..Len(rows)
  BY <1>1 DEF Matching
<1>3. Hit \in Matching
  BY <1>1, <1>2, FirstOf DEF Hit
<1> QED
  BY <1>1, <1>2, <1>3 DEF RowsOK

LEMMA MatrixInit == Init => MatrixInv
<1> SUFFICES ASSUME Init PROVE MatrixInv
  OBVIOUS
<1> USE DEF Init
<1>1. main \in [at: {"feed"}, ev: Kinds, i: {1}, then: {"top"}, wild: BOOLEAN]
  <2>1. PICK ev \in Kinds : main = Wild(ev, "top")
    OBVIOUS
  <2> QED
    BY <2>1 DEF Fed, Wild
<1>2. MainOK
  BY <1>1 DEF MainOK, Places, Thens, Kinds
<1>3. RowsOK /\ CmdOK
  <2>1. <<>> \in Seq(Nat)
    OBVIOUS
  <2>2. CmdOK
    BY <2>1 DEF CmdOK, Ops
  <2> QED
    BY <2>2, MatrixAssumption DEF RowsOK
<1>4. LockOK
  BY <1>1, MatrixAssumption DEF LockOK
<1>5. TimersOK /\ TimerExact
  BY MatrixAssumption DEF TimersOK, TimerState, NoTimer, TimerExact
<1>6. VarsOK /\ Flags
  BY DEF VarsOK, Flags
<1>7. ClockOK
  BY MatrixAssumption DEF ClockOK
<1>8. Risk
  BY <1>1, MatrixAssumption DEF Risk, NoTimer
<1>9. OnTheWay
  BY <1>1 DEF OnTheWay, Bound
<1> QED
  BY <1>2, <1>3, <1>4, <1>5, <1>6, <1>7, <1>8, <1>9 DEF MatrixInv

(* What a step leaves alone keeps what is said of it.                      *)
LEMMA Kept ==
  ASSUME MatrixInv
  PROVE  /\ UNCHANGED rows => RowsOK'
         /\ UNCHANGED timer => TimersOK' /\ TimerExact'
         /\ UNCHANGED var => VarsOK'
         /\ UNCHANGED <<now, last>> => ClockOK'
         /\ UNCHANGED cmd => CmdOK'
         /\ UNCHANGED main => MainOK'
         /\ UNCHANGED <<main, lock>> => LockOK'
         /\ UNCHANGED <<main, now, last, ticked>> => OnTheWay'
         /\ UNCHANGED <<risky, ticked>> => Flags'
<1> USE DEF MatrixInv
<1>1. /\ UNCHANGED rows => RowsOK'
      /\ UNCHANGED timer => TimersOK' /\ TimerExact'
      /\ UNCHANGED var => VarsOK'
  BY DEF RowsOK, TimersOK, TimerExact, VarsOK
<1>2. /\ UNCHANGED <<now, last>> => ClockOK'
      /\ UNCHANGED cmd => CmdOK'
      /\ UNCHANGED main => MainOK'
      /\ UNCHANGED <<main, lock>> => LockOK'
      /\ UNCHANGED <<risky, ticked>> => Flags'
  BY DEF ClockOK, CmdOK, MainOK, LockOK, Flags
<1>3. UNCHANGED <<main, now, last, ticked>> => OnTheWay'
  BY DEF OnTheWay, Bound
<1> QED
  BY <1>1, <1>2, <1>3

(* Where the main thread can go when it is not among the rows.             *)
Go == [at: Places \ {"row"}, ev: Kinds, i: {1}, then: Thens, wild: BOOLEAN]

LEMMA Goings ==
  /\ \A p \in Places \ {"row"} : At(p) \in Go /\ At(p).at = p
  /\ \A ev \in Kinds, then \in Thens :
       /\ Fed(ev, then) \in Go /\ Fed(ev, then).at = "feed" /\ Fed(ev, then).then = then
       /\ Wild(ev, then) \in Go /\ Wild(ev, then).at = "feed" /\ Wild(ev, then).then = then
  BY DEF At, Fed, Wild, Go, Places, Thens, Kinds

LEMMA GoStep ==
  ASSUME MatrixInv, main' \in Go,
         \/ lock = lock' /\ lock # Main
         \/ lock' = None
         \/ lock = lock' /\ main'.at \in {"stuck", "crashed"}
  PROVE  MainOK' /\ LockOK'
<1>1. MainOK' /\ main'.at # "row"
  BY DEF MainOK, Go
<1>2. LockOK'
  BY <1>1, MatrixAssumption DEF MatrixInv, LockOK
<1> QED
  BY <1>1, <1>2

-----------------------------------------------------------------------------
(* The turns of the main loop.                                             *)
LEMMA LoopStep == ASSUME MatrixInv, Top \/ Random \/ PassMinute \/ EndPeriodic \/ Wait PROVE MatrixInv'
<1>1. UNCHANGED <<rows, lock, timer, var, now, ticked, quit, cmd, count, risky>>
  BY DEF Top, Random, PassMinute, EndPeriodic, Wait, clock, sessions
<1>2. main.at \in {"top", "random", "minute", "end", "wait"} /\ lock # Main
  BY DEF Top, Random, PassMinute, EndPeriodic, Wait, MatrixInv, LockOK
<1>3. RowsOK' /\ TimersOK' /\ TimerExact' /\ VarsOK' /\ CmdOK' /\ Flags'
  BY <1>1, Kept
<1>4. ClockOK'
  BY <1>1 DEF Top, Random, PassMinute, EndPeriodic, Wait, clock, MatrixInv, ClockOK
<1>5. /\ main' \in Go
      /\ main'.at \notin {"service", "crashed", "stuck", "row"}
      /\ (main'.at = "feed" /\ main'.then = "service") => main.at = "top" /\ last # now
      /\ (main'.at \in {"top", "wait"} \/ (main'.at = "feed" /\ main'.then \in {"top", "wait"})) =>
           (main.at = "wait" /\ UNCHANGED last) \/ last' = now'
  <2> USE DEF Places, Thens, Kinds
  <2>1. CASE Top
    <3>1. CASE quit
      BY <2>1, <3>1, Goings DEF Top, FeedWild
    <3>2. CASE ~quit /\ Second(last) # Second(now)
      BY <2>1, <3>2, Goings DEF Top, Feed
    <3>3. CASE ~quit /\ Second(last) = Second(now)
      BY <2>1, <3>3, Goings DEF Top
    <3> QED
      BY <3>1, <3>2, <3>3
  <2>2. CASE Random
    BY <2>2, Goings DEF Random, Feed
  <2>3. CASE PassMinute
    BY <2>3, Goings DEF PassMinute, Feed
  <2>4. CASE EndPeriodic
    BY <2>4, Goings DEF EndPeriodic, FeedWild
  <2>5. CASE Wait
    BY <2>5, Goings DEF Wait, Feed, FeedWild
  <2> QED
    BY <2>1, <2>2, <2>3, <2>4, <2>5
<1>6. MainOK' /\ LockOK'
  BY <1>1, <1>2, <1>5, GoStep
<1>7. OnTheWay'
  BY <1>1, <1>5 DEF MatrixInv, OnTheWay, Bound
<1>8. Risk'
  BY <1>1, <1>5 DEF MatrixInv, Risk
<1> QED
  BY <1>3, <1>4, <1>6, <1>7, <1>8 DEF MatrixInv

(* One second of one timer.                                                *)
LEMMA ServedOne ==
  ASSUME MatrixInv, NEW t \in Timers, NEW x, x = Served(t)
  PROVE  /\ x \in TimerState /\ x.is = timer[t].is /\ x.name = timer[t].name
         /\ x.active => timer[t].active
         /\ timer[t].is = "made" =>
              IF x.active
              THEN x.delay + x.served = x.start /\ (x.start > 0 => x.delay > 0)
              ELSE x.paused \/ x.served = IF x.start = 0 THEN 1 ELSE x.start
<1> DEFINE y == timer[t]
<1>1. y \in TimerState /\ MaxDelay \in Nat
  BY MatrixAssumption DEF MatrixInv, TimersOK
<1>2. y.is = "made" =>
        IF y.active
        THEN y.delay + y.served = y.start /\ (y.start > 0 => y.delay > 0)
        ELSE y.paused \/ y.served = IF y.start = 0 THEN 1 ELSE y.start
  BY DEF MatrixInv, TimerExact
<1>3. CASE ~Serves(t)
  BY <1>1, <1>2, <1>3 DEF Served
<1>4. CASE Serves(t)
  <2>1. y.active
    BY <1>4 DEF Serves
  <2>2. Left(t) \in 0..MaxDelay /\ Left(t) = IF y.delay = 0 THEN 0 ELSE y.delay - 1
    BY <1>1 DEF Left, TimerState
  <2>3. Elapses(t) <=> Left(t) = 0
    BY <1>4 DEF Elapses
  <2>4. x = [y EXCEPT !.delay = Left(t), !.active = ~Elapses(t), !.served = @ + 1]
    BY <1>4 DEF Served
  <2>5. /\ x.is = y.is /\ x.name = y.name /\ x.set = y.set /\ x.start = y.start
        /\ x.paused = y.paused /\ x.delay = Left(t) /\ x.served = y.served + 1
        /\ x.active = ~Elapses(t)
    BY <1>1, <2>4 DEF TimerState
  <2>6. x \in TimerState
    <3>1. (~Elapses(t)) \in BOOLEAN
      BY DEF Elapses
    <3>2. y.served + 1 \in Nat
      BY <1>1 DEF TimerState
    <3> QED
      BY <1>1, <2>2, <2>4, <3>1, <3>2 DEF TimerState
  <2>7. y.served \in Nat /\ y.delay \in Nat /\ y.start \in Nat
    BY <1>1 DEF TimerState
  <2>8. x.active <=> Left(t) # 0
    BY <2>3, <2>5
  <2>9. ASSUME y.is = "made"
        PROVE  IF x.active
               THEN x.delay + x.served = x.start /\ (x.start > 0 => x.delay > 0)
               ELSE x.paused \/ x.served = IF x.start = 0 THEN 1 ELSE x.start
    <3>1. y.delay + y.served = y.start /\ (y.start > 0 => y.delay > 0)
      BY <1>2, <2>1, <2>9
    <3>2. CASE Left(t) = 0
      <4>1. x.served = IF x.start = 0 THEN 1 ELSE x.start
        BY <2>2, <2>5, <2>7, <3>1, <3>2
      <4> QED
        BY <2>8, <3>2, <4>1
    <3>3. CASE Left(t) # 0
      <4>1. x.delay + x.served = x.start /\ x.delay > 0
        BY <2>2, <2>5, <2>7, <3>1, <3>3
      <4> QED
        BY <2>8, <3>3, <4>1
    <3> QED
      BY <3>2, <3>3
  <2> QED
    BY <2>1, <2>5, <2>6, <2>9
<1> QED
  BY <1>3, <1>4

LEMMA ServiceStep == ASSUME MatrixInv, Service PROVE MatrixInv'
<1>1. UNCHANGED <<rows, lock, now, last, cmd, risky>> /\ ticked' = FALSE /\ main.at = "service"
  BY DEF Service, sessions
<1>2. lock # Main
  BY <1>1 DEF MatrixInv, LockOK
<1>3. RowsOK' /\ CmdOK' /\ ClockOK'
  BY <1>1, Kept
<1>4. Flags'
  BY <1>1 DEF MatrixInv, Flags
<1>5. CASE \E t \in Timers : timer[t].is = "null"
  <2>1. UNCHANGED <<timer, var>> /\ main' \in Go /\ main'.at = "crashed"
    BY <1>5, Goings DEF Service, Crash, Places
  <2>2. MainOK' /\ LockOK' /\ main'.at = "crashed"
    BY <1>1, <1>2, <2>1, GoStep
  <2>3. Risk' /\ OnTheWay'
    BY <1>1, <1>5, <2>1, <2>2 DEF MatrixInv, Risk, OnTheWay, Bound
  <2> QED
    BY <1>3, <1>4, <2>1, <2>2, <2>3, Kept DEF MatrixInv
<1>6. CASE ~\E t \in Timers : timer[t].is = "null"
  <2>1. /\ timer' = [t \in Timers |-> Served(t)]
        /\ var' \in [Names -> {"missing", "false", "true", "freed"}]
        /\ \A n \in Names :
             LET due == {t \in Timers : timer[t].name = n /\ Elapses(t)}
             IN  IF due = {} \/ var[n] = "freed" THEN var'[n] = var[n]
                 ELSE \E t \in due : var'[n] = IF timer[t].set THEN "true" ELSE "false"
    BY <1>6 DEF Service
  <2>2. \/ main' = At("random")
        \/ main' = At("crashed") /\ \E t \in Timers : Elapses(t) /\ var[timer[t].name] = "freed"
    BY <1>6 DEF Service, Crash
  <2>3. VarsOK' /\ \A n \in Names : var'[n] = "freed" => var[n] = "freed"
    <3>1. ASSUME NEW n \in Names, var'[n] = "freed" PROVE var[n] = "freed"
      BY <2>1, <3>1
    <3> QED
      BY <2>1, <3>1 DEF VarsOK
  <2>4. \A t \in Timers : /\ timer'[t] \in TimerState /\ timer'[t].is = timer[t].is
                          /\ timer'[t].name = timer[t].name
                          /\ timer'[t].active => timer[t].active
    BY <2>1, ServedOne
  <2>5. TimersOK'
    BY <2>1, <2>4 DEF TimersOK, MatrixInv
  <2>6. TimerExact'
    BY <2>1, ServedOne DEF TimerExact
  <2>7. (\E t \in Timers : Elapses(t) /\ var[timer[t].name] = "freed") => risky
    BY DEF Elapses, Serves, MatrixInv, Risk, TimersOK
  <2>8. MainOK' /\ LockOK' /\ main'.at \in {"random", "crashed"}
    <3>1. main' \in Go /\ main'.at \in {"random", "crashed"}
      BY <2>2, Goings DEF Places
    <3> QED
      BY <1>1, <1>2, <3>1, GoStep
  <2>9. OnTheWay'
    BY <2>8 DEF OnTheWay, Bound
  <2>10. Risk'
    <3>1. main'.at = "crashed" => risky
      BY <2>2, <2>7 DEF At
    <3>2. \A t \in Timers : timer'[t].is = "null" => risky
      BY <2>4 DEF MatrixInv, Risk
    <3>3. \A n \in Names : var'[n] = "freed" => risky
      BY <2>3 DEF MatrixInv, Risk
    <3> QED
      BY <1>1, <2>8, <3>1, <3>2, <3>3 DEF MatrixInv, Risk
  <2> QED
    BY <1>3, <1>4, <2>3, <2>5, <2>6, <2>8, <2>9, <2>10 DEF MatrixInv
<1> QED
  BY <1>5, <1>6

-----------------------------------------------------------------------------
(* Into the rows and out of them.                                          *)
LEMMA EdgeStep == ASSUME MatrixInv, FeedLock \/ FeedEnd PROVE MatrixInv'
<1>1. UNCHANGED <<rows, timer, var, now, ticked, last, cmd, risky>>
  BY DEF FeedLock, FeedEnd, clock, sessions
<1>2. RowsOK' /\ TimersOK' /\ TimerExact' /\ VarsOK' /\ ClockOK' /\ CmdOK' /\ Flags'
  BY <1>1, Kept
<1>3. CASE FeedLock
  <2>1. main.at = "feed" /\ lock' = Main /\ main' = [main EXCEPT !.at = "row"]
    BY <1>3 DEF FeedLock
  <2>2. MainOK' /\ main'.at = "row" /\ main'.then = main.then
    BY <2>1 DEF MatrixInv, MainOK, Places
  <2>3. LockOK' /\ OnTheWay' /\ Risk'
    BY <1>1, <2>1, <2>2, MatrixAssumption DEF MatrixInv, LockOK, OnTheWay, Bound, Risk
  <2> QED
    BY <1>2, <2>2, <2>3 DEF MatrixInv
<1>4. CASE FeedEnd
  <2>1. main.at = "row" /\ lock' = None
    BY <1>4 DEF FeedEnd, InFeed
  <2>2. main.then \in Thens /\ main' = At(main.then)
    BY <1>4 DEF FeedEnd, MatrixInv, MainOK
  <2>3. MainOK' /\ LockOK' /\ main'.at = main.then
    <3>1. main.then \in Places \ {"row"}
      BY <2>2 DEF Places, Thens
    <3> QED
      BY <2>1, <2>2, <3>1, GoStep, Goings
  <2>4. OnTheWay'
    BY <1>1, <2>1, <2>2, <2>3 DEF MatrixInv, OnTheWay, Bound, Thens
  <2>5. Risk'
    BY <1>1, <2>1, <2>2, <2>3, MatrixAssumption DEF MatrixInv, Risk, Thens
  <2> QED
    BY <1>2, <2>3, <2>4, <2>5 DEF MatrixInv
<1> QED
  BY <1>3, <1>4

(* The next row, or the end of the daemon.                                 *)
LEMMA RowGo ==
  ASSUME MatrixInv, InFeed, Matching # {}, UNCHANGED <<lock, now, last, ticked, cmd>>,
         Ahead \/ ((Crash \/ main' = At("stuck")) /\ risky'),
         risky => risky', risky' \in BOOLEAN
  PROVE  /\ MainOK' /\ LockOK' /\ ClockOK' /\ CmdOK' /\ OnTheWay' /\ Flags'
         /\ main'.at \in {"crashed", "stuck"} => risky'
         /\ \A s \in Sessions : lock' = s => risky'
<1>1. ClockOK' /\ CmdOK' /\ main.at = "row"
  BY Kept DEF InFeed
<1>2. Flags' /\ \A s \in Sessions : lock' = s => risky'
  BY DEF MatrixInv, Flags, Risk
<1>3. CASE Ahead
  <2>1. Hit + 1 \in Nat \ {0} /\ main' = [main EXCEPT !.i = Hit + 1]
    BY <1>3, HitIsRow DEF Ahead, MatrixInv
  <2>2. MainOK' /\ main'.at = "row" /\ main'.then = main.then
    BY <1>1, <2>1 DEF MatrixInv, MainOK
  <2>3. LockOK' /\ OnTheWay'
    BY <1>1, <2>2 DEF MatrixInv, LockOK, OnTheWay, Bound
  <2> QED
    BY <1>1, <1>2, <2>2, <2>3
<1>4. CASE (Crash \/ main' = At("stuck")) /\ risky'
  <2>1. main' \in Go /\ main'.at \in {"crashed", "stuck"}
    BY <1>4, Goings DEF Crash, Places
  <2>2. MainOK' /\ LockOK' /\ main'.at \in {"crashed", "stuck"}
    BY <2>1, GoStep
  <2>3. OnTheWay'
    BY <2>2 DEF OnTheWay, Bound
  <2> QED
    BY <1>1, <1>2, <1>4, <2>2, <2>3
<1> QED
  BY <1>3, <1>4

(* The actions that touch neither the timers nor the rows.                 *)
LEMMA VarStep ==
  ASSUME MatrixInv, InFeed, Matching # {}, UNCHANGED <<timer, lock, now, last, ticked, cmd>>,
         Ahead \/ ((Crash \/ main' = At("stuck")) /\ risky'),
         risky => risky', risky' \in BOOLEAN, RowsOK', VarsOK',
         \A n \in Names : var'[n] = "freed" => var[n] = "freed" \/ risky'
  PROVE  MatrixInv'
<1>1. /\ MainOK' /\ LockOK' /\ ClockOK' /\ CmdOK' /\ OnTheWay' /\ Flags'
      /\ main'.at \in {"crashed", "stuck"} => risky'
      /\ \A s \in Sessions : lock' = s => risky'
  BY RowGo
<1>2. TimersOK' /\ TimerExact'
  BY Kept
<1>3. Risk'
  BY <1>1 DEF MatrixInv, Risk
<1> QED
  BY <1>1, <1>2, <1>3 DEF MatrixInv

LEMMA ActStep ==
  ASSUME MatrixInv,
         \/ RowRefused \/ RowStuck \/ RowAstray \/ RowRaces \/ ActNoop \/ ActExecute \/ ActSend
         \/ ActConditional \/ ActFile \/ ActWriteFile \/ ActGetURL \/ ActStore \/ ActAdd \/ ActSubtract \/ ActMultiply
         \/ ActDivide \/ ActResume \/ ActStop
  PROVE  MatrixInv'
<1>1. /\ InFeed /\ Matching # {}
      /\ UNCHANGED <<timer, lock, now, last, ticked, cmd>>
  BY DEF RowRefused, RowStuck, RowAstray, RowRaces, ActNoop, ActExecute, ActSend, ActConditional,
     ActFile, ActWriteFile, ActGetURL, ActStore, ActAdd, ActSubtract, ActMultiply, ActDivide,
     ActResume, ActStop, NothingBut, Arithmetic, Acts, Allowed, clock, sessions
<1>2. rows[Hit] \in Row /\ Hit \in 1..Len(rows) /\ risky \in BOOLEAN
  BY <1>1, HitIsRow DEF MatrixInv, Flags
<1>3. rows[Hit].var \in Names \cup {None} /\ None \notin Names
  BY <1>2, MatrixAssumption DEF Row
<1>4. VarsOK /\ \A n \in Names : var[n] = "freed" => risky
  BY DEF MatrixInv, Risk
<1>5. CASE RowRefused \/ \E a \in Actions : NothingBut(a)
  BY <1>1, <1>2, <1>5, VarStep, Kept DEF RowRefused, NothingBut
<1>6. CASE RowStuck \/ ActFile
  <2>1. UNCHANGED <<rows, var>> /\ (Ahead \/ (main' = At("stuck") /\ risky'))
        /\ (risky => risky') /\ risky' \in BOOLEAN
    BY <1>2, <1>6 DEF RowStuck, ActFile
  <2> QED
    BY <1>1, <2>1, VarStep, Kept
<1>7. CASE ActConditional \/ RowAstray \/ RowRaces
  <2>1. UNCHANGED <<rows, var>> /\ (Ahead \/ (Crash /\ risky'))
        /\ (risky => risky') /\ risky' \in BOOLEAN
    BY <1>2, <1>7 DEF ActConditional, RowAstray, RowRaces
  <2> QED
    BY <1>1, <2>1, VarStep, Kept
<1>8. CASE ActSend
  <2>1. risky' = risky /\ (rows' = rows \/ rows' = [rows EXCEPT ![Hit].var = None])
    BY <1>8 DEF ActSend
  <2>2. RowsOK'
    <3>1. rows \in Seq(Row)
      BY DEF MatrixInv, RowsOK
    <3>2. [rows[Hit] EXCEPT !.var = None] \in Row
      BY <1>2 DEF Row
    <3>3. [rows EXCEPT ![Hit] = [rows[Hit] EXCEPT !.var = None]] \in Seq(Row)
      BY <1>2, <3>1, <3>2, ExceptSeq
    <3> QED
      BY <2>1, <3>1, <3>3 DEF RowsOK
  <2>3. /\ \/ var' = var
           \/ rows[Hit].var # None /\ var' = [var EXCEPT ![rows[Hit].var] = "true"]
        /\ Ahead \/ (Crash /\ rows[Hit].var # None /\ var[rows[Hit].var] = "freed")
    BY <1>8 DEF ActSend, Created
  <2>4. VarsOK' /\ \A n \in Names : var'[n] = "freed" => var[n] = "freed"
    BY <1>3, <1>4, <2>3 DEF VarsOK
  <2>5. Ahead \/ (Crash /\ risky')
    BY <1>3, <1>4, <2>1, <2>3
  <2> QED
    BY <1>1, <1>2, <2>1, <2>2, <2>4, <2>5, VarStep
<1>9. CASE ActStore
  <2>1. UNCHANGED <<rows, risky>> /\ Ahead
    BY <1>9 DEF ActStore
  <2>2. VarsOK' /\ \A n \in Names : var'[n] = "freed" => var[n] = "freed"
    BY <1>3, <1>4, <1>9 DEF ActStore, VarsOK
  <2> QED
    BY <1>1, <1>2, <2>1, <2>2, VarStep, Kept
<1>10. ASSUME NEW a, Arithmetic(a) PROVE MatrixInv'
  <2> DEFINE n == rows[Hit].var
  <2>1. /\ UNCHANGED rows
        /\ var' = var \/ (n # None /\ var[n] = "missing" /\ var' = [var EXCEPT ![n] = "freed"])
        /\ risky' = (risky \/ (n # None /\ var[n] = "missing"))
        /\ Ahead \/ (n # None /\ var[n] = "freed" /\ Crash)
    BY <1>10 DEF Arithmetic
  <2>2. risky' \in BOOLEAN /\ (risky => risky')
    BY <1>2, <2>1
  <2>3. VarsOK' /\ \A m \in Names : var'[m] = "freed" => var[m] = "freed" \/ risky'
    BY <1>3, <1>4, <2>1 DEF VarsOK
  <2>4. Ahead \/ (Crash /\ risky')
    BY <1>3, <1>4, <2>1, <2>2
  <2>5. RowsOK'
    BY <2>1, Kept
  <2> QED
    BY <1>1, <2>2, <2>3, <2>4, <2>5, VarStep
<1> QED
  BY <1>5, <1>6, <1>7, <1>8, <1>9, <1>10 DEF ActNoop, ActExecute, ActWriteFile, ActGetURL,
     ActAdd, ActSubtract, ActMultiply, ActDivide, ActResume, ActStop, Actions

(* The actions that touch the timers.                                      *)
LEMMA TimerStep == ASSUME MatrixInv, ActStart \/ ActPause PROVE MatrixInv'
<1>1. /\ InFeed /\ Matching # {} /\ Ahead
      /\ UNCHANGED <<rows, lock, now, last, ticked, cmd>>
  BY DEF ActStart, ActPause, Acts, Allowed, clock, sessions
<1>2. rows[Hit] \in Row /\ risky \in BOOLEAN /\ RowsOK'
  BY <1>1, HitIsRow, Kept DEF MatrixInv, Flags
<1> DEFINE r == rows[Hit]
<1>3. /\ r.timer \in Timers /\ r.var \in Names \cup {None} /\ r.delay \in 0..MaxDelay
      /\ r.set \in BOOLEAN /\ None \notin Names /\ MaxDelay \in Nat
  BY <1>2, MatrixAssumption DEF Row
<1>4. timer \in [Timers -> TimerState] /\ VarsOK
  BY DEF MatrixInv, TimersOK
<1> HIDE DEF r
<1>5. ASSUME risky => risky', risky' \in BOOLEAN, TimersOK', TimerExact', VarsOK',
             \A t \in Timers : timer'[t].is = "null" => timer[t].is = "null" \/ risky',
             \A n \in Names : var'[n] = "freed" => var[n] = "freed"
      PROVE  MatrixInv'
  <2>1. /\ MainOK' /\ LockOK' /\ ClockOK' /\ CmdOK' /\ OnTheWay' /\ Flags'
        /\ main'.at \in {"crashed", "stuck"} => risky'
        /\ \A s \in Sessions : lock' = s => risky'
    BY <1>1, <1>5, RowGo
  <2>2. Risk'
    BY <1>5, <2>1 DEF MatrixInv, Risk
  <2> QED
    BY <1>2, <1>5, <2>1, <2>2 DEF MatrixInv
<1>6. CASE ActStart
  <2>1. risky' = risky
    BY <1>6 DEF ActStart
  <2>2. CASE r.var = None \/ timer[r.timer].is = "made"
    <3>1. UNCHANGED <<timer, var>>
      BY <1>6, <2>2 DEF ActStart, r
    <3> QED
      BY <1>2, <1>5, <2>1, <3>1, Kept
  <2>3. CASE ~(r.var = None \/ timer[r.timer].is = "made")
    <3>1. timer' = [timer EXCEPT ![r.timer] = Started(r)] /\ var' = Named(r)
      BY <1>6, <2>3 DEF ActStart, r
    <3>2. r.var \in Names
      BY <1>3, <2>3
    <3>3. /\ Started(r) \in TimerState /\ Started(r).is = "made" /\ Started(r).name = r.var
          /\ Started(r).active = TRUE /\ Started(r).served = 0
          /\ Started(r).delay = r.delay /\ Started(r).start = r.delay
      BY <1>3, <3>2 DEF Started, TimerState
    <3>4. /\ timer' \in [Timers -> TimerState] /\ timer'[r.timer] = Started(r)
          /\ \A t \in Timers \ {r.timer} : timer'[t] = timer[t]
      BY <1>3, <1>4, <3>1, <3>3
    <3>5. TimersOK'
      BY <3>2, <3>3, <3>4 DEF MatrixInv, TimersOK
    <3>6. TimerExact'
      <4>1. r.delay + 0 = r.delay
        BY <1>3
      <4> QED
        BY <3>3, <3>4, <4>1 DEF MatrixInv, TimerExact
    <3>7. VarsOK' /\ \A n \in Names : var'[n] = "freed" => var[n] = "freed"
      BY <1>4, <3>1, <3>2 DEF Named, Created, VarsOK
    <3>8. \A t \in Timers : timer'[t].is = "null" => timer[t].is = "null"
      BY <3>3, <3>4
    <3> QED
      BY <1>2, <1>5, <2>1, <3>5, <3>6, <3>7, <3>8
  <2> QED
    BY <2>2, <2>3
<1>7. CASE ActPause
  <2> DEFINE t == r.timer
  <2>1. var' = var /\ VarsOK'
    BY <1>7, Kept DEF ActPause
  <2>2. CASE timer[t].is = "made"
    <3>1. /\ timer' = [timer EXCEPT ![t].active = FALSE, ![t].paused = @ \/ timer[t].active]
          /\ risky' = risky
      BY <1>7, <2>2 DEF ActPause, r
    <3>2. timer[t] \in TimerState /\ (timer[t].paused \/ timer[t].active) \in BOOLEAN
      BY <1>3, <1>4 DEF TimerState
    <3>3. /\ timer' \in [Timers -> TimerState]
          /\ timer'[t] = [timer[t] EXCEPT !.active = FALSE, !.paused = timer[t].paused \/ timer[t].active]
          /\ \A u \in Timers \ {t} : timer'[u] = timer[u]
      <4>1. [timer[t] EXCEPT !.active = FALSE, !.paused = timer[t].paused \/ timer[t].active] \in TimerState
        BY <3>2 DEF TimerState
      <4>2. timer' = [timer EXCEPT ![t] = [timer[t] EXCEPT !.active = FALSE, !.paused = timer[t].paused \/ timer[t].active]]
        BY <1>3, <1>4, <3>1, <3>2 DEF TimerState
      <4> QED
        BY <1>3, <1>4, <4>1, <4>2
    <3>4. /\ timer'[t].is = "made" /\ timer'[t].active = FALSE /\ timer'[t].name = timer[t].name
          /\ timer'[t].served = timer[t].served /\ timer'[t].start = timer[t].start
          /\ timer'[t].paused <=> timer[t].paused \/ timer[t].active
      BY <2>2, <3>2, <3>3 DEF TimerState
    <3>5. TimersOK'
      BY <1>3, <2>2, <3>3, <3>4 DEF MatrixInv, TimersOK
    <3>6. TimerExact'
      <4>1. timer[t].active \/ timer[t].paused
            \/ timer[t].served = IF timer[t].start = 0 THEN 1 ELSE timer[t].start
        BY <1>3, <2>2 DEF MatrixInv, TimerExact
      <4>2. timer'[t].paused \/ timer'[t].served = IF timer'[t].start = 0 THEN 1 ELSE timer'[t].start
        BY <3>4, <4>1
      <4>3. ASSUME NEW u \in Timers, u # t, timer'[u].is = "made"
            PROVE  IF timer'[u].active
                   THEN timer'[u].delay + timer'[u].served = timer'[u].start
                        /\ (timer'[u].start > 0 => timer'[u].delay > 0)
                   ELSE timer'[u].paused
                        \/ timer'[u].served = IF timer'[u].start = 0 THEN 1 ELSE timer'[u].start
        <5>1. timer'[u] = timer[u]
          BY <3>3, <4>3
        <5> QED
          BY <4>3, <5>1 DEF MatrixInv, TimerExact
      <4> QED
        BY <3>4, <4>2, <4>3 DEF TimerExact
    <3>7. \A u \in Timers : timer'[u].is = "null" => timer[u].is = "null"
      BY <3>3, <3>4
    <3> QED
      BY <1>2, <1>5, <2>1, <3>1, <3>5, <3>6, <3>7
  <2>3. CASE timer[t].is # "made"
    <3>1. timer' = [timer EXCEPT ![t].is = "null"] /\ risky' = TRUE
      BY <1>7, <2>3 DEF ActPause, r
    <3>2. timer[t] \in TimerState
      BY <1>3, <1>4
    <3>3. /\ timer' \in [Timers -> TimerState] /\ timer'[t].is = "null"
          /\ timer'[t].active = timer[t].active
          /\ \A u \in Timers \ {t} : timer'[u] = timer[u]
      BY <1>3, <1>4, <3>1, <3>2 DEF TimerState
    <3>4. TimersOK'
      BY <2>3, <3>3 DEF MatrixInv, TimersOK
    <3>5. TimerExact'
      BY <3>3 DEF MatrixInv, TimerExact
    <3> QED
      BY <1>2, <1>5, <2>1, <3>1, <3>4, <3>5
  <2> QED
    BY <2>2, <2>3
<1> QED
  BY <1>6, <1>7

-----------------------------------------------------------------------------
(* The sessions.                                                           *)
LEMMA CommandStep == ASSUME MatrixInv, NEW s \in Sessions, Command(s) PROVE MatrixInv'
<1>1. PICK op \in {"silent", "all", "visit", "delete all", "delete", "add"}, todo \in Seq(Nat) :
         Begin(s, op, todo) /\ (op \in {"visit", "delete"} => todo # <<>>)
  <2>1. <<>> \in Seq(Nat) /\ <<0>> \in Seq(Nat) /\ <<0>> # <<>>
    OBVIOUS
  <2>2. ASSUME NEW todo \in Positions PROVE todo \in Seq(Nat) /\ todo # <<>>
    <3>1. PICK q \in 0..MaxRows : todo = <<0, q>>
      BY DEF Positions
    <3>2. 0 \in Nat /\ q \in Nat
      BY MatrixAssumption
    <3>3. <<0, q>> \in Seq(Nat) /\ Len(<<0, q>>) = 2
      BY <3>2
    <3> QED
      BY <3>1, <3>3
  <2> QED
    BY <2>1, <2>2 DEF Command, Unknown, Enable, Disable, List, Delete, Add, Trigger,
       ClearTriggerCount, ClearErrorCount
<1>2. /\ UNCHANGED <<rows, lock, main, timer, var, now, ticked, last, risky>>
      /\ cmd' = [cmd EXCEPT ![s] = [op |-> op, todo |-> todo]]
  BY <1>1 DEF Begin, clock
<1>3. CmdOK'
  BY <1>1, <1>2 DEF MatrixInv, CmdOK, Ops
<1>4. Risk'
  BY <1>2 DEF MatrixInv, Risk
<1> QED
  BY <1>2, <1>3, <1>4, Kept DEF MatrixInv

LEMMA LockedStep == ASSUME MatrixInv, NEW s \in Sessions, Running, Locked(s) PROVE MatrixInv'
<1>1. UNCHANGED <<timer, var, now, ticked, last>> /\ lock = None
  BY DEF Locked, WalkRows, DeleteAll, AtPosition, AddRow, clock
<1>2. TimersOK' /\ TimerExact' /\ VarsOK' /\ ClockOK' /\ lock # Main /\ s # Main
      /\ main.at \notin {"row", "crashed", "stuck"}
  BY <1>1, Kept, MatrixAssumption DEF MatrixInv, LockOK, Running
<1>3. rows \in Seq(Row) /\ Len(rows) \in Nat /\ cmd[s] \in [op: Ops, todo: Seq(Nat)]
  BY DEF MatrixInv, RowsOK, CmdOK
<1>4. ASSUME RowsOK', CmdOK', risky => risky', risky' \in BOOLEAN,
             \/ UNCHANGED <<main, lock>>
             \/ Crash /\ risky' /\ UNCHANGED lock
             \/ UNCHANGED main /\ lock' = s /\ risky'
      PROVE  MatrixInv'
  <2>1. Flags'
    BY <1>1, <1>4 DEF MatrixInv, Flags
  <2>2. CASE UNCHANGED <<main, lock>>
    <3>1. Risk'
      BY <1>1, <1>4, <2>2 DEF MatrixInv, Risk
    <3> QED
      BY <1>1, <1>2, <1>4, <2>1, <2>2, <3>1, Kept DEF MatrixInv
  <2>3. CASE Crash /\ risky' /\ UNCHANGED lock
    <3>1. MainOK' /\ LockOK' /\ main'.at = "crashed"
      BY <1>2, <2>3, GoStep, Goings DEF Crash, Places
    <3>2. OnTheWay' /\ Risk'
      BY <1>1, <2>3, <3>1 DEF OnTheWay, Bound, MatrixInv, Risk
    <3> QED
      BY <1>2, <1>4, <2>1, <3>1, <3>2 DEF MatrixInv
  <2>4. CASE UNCHANGED main /\ lock' = s /\ risky'
    <3>1. LockOK'
      BY <1>2, <2>4 DEF LockOK
    <3>2. Risk'
      BY <1>1, <2>4 DEF MatrixInv, Risk
    <3> QED
      BY <1>1, <1>2, <1>4, <2>1, <2>4, <3>1, <3>2, Kept DEF MatrixInv
  <2> QED
    BY <1>4, <2>2, <2>3, <2>4
<1>5. risky \in BOOLEAN
  BY DEF MatrixInv, Flags
<1>6. Answered(s) => CmdOK'
  <2>1. <<>> \in Seq(Nat)
    OBVIOUS
  <2>2. [op |-> "none", todo |-> <<>>] \in [op: Ops, todo: Seq(Nat)]
    BY <2>1 DEF Ops
  <2> QED
    BY <2>2 DEF Answered, MatrixInv, CmdOK
<1>7. CASE WalkRows(s)
  BY <1>4, <1>5, <1>6, <1>7, Kept DEF WalkRows
<1>8. CASE DeleteAll(s)
  <2>1. <<>> \in Seq(Row)
    OBVIOUS
  <2> QED
    BY <1>4, <1>5, <1>6, <1>8, <2>1 DEF DeleteAll, RowsOK
<1>9. CASE AtPosition(s)
  <2>1. cmd[s].op \in {"visit", "delete"} /\ cmd[s].todo # <<>> /\ cmd[s].todo \in Seq(Nat)
    BY <1>3, <1>9 DEF AtPosition, MatrixInv, CmdOK
  <2>2. Head(cmd[s].todo) \in Nat /\ Tail(cmd[s].todo) \in Seq(Nat)
    BY <2>1
  <2> DEFINE p == Head(cmd[s].todo) + 1
  <2>3. p \in Nat \ {0}
    BY <2>2
  <2>4. CASE rows = <<>> /\ Crash /\ risky' = TRUE /\ UNCHANGED <<rows, cmd, lock>>
    BY <1>4, <2>4, Kept
  <2>5. CASE Answered(s) /\ UNCHANGED <<rows, main, risky, lock>>
    BY <1>4, <1>5, <1>6, <2>5, Kept
  <2>6. CASE /\ p <= Len(rows)
             /\ rows' = IF cmd[s].op = "delete"
                        THEN SubSeq(rows, 1, p - 1) \o SubSeq(rows, p + 1, Len(rows)) ELSE rows
             /\ IF Tail(cmd[s].todo) = <<>> THEN Answered(s)
                ELSE cmd' = [cmd EXCEPT ![s].todo = Tail(@)]
             /\ UNCHANGED <<main, risky, lock>>
    <3>1. RowsOK'
      <4>1. SubSeq(rows, 1, p - 1) \in Seq(Row)
        <5>1. \A i \in 1..(p - 1) : rows[i] \in Row
          BY <1>3, <2>3, <2>6
        <5> QED
          BY <2>3, <5>1, SubSeqProperties
      <4>2. SubSeq(rows, p + 1, Len(rows)) \in Seq(Row)
        <5>1. \A i \in (p + 1)..Len(rows) : rows[i] \in Row
          BY <1>3, <2>3
        <5> QED
          BY <1>3, <2>3, <5>1, SubSeqProperties
      <4>3. SubSeq(rows, 1, p - 1) \o SubSeq(rows, p + 1, Len(rows)) \in Seq(Row)
        BY <4>1, <4>2, ConcatProperties
      <4> QED
        BY <1>3, <2>6, <4>3 DEF RowsOK
    <3>2. CmdOK'
      <4>1. CASE Tail(cmd[s].todo) = <<>>
        BY <1>6, <2>6, <4>1
      <4>2. CASE Tail(cmd[s].todo) # <<>>
        <5>1. cmd' = [cmd EXCEPT ![s].todo = Tail(@)]
          BY <2>6, <4>2
        <5> QED
          BY <1>3, <2>2, <4>2, <5>1 DEF MatrixInv, CmdOK
      <4> QED
        BY <4>1, <4>2
    <3> QED
      BY <1>4, <1>5, <2>6, <3>1, <3>2
  <2> QED
    BY <1>9, <2>4, <2>5, <2>6 DEF AtPosition
<1>10. CASE AddRow(s)
  <2>1. CASE lock' = s /\ risky' = TRUE /\ cmd' = [cmd EXCEPT ![s].op = "blocked"] /\ UNCHANGED <<rows, main>>
    <3>1. CmdOK'
      BY <1>3, <2>1 DEF MatrixInv, CmdOK, Ops
    <3> QED
      BY <1>4, <2>1, <3>1, Kept
  <2>2. CASE /\ \E r \in NewRows : rows' = IF Len(rows) < MaxRows THEN Append(rows, r) ELSE rows
             /\ Answered(s) /\ UNCHANGED <<lock, risky, main>>
    <3>1. RowsOK'
      BY <1>3, <2>2, MatrixAssumption DEF RowsOK
    <3> QED
      BY <1>4, <1>5, <1>6, <2>2, <3>1
  <2> QED
    BY <1>10, <2>1, <2>2 DEF AddRow
<1> QED
  BY <1>7, <1>8, <1>9, <1>10 DEF Locked

-----------------------------------------------------------------------------
(* The clock, the commands for variables, the order to stop.               *)
LEMMA RestStep == ASSUME MatrixInv, Tick \/ Stop \/ \E n \in Names : VariableChanged(n) PROVE MatrixInv'
<1>1. UNCHANGED <<rows, lock, main, timer, last, cmd, risky>>
  BY DEF Tick, Stop, VariableChanged, clock, sessions
<1>2. RowsOK' /\ LockOK' /\ MainOK' /\ TimersOK' /\ TimerExact' /\ CmdOK'
  BY <1>1, Kept
<1>3. CASE Tick
  <2>1. now' = (now + 1) % (2 * Minute) /\ ticked' = TRUE /\ var' = var
    BY <1>3 DEF Tick
  <2>2. ClockOK'
    <3>1. now + 1 \in Nat /\ 2 * Minute \in Nat \ {0}
      BY MatrixAssumption DEF MatrixInv, ClockOK
    <3>2. (now + 1) % (2 * Minute) \in 0..(2 * Minute - 1)
      BY <3>1
    <3> QED
      BY <1>1, <2>1, <3>2 DEF MatrixInv, ClockOK
  <2>3. OnTheWay' /\ Flags' /\ Risk' /\ VarsOK'
    BY <1>1, <2>1 DEF MatrixInv, OnTheWay, Flags, Risk, VarsOK
  <2> QED
    BY <1>2, <2>2, <2>3 DEF MatrixInv
<1>4. CASE Stop
  <2>1. UNCHANGED <<var, now, ticked>>
    BY <1>4 DEF Stop, clock
  <2>2. Risk'
    BY <1>1, <2>1 DEF MatrixInv, Risk
  <2> QED
    BY <1>1, <1>2, <2>1, <2>2, Kept DEF MatrixInv
<1>5. CASE \E n \in Names : VariableChanged(n)
  <2>1. UNCHANGED <<now, ticked>>
    BY <1>5 DEF VariableChanged, clock
  <2>2. PICK n \in Names, v \in {"missing", "false", "true"} : var' = [var EXCEPT ![n] = v]
    BY <1>5 DEF VariableChanged
  <2>3. VarsOK' /\ \A m \in Names : var'[m] = "freed" => var[m] = "freed"
    BY <2>2 DEF MatrixInv, VarsOK
  <2>4. Risk'
    BY <1>1, <2>3 DEF MatrixInv, Risk
  <2> QED
    BY <1>1, <1>2, <2>1, <2>3, <2>4, Kept DEF MatrixInv
<1> QED
  BY <1>3, <1>4, <1>5

-----------------------------------------------------------------------------
(* The invariant on which the others rest, for any matrix.                 *)
THEOREM MatrixInvariant == Spec => []MatrixInv
<1>1. MatrixInv /\ [Next]_vars => MatrixInv'
  <2> SUFFICES ASSUME MatrixInv, [Next]_vars PROVE MatrixInv'
    OBVIOUS
  <2>1. CASE UNCHANGED vars
    <3>1. UNCHANGED <<rows, lock, main, timer, var, now, ticked, last, cmd, risky>>
      BY <2>1 DEF vars, clock, sessions
    <3>2. Risk'
      BY <3>1 DEF MatrixInv, Risk
    <3> QED
      BY <3>1, <3>2, Kept DEF MatrixInv
  <2>2. CASE Next
    BY <2>2, LoopStep, ServiceStep, EdgeStep, ActStep, TimerStep, CommandStep, LockedStep, RestStep
       DEF Next, MainThread, Loop, Act
  <2> QED
    BY <2>1, <2>2
<1> QED
  BY <1>1, MatrixInit, PTL DEF Spec

(* The rows, timers and variables are of their types, and the main thread  *)
(* is among the rows only with m_mutexDM.                                  *)
THEOREM MatrixTypeCorrect == Spec => []TypeOK
<1>1. MatrixInv => TypeOK
  <2> SUFFICES ASSUME MatrixInv PROVE TypeOK
    OBVIOUS
  <2>1. main.at \in Places
    BY DEF MatrixInv, MainOK
  <2> QED
    BY <2>1 DEF MatrixInv, RowsOK, LockOK, TimersOK, VarsOK, ClockOK, TypeOK, Places
<1> QED
  BY <1>1, MatrixInvariant, PTL

(* A timer is served exactly once for each second of its delay.            *)
THEOREM TimersExact == Spec => []TimerExact
<1>1. MatrixInv => TimerExact
  BY DEF MatrixInv
<1> QED
  BY <1>1, MatrixInvariant, PTL

(* What stops the daemon in the matrix is one of the nine known causes.    *)
THEOREM OnlyKnownStops == Spec => []StopsOnlyKnown
<1>1. MatrixInv => StopsOnlyKnown
  BY DEF MatrixInv, Risk, StopsOnlyKnown
<1> QED
  BY <1>1, MatrixInvariant, PTL

(* Between two turns of the timers a second has passed.                    *)
THEOREM ServedOnceASecond == Spec => OnceASecond
<1>1. MatrixInv /\ [Next]_vars => [main.at = "service" /\ main'.at # "service" => ticked]_vars
  BY DEF MatrixInv, OnTheWay, Bound
<1> QED
  BY <1>1, MatrixInvariant, PTL DEF Spec, OnceASecond
=============================================================================

-------------------------------- MODULE Timers --------------------------------
(***************************************************************************)
(* firmware/timers.c: software timers.  The tick interrupt decrements the  *)
(* counters of the enabled timers; the main loop calls timer_update(),     *)
(* which fires those that reached zero.  Callbacks run in the main program *)
(* and may call the timers functions.                                      *)
(*                                                                         *)
(* The processor moves one byte at a time and the module masks no          *)
(* interrupts, so a 16-bit counter is read and written in two steps, the   *)
(* compiler choosing which half comes first, and the interrupt can fall    *)
(* between them.  A counter is a number below Base * Base (Base is 256 in  *)
(* the firmware).  "pdata" and "clock" have no effect here and are left    *)
(* out.                                                                    *)
(***************************************************************************)
EXTENDS Naturals

CONSTANTS TimersMax,   \* TIMERS_MAX
          Base,        \* values of one byte
          Period,      \* tick counts the program asks for
          NULL

Id == 0 .. TimersMax - 1
Count == 0 .. Base * Base - 1
Half == {"lo", "hi"}

ASSUME TimersAssumption == /\ TimersMax \in Nat \ {0}
                           /\ Base \in Nat \ {0, 1}
                           /\ Period \subseteq Count
                           /\ NULL # "function"

VARIABLES flags,      \* timers[i].flags, the set of its bits
          ticks,      \* timers[i].ticks
          counter,    \* timers[i].counter
          callback,   \* timers[i].callback: NULL or a function
          irq,        \* the interrupt has run since the last full scan
          pc,         \* where the main program is
          k,          \* the timer timer_update() is at
          half,       \* the half of a counter still to be read or written
          call,       \* the timers function being called, with its arguments
          from,       \* "loop" or "callback": who called it
          age,        \* history: ticks since the timer was last started
          armed       \* history: started and neither fired nor stopped since

vars == <<flags, ticks, counter, callback, irq, pc, k, half, call, from, age, armed>>
timerVars == <<flags, ticks, counter, callback>>
history == <<age, armed>>

NoCall == [fn |-> "none", id |-> 0, ticks |-> 0, flags |-> {}]

\* Once a timer is older than the longest period its age no longer matters.
AgeMax == CHOOSE m \in Period : \A p \in Period : p <= m

Other(h) == IF h = "lo" THEN "hi" ELSE "lo"
HalfOf(c, h) == IF h = "lo" THEN c % Base ELSE c \div Base
WriteHalf(c, v, h) ==
  IF h = "lo" THEN (c \div Base) * Base + (v % Base)
              ELSE (v \div Base) * Base + (c % Base)

Init ==
  /\ flags = [i \in Id |-> {}]
  /\ ticks = [i \in Id |-> 0]
  /\ counter = [i \in Id |-> 0]
  /\ callback = [i \in Id |-> NULL]
  /\ irq = FALSE
  /\ pc = "work"
  /\ k = 0
  /\ half = "lo"
  /\ call = NoCall
  /\ from = "loop"
  /\ age = [i \in Id |-> 0]
  /\ armed = [i \in Id |-> FALSE]

-----------------------------------------------------------------------------
(* timer_interrupt() *)

Running(i) == "enabled" \in flags[i]

Older == [i \in Id |-> IF Running(i) /\ age[i] < AgeMax THEN age[i] + 1 ELSE age[i]]

\* A plausible bug: zero is decremented too.
TickPastZero ==
  /\ counter' = [i \in Id |-> IF Running(i) THEN counter[i] - 1 ELSE counter[i]]
  /\ irq' = TRUE
  /\ age' = Older
  /\ UNCHANGED <<flags, ticks, callback, pc, k, half, call, from, armed>>

\* A plausible bug: the scan is requested only when a counter moved.
TickQuiet ==
  /\ counter' = [i \in Id |-> IF Running(i) /\ counter[i] > 0
                              THEN counter[i] - 1 ELSE counter[i]]
  /\ irq' = (irq \/ counter' # counter)
  /\ age' = Older
  /\ UNCHANGED <<flags, ticks, callback, pc, k, half, call, from, armed>>

Tick ==
  /\ counter' = [i \in Id |-> IF Running(i) /\ counter[i] > 0
                              THEN counter[i] - 1 ELSE counter[i]]
  /\ irq' = TRUE
  /\ age' = Older
  /\ UNCHANGED <<flags, ticks, callback, pc, k, half, call, from, armed>>

-----------------------------------------------------------------------------
(* The functions other code calls, from the main loop or from a callback.  *)
(* A call that returns an error changes nothing and is not a step.         *)

\* Bound: one call per turn of the main loop and per callback.
MayCall == pc \in {"work", "callback"}

Returned == pc' = (IF from = "loop" THEN "update" ELSE "returned")

\* timer_add() takes the first slot that is not valid.
Add(cb) ==
  \E i \in Id :
    /\ MayCall
    /\ "valid" \notin flags[i]
    /\ \A j \in 0 .. i - 1 : "valid" \in flags[j]
    /\ flags' = [flags EXCEPT ![i] = @ \union {"valid"}]
    /\ ticks' = [ticks EXCEPT ![i] = 0]
    /\ counter' = [counter EXCEPT ![i] = 0]
    /\ callback' = [callback EXCEPT ![i] = cb]
    /\ pc' = IF pc = "work" THEN "update" ELSE "returned"
    /\ UNCHANGED <<irq, k, half, call, from, history>>

\* timer_set() stores ticks, then the counter ...
SetBegin(i, t, fl) ==
  /\ MayCall
  /\ "valid" \in flags[i]
  /\ ticks' = [ticks EXCEPT ![i] = t]
  /\ \E h \in Half :
       /\ counter' = [counter EXCEPT ![i] = WriteHalf(@, t, h)]
       /\ half' = Other(h)
  /\ call' = [fn |-> "set", id |-> i, ticks |-> t, flags |-> fl]
  /\ from' = IF pc = "work" THEN "loop" ELSE "callback"
  /\ pc' = "second"
  /\ age' = [age EXCEPT ![i] = 0]
  /\ UNCHANGED <<flags, callback, irq, k, armed>>

\* A plausible bug: timer_enable() does not reload the counter.
EnableBeginKeepsCount(i) ==
  /\ MayCall
  /\ ticks[i] # 0
  /\ flags' = [flags EXCEPT ![i] = @ \union {"enabled"}]
  /\ pc' = IF pc = "work" THEN "update" ELSE "returned"
  /\ age' = [age EXCEPT ![i] = 0]
  /\ armed' = [armed EXCEPT ![i] = TRUE]
  /\ UNCHANGED <<ticks, counter, callback, irq, k, half, call, from>>

\* ... and timer_enable() sets the flag, then the counter from ticks.
EnableBegin(i) ==
  /\ MayCall
  /\ ticks[i] # 0
  /\ flags' = [flags EXCEPT ![i] = @ \union {"enabled"}]
  /\ call' = [fn |-> "enable", id |-> i, ticks |-> ticks[i], flags |-> {}]
  /\ from' = IF pc = "work" THEN "loop" ELSE "callback"
  /\ pc' = "first"
  /\ age' = [age EXCEPT ![i] = 0]
  /\ armed' = [armed EXCEPT ![i] = TRUE]
  /\ UNCHANGED <<ticks, counter, callback, irq, k, half>>

EnableFirst ==
  /\ pc = "first"
  /\ \E h \in Half :
       /\ counter' = [counter EXCEPT ![call.id] = WriteHalf(@, call.ticks, h)]
       /\ half' = Other(h)
  /\ pc' = "second"
  /\ age' = [age EXCEPT ![call.id] = 0]
  /\ UNCHANGED <<flags, ticks, callback, irq, k, call, from, armed>>

\* The second half of the counter, written by timer_enable() ...
EnableEnd ==
  /\ pc = "second"
  /\ call.fn = "enable"
  /\ counter' = [counter EXCEPT ![call.id] = WriteHalf(@, call.ticks, half)]
  /\ call' = NoCall
  /\ Returned
  /\ UNCHANGED <<flags, ticks, callback, irq, k, half, from, history>>

\* ... and by timer_set(), which then stores the flags.
SetSecond ==
  /\ pc = "second"
  /\ call.fn = "set"
  /\ counter' = [counter EXCEPT ![call.id] = WriteHalf(@, call.ticks, half)]
  /\ pc' = "flags"
  /\ UNCHANGED <<flags, ticks, callback, irq, k, half, call, from, history>>

SetEnd ==
  /\ pc = "flags"
  /\ flags' = [flags EXCEPT ![call.id] = call.flags \union {"valid"}]
  /\ armed' = [armed EXCEPT ![call.id] = "enabled" \in call.flags]
  /\ call' = NoCall
  /\ Returned
  /\ UNCHANGED <<ticks, counter, callback, irq, k, half, from, age>>

\* A plausible bug: ticks outlives the timer, so that its id can be enabled.
RemoveKeepsTicks(i) ==
  /\ MayCall
  /\ flags' = [flags EXCEPT ![i] = @ \ {"valid", "enabled"}]
  /\ counter' = [counter EXCEPT ![i] = 0]
  /\ armed' = [armed EXCEPT ![i] = FALSE]
  /\ pc' = IF pc = "work" THEN "update" ELSE "returned"
  /\ UNCHANGED <<ticks, callback, irq, k, half, call, from, age>>

\* timer_remove(): after the first store the interrupt ignores the timer.
Remove(i) ==
  /\ MayCall
  /\ flags' = [flags EXCEPT ![i] = @ \ {"valid", "enabled"}]
  /\ ticks' = [ticks EXCEPT ![i] = 0]
  /\ counter' = [counter EXCEPT ![i] = 0]
  /\ armed' = [armed EXCEPT ![i] = FALSE]
  /\ pc' = IF pc = "work" THEN "update" ELSE "returned"
  /\ UNCHANGED <<callback, irq, k, half, call, from, age>>

Disable(i) ==
  /\ MayCall
  /\ flags' = [flags EXCEPT ![i] = @ \ {"enabled"}]
  /\ armed' = [armed EXCEPT ![i] = FALSE]
  /\ pc' = IF pc = "work" THEN "update" ELSE "returned"
  /\ UNCHANGED <<ticks, counter, callback, irq, k, half, call, from, age>>

Call ==
  \/ Add("function")
  \/ \E i \in Id, t \in Period, fl \in SUBSET {"enabled", "auto"} : SetBegin(i, t, fl)
  \/ \E i \in Id : EnableBegin(i) \/ Remove(i) \/ Disable(i)

CallStep == EnableFirst \/ EnableEnd \/ SetSecond \/ SetEnd

-----------------------------------------------------------------------------
(* timer_update() *)

\* The main loop reaches timer_update() in every turn ...
Work ==
  /\ pc = "work"
  /\ pc' = "update"
  /\ UNCHANGED <<timerVars, irq, k, half, call, from, history>>

\* ... which does nothing unless the interrupt has run.
UpdateBegin ==
  /\ pc = "update"
  /\ pc' = IF irq THEN "scan" ELSE "work"
  /\ k' = 0
  /\ UNCHANGED <<timerVars, irq, half, call, from, history>>

\* A timer that is not enabled, or whose half read first is not zero.
ScanSkip ==
  /\ pc = "scan"
  /\ k \in Id
  /\ Running(k) => \E h \in Half : HalfOf(counter[k], h) # 0
  /\ k' = k + 1
  /\ UNCHANGED <<timerVars, irq, pc, half, call, from, history>>

ScanRead ==
  /\ pc = "scan"
  /\ k \in Id
  /\ Running(k)
  /\ \E h \in Half :
       /\ HalfOf(counter[k], h) = 0
       /\ half' = Other(h)
  /\ pc' = "read"
  /\ UNCHANGED <<timerVars, irq, k, call, from, history>>

ScanNonzero ==
  /\ pc = "read"
  /\ HalfOf(counter[k], half) # 0
  /\ pc' = "scan"
  /\ k' = k + 1
  /\ UNCHANGED <<timerVars, irq, half, call, from, history>>

ScanZero ==
  /\ pc = "read"
  /\ HalfOf(counter[k], half) = 0
  /\ pc' = "due"
  /\ UNCHANGED <<timerVars, irq, k, half, call, from, history>>

\* A plausible bug: a timer that fired stays enabled.
FireOnceStaysEnabled ==
  /\ pc = "due"
  /\ "auto" \notin flags[k]
  /\ armed' = [armed EXCEPT ![k] = FALSE]
  /\ pc' = "callback"
  /\ UNCHANGED <<timerVars, irq, k, half, call, from, age>>

\* A due timer that is not automatic is disabled before its callback runs.
FireOnce ==
  /\ pc = "due"
  /\ "auto" \notin flags[k]
  /\ flags' = [flags EXCEPT ![k] = @ \ {"enabled"}]
  /\ armed' = [armed EXCEPT ![k] = FALSE]
  /\ pc' = "callback"
  /\ UNCHANGED <<ticks, counter, callback, irq, k, half, call, from, age>>

\* An automatic one is reloaded, half by half.
ReloadFirst ==
  /\ pc = "due"
  /\ "auto" \in flags[k]
  /\ \E h \in Half :
       /\ counter' = [counter EXCEPT ![k] = WriteHalf(@, ticks[k], h)]
       /\ half' = Other(h)
  /\ age' = [age EXCEPT ![k] = 0]
  /\ pc' = "reload"
  /\ UNCHANGED <<flags, ticks, callback, irq, k, call, from, armed>>

ReloadSecond ==
  /\ pc = "reload"
  /\ counter' = [counter EXCEPT ![k] = WriteHalf(@, ticks[k], half)]
  /\ pc' = "callback"
  /\ UNCHANGED <<flags, ticks, callback, irq, k, half, call, from, history>>

\* The callback returns, having called at most one function (Call).
CallbackReturn ==
  /\ pc \in {"callback", "returned"}
  /\ pc' = "scan"
  /\ k' = k + 1
  /\ UNCHANGED <<timerVars, irq, half, call, from, history>>

\* irq = 0 also forgets a tick that came during the scan.
UpdateEnd ==
  /\ pc = "scan"
  /\ k = TimersMax
  /\ irq' = FALSE
  /\ pc' = "work"
  /\ UNCHANGED <<timerVars, k, half, call, from, history>>

Update ==
  \/ UpdateBegin
  \/ ScanSkip
  \/ ScanRead
  \/ ScanNonzero
  \/ ScanZero
  \/ FireOnce
  \/ ReloadFirst
  \/ ReloadSecond
  \/ CallbackReturn
  \/ UpdateEnd

-----------------------------------------------------------------------------
Main == Work \/ Call \/ CallStep \/ Update

Next == Tick \/ Main

Spec == Init /\ [][Next]_vars

\* The hardware keeps ticking and the main program keeps running; main.c
\* calls timer_update() in every turn of its loop.
FairSpec == Spec /\ WF_vars(Tick) /\ WF_vars(Main)

-----------------------------------------------------------------------------
(* Every variable keeps to the values its C type and use give it.          *)
TypeOK ==
  /\ flags \in [Id -> SUBSET {"enabled", "auto", "valid"}]
  /\ ticks \in [Id -> Count]
  /\ counter \in [Id -> Count]
  /\ callback \in [Id -> {NULL, "function"}]
  /\ irq \in BOOLEAN
  /\ pc \in {"work", "first", "second", "flags", "update", "scan", "read", "due",
             "reload", "callback", "returned"}
  /\ k \in 0 .. TimersMax
  /\ half \in Half
  /\ call \in [fn : {"none", "set", "enable"}, id : Id, ticks : Count,
               flags : SUBSET {"enabled", "auto"}]
  /\ from \in {"loop", "callback"}
  /\ age \in [Id -> Nat]
  /\ armed \in [Id -> BOOLEAN]

\* An enabled timer has an owner and a function to call, although
\* timer_enable() checks neither: timer_update() never calls through NULL
\* and timer_add() never hands out a slot that is already running.
EnabledIsOwned ==
  \A i \in Id : Running(i) => "valid" \in flags[i] /\ callback[i] # NULL

\* timer_update() fires only what was started and has neither fired (unless
\* automatic) nor been disabled or removed since, be it by a callback that
\* ran earlier in the same scan.
FiresOnlyArmed == [][pc = "read" /\ pc' = "due" => armed[k]]_vars

\* timers.c, timer_update(): "If timer's tick count is zero then function
\* calls callback function".  So no timer fires before as many ticks have
\* passed since it was started as it was set to.
NoEarlyFire == [][pc = "read" /\ pc' = "due" => age[k] >= ticks[k]]_vars

\* An enabled timer does not stay so for ever without firing, unless the
\* program keeps restarting it, although the interrupt's request for a scan
\* is lost when it comes during one.
EnabledIsServed ==
  \A i \in Id : []<>( \/ ~Running(i)
                      \/ pc = "due" /\ k = i
                      \/ call.id = i /\ call # NoCall)
=============================================================================

------------------------------- MODULE Electrs -------------------------------
(***************************************************************************)
(* server/src/electrs.rs: the gate through which every question to the     *)
(* Electrs backend goes.                                                   *)
(*                                                                         *)
(* The callers are tasks: the transport loop, the watcher, and the health  *)
(* probes of the web UI, whose futures are dropped when the browser hangs  *)
(* up.  The one permit of the gate is a fair semaphore: the head of `line` *)
(* holds it and the others wait in order.  Tasks run on several threads:   *)
(* between a caller's look at the breaker and its place in the line the    *)
(* breaker may open.                                                       *)
(*                                                                         *)
(* A backend call runs on a blocking thread.  Neither a timeout nor a      *)
(* dropped future stops that thread: the call goes on, abandoned.          *)
(*                                                                         *)
(* An Instant is kept as the time left until it matters (gap, cooldown,    *)
(* timer), so one Tick lowers them all and the clock needs no bound.       *)
(* Timers may be late: nothing forces a step whose timer has run out.      *)
(***************************************************************************)
EXTENDS Integers, SequencesExt

CONSTANTS
    Callers,            \* tasks that ask the backend
    Probes,             \* those that are health probes
    CallSpacing,        \* CALL_SPACING
    Cooldown,           \* COOLDOWN
    DefaultTimeout,     \* DEFAULT_TIMEOUT
    ProbeTimeout,       \* the timeout of preflight
    MaxCalls            \* bound: calls begun and abandoned calls together

ASSUME ElectrsAssumption ==
    /\ Probes \subseteq Callers
    /\ CallSpacing \in Nat /\ Cooldown \in Nat
    /\ DefaultTimeout \in Nat \ {0} /\ ProbeTimeout \in Nat \ {0}
    /\ MaxCalls \in Nat

VARIABLES
    passed,     \* callers that found the breaker closed and are not in line yet
    line,       \* the callers in call(), the first one holding the permit
    phase,      \* what the first one does: "acquire", "spacing", "running", "done"
    timer,      \* time until its sleep or its timeout ends
    gap,        \* time until CallSpacing has passed since last_call
    cooldown,   \* time until cooldown_until, 0 when there is none
    abandoned,  \* calls still running that nobody waits for
    outcome,    \* what the last call of each caller returned
    latest,     \* history: time since the latest launch, at most CallSpacing
    previous,   \* history: time since the launch before it, at most CallSpacing
    owed        \* history: while the breaker is open, the callers that had passed it
                \*   when it opened and have not called since

launchVars == <<latest, previous>>
vars == <<passed, line, phase, timer, gap, cooldown, abandoned, outcome, launchVars, owed>>

Outcomes == {"none", "ok", "electrum", "cooldown", "timeout", "dropped"}

TimeoutOf(c) == IF c \in Probes THEN ProbeTimeout ELSE DefaultTimeout

TypeOK ==
    /\ passed \subseteq Callers /\ owed \subseteq Callers
    /\ line \in Seq(Callers)
    /\ phase \in {"acquire", "spacing", "running", "done"}
    /\ line = <<>> => phase = "acquire"
    /\ timer \in Nat
    /\ gap \in 0..CallSpacing
    /\ cooldown \in 0..Cooldown
    /\ abandoned \in Nat
    /\ outcome \in [Callers -> Outcomes]
    /\ latest \in 0..CallSpacing
    /\ previous \in 0..CallSpacing

Init ==
    /\ passed = {} /\ owed = {}
    /\ line = <<>> /\ phase = "acquire" /\ timer = 0
    /\ gap = 0 /\ cooldown = 0
    /\ abandoned = 0
    /\ outcome = [c \in Callers |-> "none"]
    /\ latest = CallSpacing /\ previous = CallSpacing
-----------------------------------------------------------------------------
Waiting(queue) == {queue[i] : i \in DOMAIN queue}
InLine(c) == c \in Waiting(line)
Calling(c) == c \in passed \/ InLine(c)

\* A call gives up or gets its answer: the permit goes to the next in line.
Leave(result) ==
    /\ line' = Tail(line)
    /\ phase' = "acquire"
    /\ timer' = 0
    /\ outcome' = [outcome EXCEPT ![Head(line)] = result]

\* call, the breaker is open: an error at once.
FastFail(c) ==
    /\ ~Calling(c) /\ cooldown > 0
    /\ outcome' = [outcome EXCEPT ![c] = "cooldown"]
    /\ UNCHANGED <<passed, line, phase, timer, gap, cooldown, abandoned, launchVars, owed>>

\* Mutant: the breaker is not asked.
PassAnyway(c) ==
    /\ ~Calling(c)
    /\ Len(line) + Cardinality(passed) + abandoned < MaxCalls
    /\ passed' = passed \cup {c}
    /\ UNCHANGED <<line, phase, timer, gap, cooldown, abandoned, outcome, launchVars, owed>>

\* call, the breaker is closed: go on to the gate.
Pass(c) ==
    /\ ~Calling(c) /\ cooldown = 0
    /\ Len(line) + Cardinality(passed) + abandoned < MaxCalls
    /\ passed' = passed \cup {c}
    /\ UNCHANGED <<line, phase, timer, gap, cooldown, abandoned, outcome, launchVars, owed>>

\* call: wait for the permit, whatever became of the breaker.
Enqueue(c) ==
    /\ c \in passed
    /\ passed' = passed \ {c}
    /\ line' = Append(line, c)
    /\ UNCHANGED <<phase, timer, gap, cooldown, abandoned, outcome, launchVars, owed>>

\* Mutant: last_call is read and not written.
AcquireKeepsLastCall ==
    /\ line # <<>> /\ phase = "acquire"
    /\ phase' = "spacing"
    /\ timer' = gap
    /\ UNCHANGED <<passed, line, gap, cooldown, abandoned, outcome, launchVars, owed>>

\* The permit is acquired: work out the wait, and set last_call to now, which
\* is before the wait.
Acquire ==
    /\ line # <<>> /\ phase = "acquire"
    /\ phase' = "spacing"
    /\ timer' = gap
    /\ gap' = CallSpacing
    /\ UNCHANGED <<passed, line, cooldown, abandoned, outcome, launchVars, owed>>

\* The wait is over: a blocking thread calls the backend, the timeout starts.
Launch ==
    /\ phase = "spacing" /\ timer = 0
    /\ phase' = "running"
    /\ timer' = TimeoutOf(Head(line))
    /\ latest' = 0
    /\ previous' = latest
    /\ owed' = owed \ {Head(line)}
    /\ UNCHANGED <<passed, line, gap, cooldown, abandoned, outcome>>

\* The backend answers or fails, perhaps after the timeout but before it fires.
Complete ==
    /\ phase = "running"
    /\ phase' = "done"
    /\ UNCHANGED <<passed, line, timer, gap, cooldown, abandoned, outcome, launchVars, owed>>

\* The answer goes to the caller.
Return ==
    /\ phase = "done"
    /\ \E result \in {"ok", "electrum"} : Leave(result)
    /\ UNCHANGED <<passed, gap, cooldown, abandoned, launchVars, owed>>

\* Mutant: the permit is never given back after a timeout.
TimeOutKeepsPermit ==
    /\ phase = "running" /\ timer = 0
    /\ outcome' = [outcome EXCEPT ![Head(line)] = "timeout"]
    /\ cooldown' = Cooldown
    /\ UNCHANGED <<passed, line, phase, timer, gap, abandoned, launchVars, owed>>

\* The timeout fires first: the breaker opens and the call is abandoned.
TimeOut ==
    /\ phase = "running" /\ timer = 0
    /\ Leave("timeout")
    /\ cooldown' = Cooldown
    /\ abandoned' = abandoned + 1
    /\ owed' = IF cooldown = 0 THEN Waiting(line') \cup passed ELSE owed
    /\ UNCHANGED <<passed, gap, launchVars>>

\* An abandoned call ends after all; nobody learns of it.
EndAbandoned ==
    /\ abandoned > 0
    /\ abandoned' = abandoned - 1
    /\ UNCHANGED <<passed, line, phase, timer, gap, cooldown, outcome, launchVars, owed>>

\* Mutant: a future dropped while it holds the permit does not give it back.
HangUpKeepsPermit(c) ==
    /\ c \in Probes /\ InLine(c)
    /\ IF Head(line) = c
       THEN /\ line' = Tail(line)
            /\ abandoned' = IF phase = "running" THEN abandoned + 1 ELSE abandoned
       ELSE /\ \E i \in DOMAIN line : line[i] = c /\ line' = RemoveAt(line, i)
            /\ UNCHANGED abandoned
    /\ outcome' = [outcome EXCEPT ![c] = "dropped"]
    /\ UNCHANGED <<passed, phase, timer, gap, cooldown, launchVars, owed>>

\* A browser hangs up: its probe leaves the line from whatever it was doing.
HangUp(c) ==
    /\ c \in Probes /\ InLine(c)
    /\ IF Head(line) = c
       THEN /\ Leave("dropped")
            /\ abandoned' = IF phase = "running" THEN abandoned + 1 ELSE abandoned
       ELSE /\ \E i \in DOMAIN line : line[i] = c /\ line' = RemoveAt(line, i)
            /\ outcome' = [outcome EXCEPT ![c] = "dropped"]
            /\ UNCHANGED <<phase, timer, abandoned>>
    /\ UNCHANGED <<passed, gap, cooldown, launchVars, owed>>

Less(t) == IF t = 0 THEN 0 ELSE t - 1
More(age) == IF age < CallSpacing THEN age + 1 ELSE age

Tick ==
    /\ timer' = Less(timer)
    /\ gap' = Less(gap)
    /\ cooldown' = Less(cooldown)
    /\ latest' = More(latest)
    /\ previous' = More(previous)
    /\ owed' = IF cooldown' = 0 THEN {} ELSE owed
    /\ UNCHANGED <<passed, line, phase, abandoned, outcome>>

GateStep == Acquire \/ Launch \/ Return \/ TimeOut

Next ==
    \/ \E c \in Callers : FastFail(c) \/ Pass(c) \/ Enqueue(c) \/ HangUp(c)
    \/ GateStep \/ Complete \/ EndAbandoned \/ Tick

Spec == Init /\ [][Next]_vars

\* The runtime goes on polling the caller that holds the permit, a caller that
\* has looked at the breaker goes on to the gate, and time passes.  Nothing is
\* assumed of the backend: Complete need never happen.
FairSpec ==
    Spec /\ WF_vars(GateStep) /\ WF_vars(Tick) /\ \A c \in Callers : WF_vars(Enqueue(c))
-----------------------------------------------------------------------------
(* Properties *)

\* The spacing the code does keep: last_call is set when the permit is taken
\* and not when the call starts, so two calls may start back to back after a
\* wait, but never three within CallSpacing, whoever hangs up or times out in
\* between.
Launching == phase = "spacing" /\ phase' = "running"

TwoPerSpacing == [][Launching => previous = CallSpacing]_vars

\* electrs.rs:6-7, "a timeout trips a short cooldown circuit-breaker so a hung
\* backend fast-fails instead of queueing unbounded work", as far as it holds:
\* while the breaker is open, however often another timeout opens it again, the
\* backend is called only for callers that had passed the breaker before it
\* opened, and once for each.
BreakerDrains == [][Launching /\ cooldown > 0 => Head(line) \in owed]_vars

\* Every call returns, even when the backend never answers again: a hung
\* backend costs each caller in line at most its own timeout, and abandoned
\* calls hold no permit.
EveryCallReturns == \A c \in Callers : Calling(c) ~> ~Calling(c)
=============================================================================

--------------------------- MODULE Electrs_proofs ---------------------------
(***************************************************************************)
(* Proofs about the gate: its types, that no three calls start within the  *)
(* spacing, and that an open breaker lets the backend be called only for   *)
(* who had passed it, for every set of callers, spacing, cooldown and      *)
(* timeout.                                                                *)
(***************************************************************************)
EXTENDS Electrs, SequenceTheorems, TLAPS

\* What the two histories of launches owe to gap and timer.  While a caller
\* waits, gap counts from the moment it took the permit, so the latest launch
\* is far enough once gap runs out, and the one before it once the wait does.
\* At any other moment gap vouches only for the launch before the latest.
SpacingInv ==
    /\ previous >= latest
    /\ phase = "spacing" => /\ latest + gap >= CallSpacing
                            /\ previous + timer >= CallSpacing
    /\ phase # "spacing" => previous + gap >= CallSpacing

GateInv == TypeOK /\ SpacingInv

\* A caller at some place of the line, taken out of it.
LEMMA RemoveAtType ==
    ASSUME NEW i \in DOMAIN line, line \in Seq(Callers)
    PROVE  RemoveAt(line, i) \in Seq(Callers)
<1>1. i \in 1..Len(line)
  OBVIOUS
<1>2. SubSeq(line, 1, i - 1) \in Seq(Callers)
  BY <1>1
<1>3. SubSeq(line, i + 1, Len(line)) \in Seq(Callers)
  BY <1>1
<1> QED
  BY <1>2, <1>3, ConcatProperties DEF RemoveAt

\* The caller that leaves the gate had the permit, and the next one takes it.
LEMMA LeaveStep ==
    ASSUME TypeOK, line # <<>>, NEW result \in Outcomes, Leave(result)
    PROVE  /\ line' \in Seq(Callers)
           /\ phase' = "acquire"
           /\ timer' \in Nat
           /\ outcome' \in [Callers -> Outcomes]
           /\ Waiting(line') \subseteq Callers
<1>1. line' \in Seq(Callers)
  BY HeadTailProperties DEF Leave, TypeOK
<1>2. Waiting(line') \subseteq Callers
  BY <1>1, ElementOfSeq DEF Waiting
<1> QED
  BY <1>1, <1>2 DEF Leave, TypeOK

LEMMA GateInit == Init => GateInv
<1> SUFFICES ASSUME Init PROVE GateInv
  OBVIOUS
<1>1. line \in Seq(Callers)
  BY DEF Init
<1> QED
  BY <1>1, ElectrsAssumption DEF Init, GateInv, TypeOK, SpacingInv, Outcomes

LEMMA GateStepInv == GateInv /\ [Next]_vars => GateInv'
<1> SUFFICES ASSUME GateInv, [Next]_vars PROVE GateInv'
  OBVIOUS
<1> USE ElectrsAssumption
<1> USE DEF GateInv
<1>1. ASSUME NEW c \in Callers, FastFail(c) PROVE GateInv'
  BY <1>1 DEF FastFail, TypeOK, SpacingInv, Outcomes, launchVars
<1>12. ASSUME NEW c \in Callers, Pass(c) PROVE GateInv'
  BY <1>12 DEF Pass, TypeOK, SpacingInv, launchVars
<1>2. ASSUME NEW c \in Callers, Enqueue(c) PROVE GateInv'
  <2>1. line' \in Seq(Callers)
    BY <1>2, AppendProperties DEF Enqueue, TypeOK
  <2>2. line' # <<>>
    BY <1>2, AppendProperties DEF Enqueue, TypeOK
  <2> QED
    BY <1>2, <2>1, <2>2 DEF Enqueue, TypeOK, SpacingInv, launchVars
<1>3. ASSUME NEW c \in Callers, HangUp(c) PROVE GateInv'
  <2>1. line # <<>>
    BY <1>3 DEF HangUp, InLine, Waiting
  <2>2. CASE Head(line) = c
    <3>1. Leave("dropped") /\ UNCHANGED <<passed, gap, cooldown, launchVars, owed>>
          /\ abandoned' = IF phase = "running" THEN abandoned + 1 ELSE abandoned
      BY <1>3, <2>2 DEF HangUp
    <3>2. /\ line' \in Seq(Callers) /\ phase' = "acquire" /\ timer' \in Nat
          /\ outcome' \in [Callers -> Outcomes]
      BY <3>1, <2>1, LeaveStep DEF Outcomes
    <3> QED
      BY <3>1, <3>2 DEF TypeOK, SpacingInv, launchVars
  <2>3. CASE Head(line) # c
    <3>1. PICK i \in DOMAIN line : line[i] = c /\ line' = RemoveAt(line, i)
      BY <1>3, <2>3 DEF HangUp
    <3>2. line' \in Seq(Callers)
      BY <3>1, RemoveAtType DEF TypeOK
    <3>3. line' # <<>>
      <4>1. Head(line) = line[1] /\ Len(line) >= 1 /\ i \in 1..Len(line)
        BY <2>1 DEF TypeOK
      <4>2. i # 1
        BY <4>1, <3>1, <2>3
      <4>3. SubSeq(line, 1, i - 1) \in Seq(Callers) /\ Len(SubSeq(line, 1, i - 1)) = i - 1
        BY <4>1, <4>2 DEF TypeOK
      <4>4. SubSeq(line, i + 1, Len(line)) \in Seq(Callers)
        BY <4>1 DEF TypeOK
      <4>5. Len(line') >= i - 1
        BY <4>1, <4>3, <4>4, <3>1, ConcatProperties, LenProperties DEF RemoveAt
      <4> QED
        BY <4>1, <4>2, <4>5
    <3> QED
      BY <1>3, <2>3, <3>2, <3>3 DEF HangUp, TypeOK, SpacingInv, Outcomes, launchVars
  <2> QED
    BY <2>2, <2>3
<1>4. ASSUME Acquire PROVE GateInv'
  BY <1>4 DEF Acquire, TypeOK, SpacingInv, launchVars
<1>5. ASSUME Launch PROVE GateInv'
  <2>1. TimeoutOf(Head(line)) \in Nat
    BY DEF TimeoutOf
  <2> QED
    BY <1>5, <2>1 DEF Launch, TypeOK, SpacingInv
<1>6. ASSUME Complete PROVE GateInv'
  BY <1>6 DEF Complete, TypeOK, SpacingInv, launchVars
<1>7. ASSUME Return PROVE GateInv'
  <2>1. PICK result \in {"ok", "electrum"} : Leave(result)
    BY <1>7 DEF Return
  <2>2. line # <<>> /\ result \in Outcomes
    BY <1>7 DEF Return, TypeOK, Outcomes
  <2> QED
    BY <1>7, <2>1, <2>2, LeaveStep DEF Return, TypeOK, SpacingInv, launchVars
<1>8. ASSUME TimeOut PROVE GateInv'
  <2>1. line # <<>> /\ "timeout" \in Outcomes
    BY <1>8 DEF TimeOut, TypeOK, Outcomes
  <2> QED
    BY <1>8, <2>1, LeaveStep DEF TimeOut, TypeOK, SpacingInv, launchVars
<1>9. ASSUME EndAbandoned PROVE GateInv'
  BY <1>9 DEF EndAbandoned, TypeOK, SpacingInv, launchVars
<1>10. ASSUME Tick PROVE GateInv'
  BY <1>10 DEF Tick, Less, More, TypeOK, SpacingInv
<1>11. ASSUME UNCHANGED vars PROVE GateInv'
  BY <1>11 DEF vars, launchVars, TypeOK, SpacingInv
<1> QED
  BY <1>1, <1>2, <1>3, <1>4, <1>5, <1>6, <1>7, <1>8, <1>9, <1>10, <1>11, <1>12
     DEF Next, GateStep

\* Every variable of the gate keeps its type: only the caller at the head of a
\* line that is not empty sleeps, calls or returns, and no counter goes below zero.
THEOREM GateTypeCorrect == Spec => []TypeOK
<1>1. GateInv => TypeOK
  BY DEF GateInv
<1> QED
  BY GateInit, GateStepInv, <1>1, PTL DEF Spec

\* No three calls start within CallSpacing, whatever the timeouts, the hung
\* backend calls and the callers that give up.
THEOREM GateTwoPerSpacing == Spec => TwoPerSpacing
<1>1. GateInv /\ [Next]_vars => [Launching => previous = CallSpacing]_vars
  <2> SUFFICES ASSUME GateInv, [Next]_vars, Launching PROVE previous = CallSpacing
    OBVIOUS
  <2>1. Launch
    BY DEF Launching, Next, GateStep, FastFail, Pass, Enqueue, HangUp, Acquire, Complete, Return,
           TimeOut, EndAbandoned, Tick, Leave, vars
  <2> QED
    BY <2>1, ElectrsAssumption DEF Launch, GateInv, TypeOK, SpacingInv
<1> QED
  BY GateInit, GateStepInv, <1>1, PTL DEF Spec, TwoPerSpacing
-----------------------------------------------------------------------------
(* The open breaker.  No caller is twice at the gate, so one that has      *)
(* called while the breaker is open cannot call again before it closes;    *)
(* the others at the gate are all owed a call.                             *)

DrainInv ==
    /\ \A i, j \in DOMAIN line : line[i] = line[j] => i = j
    /\ \A c \in passed, i \in DOMAIN line : line[i] # c
    /\ cooldown > 0 =>
          /\ passed \subseteq owed
          /\ \A i \in DOMAIN line :
                i # 1 \/ phase \in {"acquire", "spacing"} => line[i] \in owed

LEMMA DrainInit == Init => DrainInv
BY DEF Init, DrainInv

\* A line that keeps its callers, or a step that leaves the line alone.
LEMMA DrainFrame ==
    ASSUME DrainInv, UNCHANGED <<passed, line, owed>>, cooldown' > 0 => cooldown > 0,
           phase' \in {"acquire", "spacing"} => phase \in {"acquire", "spacing"}
    PROVE  DrainInv'
BY DEF DrainInv

\* What is left of the line when one caller is out of it.
LEMMA RemoveAtEntries ==
    ASSUME line \in Seq(Callers), NEW i \in DOMAIN line
    PROVE  /\ DOMAIN RemoveAt(line, i) = 1..(Len(line) - 1)
           /\ \A j \in 1..(Len(line) - 1) :
                RemoveAt(line, i)[j] = IF j < i THEN line[j] ELSE line[j + 1]
<1>1. i \in 1..Len(line) /\ Len(line) \in Nat
  OBVIOUS
<1>2. /\ SubSeq(line, 1, i - 1) \in Seq(Callers) /\ Len(SubSeq(line, 1, i - 1)) = i - 1
      /\ \A j \in 1..(i - 1) : SubSeq(line, 1, i - 1)[j] = line[j]
  BY <1>1
<1>3. /\ SubSeq(line, i + 1, Len(line)) \in Seq(Callers)
      /\ Len(SubSeq(line, i + 1, Len(line))) = Len(line) - i
      /\ \A j \in 1..(Len(line) - i) : SubSeq(line, i + 1, Len(line))[j] = line[i + j]
  BY <1>1
<1> DEFINE front == SubSeq(line, 1, i - 1)
           back == SubSeq(line, i + 1, Len(line))
<1>4. /\ front \in Seq(Callers) /\ back \in Seq(Callers)
      /\ Len(front) = i - 1 /\ Len(back) = Len(line) - i
      /\ \A j \in 1..(i - 1) : front[j] = line[j]
      /\ \A j \in 1..(Len(line) - i) : back[j] = line[i + j]
  BY <1>2, <1>3
<1> HIDE DEF front, back
<1>5. /\ front \o back \in Seq(Callers) /\ Len(front \o back) = Len(line) - 1
      /\ \A j \in 1..(Len(line) - 1) :
            (front \o back)[j] = IF j <= i - 1 THEN front[j] ELSE back[j - (i - 1)]
  <2>1. /\ front \o back \in Seq(Callers) /\ Len(front \o back) = Len(front) + Len(back)
        /\ \A j \in 1..(Len(front) + Len(back)) :
              (front \o back)[j] = IF j <= Len(front) THEN front[j] ELSE back[j - Len(front)]
    BY <1>4, ConcatProperties
  <2>2. Len(front) + Len(back) = Len(line) - 1
    BY <1>1, <1>4
  <2> QED
    BY <1>4, <2>1, <2>2
<1>6. ASSUME NEW j \in 1..(Len(line) - 1)
      PROVE  (front \o back)[j] = IF j < i THEN line[j] ELSE line[j + 1]
  <2>1. CASE j < i
    <3>1. j \in 1..(i - 1) /\ j <= i - 1
      BY <1>1, <2>1
    <3> QED
      BY <1>4, <1>5, <2>1, <3>1
  <2>2. CASE ~(j < i)
    <3>1. j - (i - 1) \in 1..(Len(line) - i) /\ i + (j - (i - 1)) = j + 1 /\ ~(j <= i - 1)
      BY <1>1, <2>2
    <3>2. back[j - (i - 1)] = line[j + 1]
      BY <1>4, <3>1
    <3> QED
      BY <1>5, <2>2, <3>1, <3>2
  <2> QED
    BY <2>1, <2>2
<1>7. RemoveAt(line, i) = front \o back
  BY DEF RemoveAt, front, back
<1> QED
  BY <1>5, <1>6, <1>7

LEMMA TailEntries ==
    ASSUME line \in Seq(Callers), line # <<>>
    PROVE  /\ DOMAIN Tail(line) = 1..(Len(line) - 1)
           /\ \A j \in 1..(Len(line) - 1) : Tail(line)[j] = line[j + 1]
BY HeadTailProperties

\* One caller leaves the line, and no other comes to the head of a call.
LEMMA DrainShorter ==
    ASSUME TypeOK, DrainInv, NEW i \in DOMAIN line,
           DOMAIN line' = 1..(Len(line) - 1),
           \A j \in 1..(Len(line) - 1) : line'[j] = IF j < i THEN line[j] ELSE line[j + 1],
           passed' = passed, owed' = owed, cooldown' = cooldown,
           i # 1 => phase' = phase
    PROVE  DrainInv'
<1>1. i \in 1..Len(line) /\ DOMAIN line = 1..Len(line) /\ Len(line) \in Nat
  BY DEF TypeOK
<1>2. \A j \in DOMAIN line' :
         \E k \in DOMAIN line : line'[j] = line[k] /\ k = (IF j < i THEN j ELSE j + 1)
  BY <1>1
<1>3. ASSUME NEW j \in DOMAIN line', NEW k \in DOMAIN line', line'[j] = line'[k] PROVE j = k
  BY <1>1, <1>2, <1>3 DEF DrainInv
<1>4. \A c \in passed', j \in DOMAIN line' : line'[j] # c
  BY <1>2 DEF DrainInv
<1>5. ASSUME cooldown' > 0, NEW j \in DOMAIN line', j # 1 \/ phase' \in {"acquire", "spacing"}
      PROVE  line'[j] \in owed'
  BY <1>1, <1>2, <1>5 DEF DrainInv
<1>6. cooldown' > 0 => passed' \subseteq owed'
  BY DEF DrainInv
<1> QED
  BY <1>3, <1>4, <1>5, <1>6 DEF DrainInv

LEMMA DrainNext == TypeOK /\ DrainInv /\ [Next]_vars => DrainInv'
<1> SUFFICES ASSUME TypeOK, DrainInv, [Next]_vars PROVE DrainInv'
  OBVIOUS
<1>1. ASSUME NEW c \in Callers, FastFail(c) PROVE DrainInv'
  BY <1>1, DrainFrame DEF FastFail
<1>2. ASSUME NEW c \in Callers, Pass(c) PROVE DrainInv'
  <2>1. /\ passed' = passed \cup {c} /\ ~(cooldown > 0) /\ \A i \in DOMAIN line : line[i] # c
        /\ UNCHANGED <<line, cooldown>>
    BY <1>2 DEF Pass, Calling, InLine, Waiting
  <2> QED
    BY <2>1 DEF DrainInv
<1>3. ASSUME NEW c \in Callers, Enqueue(c) PROVE DrainInv'
  <2>1. /\ c \in passed /\ passed' = passed \ {c} /\ line' = Append(line, c)
        /\ UNCHANGED <<phase, cooldown, owed>>
    BY <1>3 DEF Enqueue
  <2>2. /\ line \in Seq(Callers) /\ Len(line) \in Nat /\ DOMAIN line = 1..Len(line)
        /\ DOMAIN line' = 1..(Len(line) + 1)
        /\ line'[Len(line) + 1] = c /\ \A i \in 1..Len(line) : line'[i] = line[i]
    BY <2>1, AppendProperties DEF TypeOK
  <2>3. \A i \in DOMAIN line' : i \in DOMAIN line \/ i = Len(line) + 1
    BY <2>2
  <2>4. \A i, j \in DOMAIN line' : line'[i] = line'[j] => i = j
    BY <2>1, <2>2, <2>3 DEF DrainInv
  <2>5. \A d \in passed', i \in DOMAIN line' : line'[i] # d
    BY <2>1, <2>2, <2>3 DEF DrainInv
  <2>6. cooldown' > 0 =>
           /\ passed' \subseteq owed'
           /\ \A i \in DOMAIN line' :
                 i # 1 \/ phase' \in {"acquire", "spacing"} => line'[i] \in owed'
    BY <2>1, <2>2, <2>3 DEF DrainInv
  <2> QED
    BY <2>4, <2>5, <2>6 DEF DrainInv
<1>4. ASSUME NEW c \in Callers, HangUp(c) PROVE DrainInv'
  <2>1. line # <<>> /\ line \in Seq(Callers)
    BY <1>4 DEF HangUp, InLine, Waiting, TypeOK
  <2>2. CASE Head(line) = c
    <3>1. line' = Tail(line) /\ UNCHANGED <<passed, owed, cooldown>>
      BY <1>4, <2>2 DEF HangUp, Leave
    <3>2. 1 \in DOMAIN line
      BY <2>1
    <3> QED
      BY <2>1, <3>1, <3>2, TailEntries, DrainShorter
  <2>3. CASE Head(line) # c
    <3>1. PICK i \in DOMAIN line : line[i] = c /\ line' = RemoveAt(line, i)
      BY <1>4, <2>3 DEF HangUp
    <3>2. UNCHANGED <<passed, owed, cooldown, phase>>
      BY <1>4, <2>3 DEF HangUp
    <3> QED
      BY <2>1, <3>1, <3>2, RemoveAtEntries, DrainShorter
  <2> QED
    BY <2>2, <2>3
<1>5. ASSUME Acquire \/ Complete \/ EndAbandoned PROVE DrainInv'
  BY <1>5, DrainFrame DEF Acquire, Complete, EndAbandoned
<1>6. ASSUME Launch PROVE DrainInv'
  <2>1. /\ phase' = "running" /\ owed' = owed \ {Head(line)} /\ UNCHANGED <<passed, line, cooldown>>
        /\ phase = "spacing" /\ line # <<>>
    BY <1>6 DEF Launch, TypeOK
  <2>2. Head(line) = line[1] /\ 1 \in DOMAIN line
    BY <2>1 DEF TypeOK
  <2> QED
    BY <2>1, <2>2 DEF DrainInv
<1>7. ASSUME Return \/ TimeOut PROVE DrainInv'
  <2>1. /\ line # <<>> /\ line \in Seq(Callers) /\ 1 \in DOMAIN line
        /\ line' = Tail(line) /\ phase' = "acquire" /\ passed' = passed
    BY <1>7 DEF Return, TimeOut, Leave, TypeOK
  <2>2. CASE UNCHANGED <<owed, cooldown>>
    BY <2>1, <2>2, TailEntries, DrainShorter
  <2>3. CASE TimeOut /\ cooldown > 0
    <3>1. owed' = owed
      BY <2>3 DEF TimeOut
    <3> QED
      BY <2>1, <2>3, <3>1, TailEntries DEF DrainInv
  <2>4. CASE TimeOut /\ ~(cooldown > 0)
    <3>1. owed' = Waiting(line') \cup passed
      BY <2>4 DEF TimeOut, TypeOK
    <3> QED
      BY <2>1, <3>1, TailEntries DEF DrainInv, Waiting
  <2> QED
    BY <1>7, <2>2, <2>3, <2>4 DEF Return
<1>8. ASSUME Tick PROVE DrainInv'
  <2>1. /\ UNCHANGED <<passed, line, phase>> /\ (cooldown' > 0 => cooldown > 0 /\ owed' = owed)
    BY <1>8, ElectrsAssumption DEF Tick, Less, TypeOK
  <2> QED
    BY <2>1 DEF DrainInv
<1>9. ASSUME UNCHANGED vars PROVE DrainInv'
  BY <1>9, DrainFrame DEF vars
<1> QED
  BY <1>1, <1>2, <1>3, <1>4, <1>5, <1>6, <1>7, <1>8, <1>9 DEF Next, GateStep

\* Behind an open breaker the backend is called only for callers that had passed
\* it before it opened, once for each, whatever times out or hangs up meanwhile.
THEOREM GateBreakerDrains == Spec => BreakerDrains
<1>1. TypeOK /\ DrainInv => [Launching /\ cooldown > 0 => Head(line) \in owed]_vars
  <2> SUFFICES ASSUME TypeOK, DrainInv, Launching, cooldown > 0 PROVE Head(line) \in owed
    OBVIOUS
  <2>1. line # <<>> /\ phase = "spacing"
    BY DEF Launching, TypeOK
  <2>2. Head(line) = line[1] /\ 1 \in DOMAIN line
    BY <2>1 DEF TypeOK
  <2> QED
    BY <2>1, <2>2 DEF DrainInv
<1> QED
  BY <1>1, DrainInit, DrainNext, GateTypeCorrect, PTL DEF Spec, BreakerDrains
=============================================================================

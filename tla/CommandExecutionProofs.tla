----------------------- MODULE CommandExecutionProofs -----------------------
(***************************************************************************)
(* For all sizes of pipes and outputs: the type invariant of               *)
(* CommandExecution, and that a call that reports success has the complete *)
(* output of a command that succeeded (SuccessIsComplete).                 *)
(***************************************************************************)
EXTENDS CommandExecution, TLAPS

(* A command that succeeded has written everything; only a call with a     *)
(* deadline expires, only one with a time-out interrupts.                  *)
EndInv ==
    /\ child.status = "ok" => child.plan.lines = Empty
    /\ call.expired => call.kind = "file"
    /\ call.interrupted => call.kind = "timeout"

(* Unless the output only goes to the log, who reads a pipe reads it to    *)
(* the end, which is not before the process has ended.                     *)
CollectInv ==
    call.at # "returned" =>
      /\ call.at = "select" => call.kind = "timeout"
      /\ call.done => ~Running /\ Collected
      /\ call.kind # "log" =>
           \A p \in Pipes : /\ reader[p] # "stopped"
                            /\ reader[p] = "eof" => pipe[p] = 0 /\ ~Running

IInv == TypeOK /\ EndInv /\ CollectInv /\ SuccessIsComplete

-----------------------------------------------------------------------------
LEMMA EmptyType == Empty \in [Pipes -> 0..MaxLines] /\ Empty \in [Pipes -> 0..Capacity]
BY CommandAssumption DEF Empty

LEMMA CallTypes ==
    /\ \A kind \in Kinds, at \in {"returned", "scan", "wait", "select"} : Called(kind, at) \in Calls
    /\ \A c \in Calls, at \in {"returned", "scan", "wait", "select"},
          result \in {"none", "ok", "error", "timeout"} :
         /\ [c EXCEPT !.at = at] \in Calls
         /\ [c EXCEPT !.at = at, !.result = result] \in Calls
         /\ [c EXCEPT !.result = result] \in Calls
         /\ [c EXCEPT !.expired = TRUE] \in Calls
         /\ [c EXCEPT !.interrupted = TRUE] \in Calls
         /\ [c EXCEPT !.done = TRUE] \in Calls
BY DEF Called, Calls

LEMMA InitIInv == Init => IInv
<1> SUFFICES ASSUME Init PROVE IInv
  OBVIOUS
<1>1. call \in Calls
  BY CallTypes DEF Init, Kinds
<1>2. child \in Children
  BY EmptyType DEF Init, Children, Pipes, Plans
<1>3. TypeOK
  BY <1>1, <1>2, EmptyType DEF Init, TypeOK
<1> QED
  BY <1>3 DEF Init, IInv, EndInv, CollectInv, SuccessIsComplete, Called

-----------------------------------------------------------------------------
(* The process.                                                            *)

LEMMA KilledType ==
    ASSUME child \in Children
    PROVE  /\ Killed \in Children /\ Killed.plan = child.plan
           /\ Killed.status # "running"
           /\ Killed.status = "ok" => child.status = "ok"
           /\ ~Running => Killed = child
BY DEF Killed, Running, Children

LEMMA WriteLineStep == IInv /\ WriteLine => IInv'
<1> SUFFICES ASSUME IInv, WriteLine PROVE IInv'
  OBVIOUS
<1> DEFINE p == child.next
<1>1. p \in Pipes /\ child.plan \in Plans /\ child.plan.lines \in [Pipes -> 0..MaxLines]
  BY DEF IInv, TypeOK, Children, Plans
<1>2. PICK q \in Pipes : child' = [child EXCEPT !.plan.lines[p] = @ - 1, !.next = q]
  BY DEF WriteLine
<1>3. child.plan.lines[p] - 1 \in 0..MaxLines
  <2>1. child.plan.lines[p] \in 0..MaxLines
    BY <1>1
  <2>2. child.plan.lines[p] > 0
    BY DEF WriteLine
  <2> QED
    BY <2>1, <2>2, CommandAssumption
<1>4. child' \in Children /\ child'.status = "running"
  <2>1. [child.plan.lines EXCEPT ![p] = @ - 1] \in [Pipes -> 0..MaxLines]
    BY <1>1, <1>3
  <2>2. [child.plan EXCEPT !.lines = [child.plan.lines EXCEPT ![p] = @ - 1]] \in Plans
    BY <1>1, <2>1 DEF Plans
  <2> QED
    BY <1>1, <1>2, <2>2 DEF WriteLine, Running, IInv, TypeOK, Children
<1>5. pipe' \in [Pipes -> 0..Capacity]
  <2>1. pipe[p] < Capacity /\ pipe' = [pipe EXCEPT ![p] = pipe[p] + 1]
    BY DEF WriteLine
  <2>2. pipe \in [Pipes -> 0..Capacity] /\ pipe[p] \in 0..Capacity
    BY <1>1 DEF IInv, TypeOK
  <2>3. pipe[p] + 1 \in 0..Capacity
    BY <2>1, <2>2, CommandAssumption
  <2> QED
    BY <2>1, <2>2, <2>3
<1>6. TypeOK'
  BY <1>4, <1>5 DEF WriteLine, IInv, TypeOK
<1>7. CollectInv'
  BY <1>1, <1>4 DEF WriteLine, IInv, CollectInv, Running, Collected, TypeOK
<1> QED
  BY <1>4, <1>6, <1>7 DEF WriteLine, IInv, EndInv, SuccessIsComplete, Running

LEMMA ChildStepKeeps == IInv /\ ChildStep => IInv'
<1>1. IInv /\ TurnToOther => IInv'
  <2> SUFFICES ASSUME IInv, TurnToOther PROVE IInv'
    OBVIOUS
  <2>1. child' \in Children /\ child'.status = child.status /\ child'.plan = child.plan
    BY DEF TurnToOther, IInv, TypeOK, Children, Pipes
  <2> QED
    BY <2>1 DEF TurnToOther, IInv, TypeOK, EndInv, CollectInv, SuccessIsComplete, Running,
       Collected
<1>2. IInv /\ Exit => IInv'
  <2> SUFFICES ASSUME IInv, Exit PROVE IInv'
    OBVIOUS
  <2>1. child' \in Children /\ child'.status # "running" /\ child'.plan = child.plan
    BY DEF Exit, IInv, TypeOK, Children
  <2> QED
    BY <2>1 DEF Exit, IInv, TypeOK, EndInv, CollectInv, SuccessIsComplete, Running, Collected
<1> QED
  BY <1>1, <1>2, WriteLineStep DEF ChildStep

LEMMA HeirEndsStep == IInv /\ HeirEnds => IInv'
BY DEF HeirEnds, IInv, TypeOK, EndInv, CollectInv, SuccessIsComplete, Running, Collected

-----------------------------------------------------------------------------
(* The readers.                                                            *)

LEMMA ReaderStepKeeps == IInv /\ ReaderStep => IInv'
<1>1. ASSUME IInv, NEW p \in Pipes, ReadLine(p) PROVE IInv'
  <2>1. CASE call.kind = "log" /\ p \in child.plan.long
    BY <1>1, <2>1 DEF ReadLine, IInv, TypeOK, EndInv, CollectInv, SuccessIsComplete, Running,
       Collected
  <2>2. CASE ~(call.kind = "log" /\ p \in child.plan.long)
    <3>1. /\ pipe' = [pipe EXCEPT ![p] = pipe[p] - 1] /\ UNCHANGED <<call, child, heir, reader>>
          /\ pipe[p] > 0
      BY <1>1, <2>2 DEF ReadLine
    <3>2. pipe' \in [Pipes -> 0..Capacity] /\ \A q \in Pipes : pipe[q] = 0 => pipe'[q] = 0
      BY <1>1, <3>1, CommandAssumption DEF IInv, TypeOK
    <3>3. TypeOK' /\ EndInv' /\ CollectInv'
      BY <1>1, <3>1, <3>2 DEF IInv, TypeOK, EndInv, CollectInv, Running, Collected
    <3>4. pipe # Empty
      BY <1>1, <3>1 DEF Empty
    <3> QED
      BY <1>1, <3>1, <3>3, <3>4 DEF IInv, SuccessIsComplete
  <2> QED
    BY <2>1, <2>2
<1>2. ASSUME IInv, NEW p \in Pipes, SeeEnd(p) PROVE IInv'
  BY <1>2 DEF SeeEnd, IInv, TypeOK, EndInv, CollectInv, SuccessIsComplete, Running, Collected
<1> QED
  BY <1>1, <1>2 DEF ReaderStep

-----------------------------------------------------------------------------
(* The caller.                                                             *)

(* Output that nobody collects is the log's.                               *)
LEMMA LaunchStep ==
    ASSUME IInv, NEW kind \in Kinds, NEW at \in {"scan", "wait", "select"}, NEW plan \in Plans,
           NEW who \in {"on", "stopped"}, Launch(kind, at, plan, who),
           at = "select" => kind = "timeout", who = "on" \/ kind = "log"
    PROVE  IInv'
<1>1. /\ call' = Called(kind, at) /\ heir' = FALSE /\ pipe' = Empty
      /\ reader' = [p \in Pipes |-> who]
  BY DEF Launch
<1>2. child' \in Children /\ child'.status = "running"
  BY DEF Launch, Children
<1>3. call' \in Calls
  BY <1>1, CallTypes
<1>4. TypeOK'
  BY <1>1, <1>2, <1>3, EmptyType DEF TypeOK
<1> QED
  BY <1>1, <1>2, <1>4 DEF IInv, EndInv, CollectInv, SuccessIsComplete, Called, Running

LEMMA StartStep ==
    ASSUME IInv, NEW kind \in Kinds, NEW plan \in Plans,
           Start(kind, plan) \/ (kind = "log" /\ StartUncollected(plan))
    PROVE  IInv'
<1> DEFINE at == CASE kind = "log" -> "scan" [] kind = "timeout" -> "select" [] OTHER -> "wait"
<1>1. /\ at \in {"scan", "wait", "select"}
      /\ at = "select" => kind = "timeout"
  BY DEF Kinds
<1>2. CASE Start(kind, plan)
  <2>1. Launch(kind, at, plan, "on")
    BY <1>2 DEF Start
  <2> HIDE DEF at
  <2> QED
    BY <1>1, <2>1, LaunchStep
<1>3. CASE kind = "log" /\ StartUncollected(plan)
  BY <1>3, LaunchStep DEF StartUncollected
<1> QED
  BY <1>2, <1>3

LEMMA StartFailsStep ==
    ASSUME IInv, NEW kind \in Kinds, StartFails(kind)
    PROVE  IInv'
<1>1. call' \in Calls
  BY CallTypes DEF StartFails
<1>2. TypeOK'
  BY <1>1 DEF StartFails, IInv, TypeOK
<1> QED
  BY <1>2 DEF StartFails, Called, IInv, EndInv, CollectInv, SuccessIsComplete

(* What has been collected to the end of a command that succeeded is all.  *)
LEMMA AllCollected ==
    ASSUME IInv, call.at # "returned", call.kind # "log", Collected, child.status = "ok"
    PROVE  pipe = Empty /\ child.plan.lines = Empty
<1>1. \A p \in Pipes : reader[p] = "eof"
  BY DEF IInv, TypeOK, CollectInv, Collected
<1>2. \A p \in Pipes : pipe[p] = 0
  BY <1>1 DEF IInv, CollectInv
<1> QED
  BY <1>2 DEF IInv, TypeOK, EndInv, Empty

LEMMA CallerStepKeeps == IInv /\ CallerStep => IInv'
<1>1. IInv /\ EndScan => IInv'
  BY DEF EndScan, IInv, TypeOK, Calls, EndInv, CollectInv, SuccessIsComplete, Running, Collected
<1>2. IInv /\ WaitLog => IInv'
  <2> SUFFICES ASSUME IInv, WaitLog PROVE IInv'
    OBVIOUS
  <2>1. child.status \in {"ok", "error"}
    BY DEF WaitLog, Running, IInv, TypeOK, Children
  <2>2. /\ call' = [call EXCEPT !.at = "returned", !.result = child.status]
        /\ call'.at = "returned" /\ call'.result = child.status /\ call'.kind = "log"
        /\ call'.expired = call.expired /\ call'.interrupted = call.interrupted
        /\ call.kind = "log"
    BY DEF WaitLog, Return, IInv, TypeOK, Calls
  <2>3. TypeOK'
    BY <2>1, <2>2, CallTypes DEF WaitLog, IInv, TypeOK
  <2> QED
    BY <2>2, <2>3 DEF WaitLog, IInv, EndInv, CollectInv, SuccessIsComplete
<1>3. ASSUME IInv, NEW result \in {"ok", "error", "timeout"}, Return(result),
             UNCHANGED <<child, heir, pipe, reader>>,
             call.kind # "log", call.at # "returned", Collected,
             result = "ok" => child.status = "ok" /\ ~call.expired /\ ~call.interrupted
      PROVE  IInv'
  <2>1. /\ call'.at = "returned" /\ call'.result = result /\ call'.kind = call.kind
        /\ call'.expired = call.expired /\ call'.interrupted = call.interrupted
        /\ call' \in Calls
    <3>1. call \in Calls /\ call' = [call EXCEPT !.at = "returned", !.result = result]
      BY <1>3 DEF Return, IInv, TypeOK
    <3>2. call' \in Calls
      BY <3>1, CallTypes
    <3>3. /\ call'.at = "returned" /\ call'.result = result /\ call'.kind = call.kind
          /\ call'.expired = call.expired /\ call'.interrupted = call.interrupted
      BY <3>1 DEF Calls
    <3> QED
      BY <3>2, <3>3
  <2>2. TypeOK'
    BY <1>3, <2>1 DEF IInv, TypeOK
  <2>3. EndInv' /\ CollectInv'
    BY <1>3, <2>1 DEF IInv, EndInv, CollectInv
  <2>4. SuccessIsComplete'
    BY <1>3, <2>1, AllCollected DEF SuccessIsComplete, Empty
  <2> QED
    BY <2>2, <2>3, <2>4 DEF IInv
<1>4. IInv /\ WaitOutput => IInv'
  <2> SUFFICES ASSUME IInv, WaitOutput PROVE IInv'
    OBVIOUS
  <2> DEFINE result == IF call.kind = "file" THEN FileResult ELSE child.status
  <2>1. child.status \in {"ok", "error"}
    BY DEF WaitOutput, Running, IInv, TypeOK, Children
  <2>2. result \in {"ok", "error", "timeout"}
    BY <2>1 DEF FileResult
  <2>3. result = "ok" => child.status = "ok" /\ ~call.expired /\ ~call.interrupted
    BY DEF FileResult, WaitOutput, IInv, EndInv
  <2>4. /\ Return(result) \/ Return("error")
        /\ UNCHANGED <<child, heir, pipe, reader>>
        /\ call.kind # "log" /\ call.at # "returned" /\ Collected
    BY DEF WaitOutput
  <2> HIDE DEF result
  <2> QED
    BY <1>3, <2>2, <2>3, <2>4
<1>5. IInv /\ WaitOnGoroutine => IInv'
  <2> SUFFICES ASSUME IInv, WaitOnGoroutine PROVE IInv'
    OBVIOUS
  <2>1. call \in Calls /\ call' = [call EXCEPT !.done = TRUE] /\ UNCHANGED <<child, heir, pipe, reader>>
    BY DEF WaitOnGoroutine, IInv, TypeOK
  <2>2. call' \in Calls
    BY <2>1, CallTypes
  <2>3. /\ call'.at = "select" /\ call'.kind = "timeout" /\ call.kind = "timeout"
        /\ call.at = "select"
        /\ call'.expired = call.expired /\ call'.interrupted = call.interrupted
    BY <2>1 DEF Calls, WaitOnGoroutine
  <2>4. ~Running' /\ Collected'
    BY <2>1 DEF WaitOnGoroutine, Running, Collected
  <2>5. TypeOK'
    BY <2>1, <2>2 DEF IInv, TypeOK
  <2>6. EndInv' /\ SuccessIsComplete'
    BY <2>1, <2>3 DEF IInv, EndInv, SuccessIsComplete
  <2>7. CollectInv'
    BY <2>1, <2>3, <2>4 DEF IInv, CollectInv, Running
  <2> QED
    BY <2>5, <2>6, <2>7 DEF IInv
<1>6. IInv /\ ReceiveDone => IInv'
  <2> SUFFICES ASSUME IInv, ReceiveDone PROVE IInv'
    OBVIOUS
  <2>1. ~Running /\ Collected /\ call.kind = "timeout"
    BY DEF ReceiveDone, IInv, CollectInv
  <2>2. DoneResult \in {"ok", "error", "timeout"}
    BY <2>1 DEF DoneResult, Running, IInv, TypeOK, Children
  <2>3. DoneResult = "ok" => child.status = "ok" /\ ~call.expired /\ ~call.interrupted
    BY <2>1 DEF DoneResult, IInv, EndInv
  <2>4. Return(DoneResult) /\ UNCHANGED <<child, heir, pipe, reader>> /\ call.at # "returned"
    BY DEF ReceiveDone
  <2> QED
    BY <1>3, <2>1, <2>2, <2>3, <2>4
<1> QED
  BY <1>1, <1>2, <1>4, <1>5, <1>6 DEF CallerStep

LEMMA TimeoutStepKeeps == IInv /\ TimeoutStep => IInv'
<1> SUFFICES ASSUME IInv, TimeoutStep PROVE IInv'
  OBVIOUS
<1>0. child \in Children
  BY DEF IInv, TypeOK
<1>1. CASE Expire
  <2>1. /\ call' = [call EXCEPT !.expired = TRUE] /\ child' = Killed
        /\ call'.at = "wait" /\ call'.kind = "file" /\ call'.done = call.done
        /\ call'.interrupted = call.interrupted
        /\ UNCHANGED <<heir, pipe, reader>>
    BY <1>1 DEF Expire, IInv, TypeOK, Calls
  <2>2. TypeOK'
    BY <1>0, <2>1, KilledType, CallTypes DEF IInv, TypeOK
  <2> QED
    BY <1>0, <1>1, <2>1, <2>2, KilledType DEF Expire, IInv, EndInv, CollectInv, SuccessIsComplete,
       Running, Collected
<1>2. CASE FirstTimeout
  <2>1. /\ call' = [call EXCEPT !.interrupted = TRUE]
        /\ call'.at = "select" /\ call'.kind = call.kind /\ call'.done = call.done
        /\ call'.expired = call.expired /\ call.at = "select"
        /\ UNCHANGED <<heir, pipe, reader>>
    BY <1>2 DEF FirstTimeout, IInv, TypeOK, Calls
  <2>2. /\ child' \in Children /\ child'.plan = child.plan
        /\ child'.status = "ok" => child.status = "ok"
        /\ ~Running => ~Running'
    BY <1>0, <1>2, KilledType DEF FirstTimeout, Running
  <2>3. TypeOK'
    BY <2>1, <2>2, CallTypes DEF IInv, TypeOK
  <2> QED
    BY <2>1, <2>2, <2>3 DEF IInv, EndInv, CollectInv, SuccessIsComplete, Collected
<1>3. CASE SecondTimeout
  <2>1. /\ call' = [call EXCEPT !.at = "returned", !.result = "timeout"]
        /\ call'.at = "returned" /\ call'.result = "timeout" /\ call'.kind = call.kind
        /\ call'.expired = call.expired /\ call'.interrupted = call.interrupted
        /\ child' = Killed /\ UNCHANGED <<heir, pipe, reader>>
    BY <1>3 DEF SecondTimeout, Return, IInv, TypeOK, Calls
  <2>2. TypeOK'
    BY <1>0, <2>1, KilledType, CallTypes DEF IInv, TypeOK
  <2> QED
    BY <1>0, <2>1, <2>2, KilledType DEF IInv, EndInv, CollectInv, SuccessIsComplete
<1> QED
  BY <1>1, <1>2, <1>3 DEF TimeoutStep

-----------------------------------------------------------------------------
LEMMA LogKind == "log" \in Kinds
BY DEF Kinds

LEMMA NextIInv == IInv /\ [Next]_vars => IInv'
<1>1. IInv /\ UNCHANGED vars => IInv'
  BY DEF vars, IInv, TypeOK, EndInv, CollectInv, SuccessIsComplete, Running, Collected
<1> QED
  BY <1>1, LogKind, StartStep, StartFailsStep, CallerStepKeeps, TimeoutStepKeeps, ReaderStepKeeps,
     ChildStepKeeps, HeirEndsStep DEF Next

LEMMA Invariance == Spec => []IInv
BY InitIInv, NextIInv, PTL DEF Spec

(* Every variable of CommandExecution keeps its type.                      *)
THEOREM TypeCorrect == Spec => []TypeOK
<1>1. IInv => TypeOK
  BY DEF IInv
<1> QED
  BY Invariance, <1>1, PTL

(* A call that reports success ran a command that ended with status 0      *)
(* before any time-out, and returns all that the command wrote.            *)
THEOREM SuccessIsCompleteAlways == Spec => []SuccessIsComplete
<1>1. IInv => SuccessIsComplete
  BY DEF IInv
<1> QED
  BY Invariance, <1>1, PTL
=============================================================================

-------------------------- MODULE CommandExecution --------------------------
(***************************************************************************)
(* How the job and the daemon run commands (pkg/util/exec/exec.go): one    *)
(* call at a time, of one of four kinds,                                   *)
(*   log      ExecuteCommand, ExecuteCommandWithEnv: two pipes, read line  *)
(*            by line into the log, then Wait;                             *)
(*   output   ExecuteCommandWithOutput, ...CombinedOutput, ...OutputFile:  *)
(*            os/exec collects the output, Wait ends with the collection;  *)
(*   file     ExecuteCommandWithOutputFileTimeout: the same, and the       *)
(*            context kills the process at the deadline;                   *)
(*   timeout  ExecuteCommandWithTimeout: Wait on a goroutine, an interrupt *)
(*            at the first time-out, a kill at the second.                 *)
(*                                                                         *)
(* A command writes lines and ends; it may hang, ignore the interrupt,     *)
(* write a line that is too long for bufio.Scanner, and leave a process    *)
(* behind that keeps its pipes open.                                       *)
(***************************************************************************)
EXTENDS Naturals

CONSTANTS
    Capacity,    \* lines that fit into a pipe
    MaxLines     \* lines a command writes to each pipe at most

Kinds == {"log", "output", "file", "timeout"}

Pipes == {"stdout", "stderr"}

ASSUME CommandAssumption == Capacity \in Nat \ {0} /\ MaxLines \in Nat

VARIABLES
    call,    \* the call in progress, or the last one: the caller's variables
    child,   \* the process of the command
    heir,    \* a process that it left behind has the pipes open
    pipe,    \* how many lines are in each pipe
    reader   \* who reads each pipe

vars == <<call, child, heir, pipe, reader>>

(* What the command is going to do.                                        *)
Plans == [lines: [Pipes -> 0..MaxLines],   \* still to be written
          long:  SUBSET Pipes,             \* the first line there is too long
          hangs: BOOLEAN]                  \* it never ends by itself

Calls == [kind:        Kinds,
          at:          {"returned", "scan", "wait", "select"},
          expired:     BOOLEAN,            \* the deadline of the context
          interrupted: BOOLEAN,            \* interruptSent
          done:        BOOLEAN,            \* the result of Wait is in the channel
          result:      {"none", "ok", "error", "timeout"}]

(* The status of the process, the pipe it writes to next, its plan.        *)
Children == [status: {"running", "ok", "error"}, next: Pipes, plan: Plans]

TypeOK ==
    /\ call \in Calls
    /\ child \in Children
    /\ heir \in BOOLEAN
    /\ pipe \in [Pipes -> 0..Capacity]
    /\ reader \in [Pipes -> {"on", "stopped", "eof"}]

Called(kind, at) ==
    [kind |-> kind, at |-> at, expired |-> FALSE, interrupted |-> FALSE,
     done |-> FALSE, result |-> "none"]

Empty == [p \in Pipes |-> 0]

Init ==
    /\ call = Called("log", "returned")
    /\ child = [status |-> "ok", next |-> "stdout",
                plan |-> [lines |-> Empty, long |-> {}, hangs |-> FALSE]]
    /\ heir = FALSE
    /\ pipe = Empty
    /\ reader = [p \in Pipes |-> "eof"]

-----------------------------------------------------------------------------
(* The process.                                                            *)

Running == child.status = "running"

WriteLine ==
    LET p == child.next
    IN  /\ Running /\ child.plan.lines[p] > 0 /\ pipe[p] < Capacity
        /\ pipe' = [pipe EXCEPT ![p] = pipe[p] + 1]
        /\ child' \in {[child EXCEPT !.plan.lines[p] = @ - 1, !.next = q] : q \in Pipes}
        /\ UNCHANGED <<call, heir, reader>>

(* It turns to the other pipe when it has nothing more to write here.      *)
TurnToOther ==
    /\ Running /\ child.plan.lines[child.next] = 0
    /\ child.plan.lines # Empty
    /\ child' = [child EXCEPT !.next = IF @ = "stdout" THEN "stderr" ELSE "stdout"]
    /\ UNCHANGED <<call, heir, pipe, reader>>

Exit ==
    /\ Running /\ child.plan.lines = Empty /\ ~child.plan.hangs
    /\ child' \in {[child EXCEPT !.status = s] : s \in {"ok", "error"}}
    /\ heir' \in BOOLEAN
    /\ UNCHANGED <<call, pipe, reader>>

HeirEnds == heir /\ heir' = FALSE /\ UNCHANGED <<call, child, pipe, reader>>

ChildStep == WriteLine \/ TurnToOther \/ Exit

Killed == [child EXCEPT !.status = IF Running THEN "error" ELSE @]

-----------------------------------------------------------------------------
(* The readers.                                                            *)

(* Mutant: standard error is read after standard output.                   *)
TurnOfOneByOne(p) ==
    call.kind = "log" =>
      IF p = "stdout" THEN call.at = "scan" ELSE reader["stdout"] # "on"

(* logOutput reads standard error on a goroutine, standard output itself.  *)
TurnOf(p) == call.kind = "log" /\ p = "stdout" => call.at = "scan"

(* logFromReader gives up at a line that is too long for the scanner; the  *)
(* rest stays in the pipe.  The collectors of os/exec do not know lines.   *)
ReadLine(p) ==
    /\ reader[p] = "on" /\ pipe[p] > 0 /\ TurnOf(p)
    /\ IF call.kind = "log" /\ p \in child.plan.long
       THEN reader' = [reader EXCEPT ![p] = "stopped"] /\ UNCHANGED pipe
       ELSE pipe' = [pipe EXCEPT ![p] = pipe[p] - 1] /\ UNCHANGED reader
    /\ UNCHANGED <<call, child, heir>>

(* No one has the pipe open for writing.                                   *)
SeeEnd(p) ==
    /\ reader[p] = "on" /\ pipe[p] = 0 /\ ~Running /\ ~heir /\ TurnOf(p)
    /\ reader' = [reader EXCEPT ![p] = "eof"]
    /\ UNCHANGED <<call, child, heir, pipe>>

ReaderStep == \E p \in Pipes : ReadLine(p) \/ SeeEnd(p)

Collected == \A p \in Pipes : reader[p] # "on"

-----------------------------------------------------------------------------
(* The caller.                                                             *)

(* The command is started, and its output is read by nobody or by readers. *)
Launch(kind, at, plan, who) ==
    /\ call.at = "returned"
    /\ call' = Called(kind, at)
    /\ child' \in {[status |-> "running", next |-> p, plan |-> plan] : p \in Pipes}
    /\ heir' = FALSE
    /\ pipe' = Empty
    /\ reader' = [p \in Pipes |-> who]

(* startCommand and cmd.Start.                                             *)
Start(kind, plan) ==
    Launch(kind, CASE kind = "log"     -> "scan"
                   [] kind = "timeout" -> "select"
                   [] OTHER            -> "wait", plan, "on")

(* StdoutPipe or StderrPipe fails: what is written there goes nowhere, and *)
(* logOutput does not read the other pipe either; the command runs anyway. *)
StartUncollected(plan) ==
    /\ \E p \in Pipes : plan.lines[p] = 0
    /\ Launch("log", "wait", plan, "stopped")

(* The program is not there, or, unless the output only goes to the log, a *)
(* pipe or the output file cannot be made.                                 *)
StartFails(kind) ==
    /\ call.at = "returned"
    /\ call' = [Called(kind, "returned") EXCEPT !.result = "error"]
    /\ UNCHANGED <<child, heir, pipe, reader>>

Return(result) == call' = [call EXCEPT !.at = "returned", !.result = result]

(* The end of logOutput: ExecuteCommandWithEnv goes on to Wait.            *)
EndScan ==
    /\ call.at = "scan" /\ reader["stdout"] # "on"
    /\ call' = [call EXCEPT !.at = "wait"]
    /\ UNCHANGED <<child, heir, pipe, reader>>

(* With StdoutPipe, Wait waits for the process only, and closes the pipes. *)
WaitLog ==
    /\ call.kind = "log" /\ call.at = "wait" /\ ~Running
    /\ Return(child.status)
    /\ reader' = [p \in Pipes |-> IF reader[p] = "on" THEN "stopped" ELSE reader[p]]
    /\ UNCHANGED <<child, heir, pipe>>

(* Mutant: the deadline is not asked for after the command has ended.      *)
FileResultExitOnly == child.status

(* ExecuteCommandWithOutputFileTimeout looks at the context first.         *)
FileResult == IF call.expired THEN "timeout" ELSE child.status

(* Otherwise Wait waits for the process and for the collectors; an output  *)
(* file may then be impossible to read or to close.                        *)
WaitOutput ==
    /\ call.kind \in {"output", "file"} /\ call.at = "wait" /\ ~Running /\ Collected
    /\ \/ Return(IF call.kind = "file" THEN FileResult ELSE child.status)
       \/ ~call.expired /\ Return("error")
    /\ UNCHANGED <<child, heir, pipe, reader>>

(* The deadline of the context: os/exec kills the process, not its heirs.  *)
Expire ==
    /\ call.kind = "file" /\ call.at = "wait" /\ ~call.expired
    /\ call' = [call EXCEPT !.expired = TRUE]
    /\ child' = Killed
    /\ UNCHANGED <<heir, pipe, reader>>

(* The goroutine of ExecuteCommandWithTimeout.                             *)
WaitOnGoroutine ==
    /\ call.kind = "timeout" /\ call.at = "select" /\ ~call.done
    /\ ~Running /\ Collected
    /\ call' = [call EXCEPT !.done = TRUE]
    /\ UNCHANGED <<child, heir, pipe, reader>>

(* What has been interrupted does not count as success.                    *)
DoneResult ==
    IF child.status = "ok" /\ call.interrupted THEN "timeout" ELSE child.status

ReceiveDone ==
    /\ call.at = "select" /\ call.done
    /\ Return(DoneResult)
    /\ UNCHANGED <<child, heir, pipe, reader>>

(* The first time-out sends an interrupt, which may end the process or not *)
(* (and fails, which is only logged, if it has ended).                     *)
FirstTimeout ==
    /\ call.at = "select" /\ ~call.interrupted
    /\ call' = [call EXCEPT !.interrupted = TRUE]
    /\ child' \in {child, Killed}
    /\ UNCHANGED <<heir, pipe, reader>>

(* The second one kills it and returns at once, with what has been         *)
(* collected by then.                                                      *)
SecondTimeout ==
    /\ call.at = "select" /\ call.interrupted
    /\ child' = Killed
    /\ Return("timeout")
    /\ UNCHANGED <<heir, pipe, reader>>

CallerStep == EndScan \/ WaitLog \/ WaitOutput \/ WaitOnGoroutine \/ ReceiveDone

TimeoutStep == Expire \/ FirstTimeout \/ SecondTimeout

Next ==
    \/ \E kind \in Kinds : StartFails(kind) \/ \E plan \in Plans : Start(kind, plan)
    \/ \E plan \in Plans : StartUncollected(plan)
    \/ CallerStep \/ TimeoutStep \/ ReaderStep
    \/ ChildStep \/ HeirEnds

Spec == Init /\ [][Next]_vars

(* Goroutines and timers go on, and so does a process that does not hang.  *)
(* A process that is left behind need not end.                             *)
FairSpec ==
    /\ Spec
    /\ WF_vars(CallerStep) /\ WF_vars(TimeoutStep)
    /\ WF_vars(ReaderStep) /\ WF_vars(ChildStep)

-----------------------------------------------------------------------------
(* Properties.                                                             *)

(* A call that reports success ran a command that ended with status 0, was *)
(* neither interrupted nor past its deadline, and, unless the output only  *)
(* goes to the log, returns all of it: the caller (which parses it) never  *)
(* sees a part of a list of volume groups.                                 *)
SuccessIsComplete ==
    call.at = "returned" /\ call.result = "ok" =>
      /\ child.status = "ok"
      /\ ~call.interrupted /\ ~call.expired
      /\ call.kind # "log" => pipe = Empty /\ child.plan.lines = Empty

(* A scanner that gives up, or nobody who reads, leaves more than the pipe *)
(* holds.                                                                  *)
Blocking(plan) ==
    \E p \in Pipes : /\ p \in plan.long \/ reader[p] = "stopped"
                     /\ plan.lines[p] + pipe[p] > Capacity

(* ExecuteCommandWithTimeout always returns, whatever the process does or  *)
(* leaves behind.  The other calls return if no process is left behind for *)
(* ever: with a deadline even if the process hangs, without one if it does *)
(* not, where ExecuteCommand moreover needs lines that are read or few.    *)
CallsReturn ==
    /\ (call.kind = "timeout") ~> (call.at = "returned")
    /\ []<>~heir =>
         /\ (call.kind = "file") ~> (call.at = "returned")
         /\ (/\ call.kind \in {"log", "output"} /\ ~child.plan.hangs
             /\ call.kind = "log" => ~Blocking(child.plan)) ~> (call.at = "returned")
=============================================================================

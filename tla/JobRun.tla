------------------------------- MODULE JobRun -------------------------------
(* One run of a job from the inside: executeJob's group of the log scanner    *)
(* and the executor, which runs terraform init with its retries, the pre      *)
(* hook, the Terraform command, the post hook and records the result.  Each   *)
(* command is a process with its readers of module LogPipe.  A list of hooks  *)
(* is empty or has one hook.                                                  *)
EXTENDS LogPipe

CONSTANT Attempts   \* of terraform init: 3 in the code

ASSUME AttemptsAssumption == Attempts \in Nat \ {0}

VARIABLES
    pc,         \* where the executor is
    attempt,    \* which attempt of terraform init
    proc,       \* the command: "none", "running", or how it ended
    wants,      \* the stream the command is blocked on, or "none"
    printed,    \* printed[src]: lines the commands have written
    broke,      \* history: a hook or the Terraform command ended "bad"
    recorded,   \* the result is in the jobs table
    result      \* what executeJob returned

runVars == <<pc, attempt, proc, wants, printed, broke, recorded, result>>
vars == <<pipeVars, runVars>>

Hooks == {"pre", "post"}
Terraform == {"init", "main"}
Commands == Hooks \union Terraform

(* "ok" is an exit code the caller takes for success: 0, and 2 of a plan *)
Exited == {"ok", "bad"}

Readers(c) == IF c \in Hooks THEN {"hook"} ELSE Copiers

RunTypeOK ==
    /\ PipeTypeOK
    /\ pc \in Commands \union {"pause", "record", "failing", "returned", "failed"}
    /\ attempt \in 1 .. Attempts
    /\ proc \in {"none", "running"} \union Exited
    /\ wants \in Sources \union {"none"}
    /\ printed \in [Sources -> 0 .. MaxLines]
    /\ broke \in BOOLEAN
    /\ recorded \in BOOLEAN
    /\ result \in {"none", "ok", "error"}

RunInit ==
    /\ PipeInit
    /\ pc = "init"
    /\ attempt = 1
    /\ proc = "none"
    /\ wants = "none"
    /\ printed = [src \in Sources |-> 0]
    /\ broke = FALSE
    /\ recorded = FALSE
    /\ result = "none"

-----------------------------------------------------------------------------
(* The command: a program that prints to its streams and exits *)

PrintedLines == printed["out"] + printed["err"] + printed["hook"]

(* it goes on to write a line, and blocks while the pipe is full *)
Want(src) ==
    /\ proc = "running"
    /\ wants = "none"
    /\ src \in Readers(pc)
    /\ PrintedLines < MaxLines
    /\ wants' = src
    /\ UNCHANGED <<pipeVars, pc, attempt, proc, printed, broke, recorded, result>>

PrintLine(kind) ==
    /\ proc = "running"
    /\ wants # "none"
    /\ Len(unread[wants]) < PipeSize
    /\ unread' = [unread EXCEPT ![wants] = Append(@, kind)]
    /\ printed' = [printed EXCEPT ![wants] = @ + 1]
    /\ wants' = "none"
    /\ UNCHANGED <<at, hookPipe, scan, hold, done, counts,
                   pc, attempt, proc, broke, recorded, result>>

Ends(how) ==
    /\ proc' = how
    /\ wants' = "none"
    /\ broke' = (broke \/ (how = "bad" /\ pc # "init"))
    /\ UNCHANGED <<pipeVars, pc, attempt, printed, recorded, result>>

Exit == proc = "running" /\ wants = "none" /\ \E how \in Exited : Ends(how)

(* CommandContext kills it when the context is done *)
Kill == proc = "running" /\ done /\ Ends("bad")

(* a reader has read all the command wrote and finds the other end closed *)
ReadEnd(src) ==
    /\ at[src] = "reading"
    /\ unread[src] = <<>>
    /\ proc \in Exited
    /\ src = "hook" => hookPipe = "open"
    /\ ReaderGoes(src, "eof")
    /\ UNCHANGED <<unread, hookPipe, scan, hold, done, counts, runVars>>

-----------------------------------------------------------------------------
(* The executor *)

ExecutorGoes(c) ==
    /\ pc' = c
    /\ UNCHANGED <<attempt, printed, broke, recorded, result>>

(* where the executor goes from a command *)
AfterHook == IF pc = "pre" THEN "main" ELSE "record"
AfterTerraform == IF pc = "init" THEN "pre" ELSE "post"
AfterFailure == IF pc = "init" THEN "pause" ELSE "failing"

StartCommand ==
    /\ pc \in Commands
    /\ proc = "none"
    /\ ~done
    /\ proc' = "running"
    /\ at' = [src \in Sources |-> IF src \in Readers(pc) THEN "reading" ELSE "off"]
    /\ hookPipe' = "open"
    /\ UNCHANGED <<unread, scan, hold, done, counts,
                   pc, attempt, wants, printed, broke, recorded, result>>

(* the backend file or the generated files cannot be written *)
PrepareFails ==
    /\ pc = "init" /\ attempt = 1
    /\ proc = "none"
    /\ ExecutorGoes("failing")
    /\ UNCHANGED <<pipeVars, proc, wants>>

(* a start, or a call before it, fails, on a cancelled context for certain;   *)
(* init is tried again                                                        *)
StartFails ==
    /\ pc \in Commands
    /\ proc = "none"
    /\ ExecutorGoes(AfterFailure)
    /\ UNCHANGED <<pipeVars, proc, wants>>

(* the job has no such hook *)
SkipHook ==
    /\ pc \in Hooks
    /\ proc = "none"
    /\ ExecutorGoes(AfterHook)
    /\ UNCHANGED <<pipeVars, proc, wants>>

Leave(c) ==
    /\ proc' = "none"
    /\ at' = [src \in Sources |-> "off"]
    /\ unread' = [src \in Sources |-> <<>>]
    /\ ExecutorGoes(c)
    /\ UNCHANGED <<hookPipe, scan, hold, done, counts, wants>>

(* tfexec waits for both copiers, then for the process *)
TerraformReturns ==
    /\ pc \in Terraform
    /\ proc \in Exited
    /\ \A c \in Copiers : at[c] \in Ended
    /\ Leave(IF proc = "ok" /\ ~done THEN AfterTerraform ELSE AfterFailure)

(* bug: init is tried once too often *)
RetryInitOnceMore ==
    /\ pc = "pause"
    /\ IF attempt <= Attempts
       THEN pc' = "init" /\ attempt' = attempt + 1
       ELSE pc' = "failing" /\ UNCHANGED attempt
    /\ UNCHANGED <<pipeVars, proc, wants, printed, broke, recorded, result>>

(* the pause after a failed init is over, also after the last *)
RetryInit ==
    /\ pc = "pause"
    /\ IF attempt < Attempts
       THEN pc' = "init" /\ attempt' = attempt + 1
       ELSE pc' = "failing" /\ UNCHANGED attempt
    /\ UNCHANGED <<pipeVars, proc, wants, printed, broke, recorded, result>>

CancelPause ==
    /\ pc = "pause"
    /\ done
    /\ ExecutorGoes("failing")
    /\ UNCHANGED <<pipeVars, proc, wants>>

(* cmd.Wait: the hook has exited; the read end of its pipe is closed *)
WaitHook ==
    /\ pc \in Hooks
    /\ proc \in Exited
    /\ hookPipe = "open"
    /\ hookPipe' = "closed"
    /\ UNCHANGED <<unread, at, scan, hold, done, counts, runVars>>

(* bug: the error of the hook's reader is not looked at *)
HookSucceededIfExitedOk == proc = "ok"

(* bug: the exit status of the hook is not looked at *)
HookSucceededIfRead == at["hook"] \in {"eof", "cancelled"}

(* waitErr is nil, and scanErr is nil or a cancellation *)
HookSucceeded == proc = "ok" /\ at["hook"] \in {"eof", "cancelled"}

(* bug: runHooks does not wait for the reader *)
HookReturnsEarly ==
    /\ pc \in Hooks
    /\ proc \in Exited
    /\ hookPipe = "closed"
    /\ proc' = "none"
    /\ ExecutorGoes(IF proc = "ok" THEN AfterHook ELSE "failing")
    /\ UNCHANGED <<pipeVars, wants>>

HookReturns ==
    /\ pc \in Hooks
    /\ proc \in Exited
    /\ hookPipe = "closed"
    /\ at["hook"] \in Ended
    /\ Leave(IF HookSucceeded THEN AfterHook ELSE "failing")

(* terraform show, the upload and the status writes, all on the run's context *)
Record ==
    /\ pc = "record"
    /\ ~done
    /\ recorded' = TRUE
    /\ pc' \in {"returned", "failing"}
    /\ UNCHANGED <<pipeVars, attempt, proc, wants, printed, broke, result>>

RecordFails ==
    /\ pc = "record"
    /\ ExecutorGoes("failing")
    /\ UNCHANGED <<pipeVars, proc, wants>>

(* the executor's error, returned with the pipe closed, cancels the run *)
ExecutorFails ==
    /\ pc = "failing"
    /\ done' = TRUE
    /\ ExecutorGoes("failed")
    /\ UNCHANGED <<unread, at, hookPipe, scan, hold, counts, proc, wants>>

(* bug: the executor leaves its end of the pipe open *)
ScanEndNever == FALSE

(* pw.Close has run: the scanner comes to the end of the pipe *)
ScanEnd ==
    /\ scan = "reading"
    /\ pc \in {"failing", "returned", "failed"}
    /\ scan' = "eof"
    /\ UNCHANGED <<unread, at, hookPipe, hold, done, counts, runVars>>

(* Wait of the group, and what executeJob makes of it *)
ExecuteJobReturns ==
    /\ result = "none"
    /\ pc \in {"returned", "failed"}
    /\ scan \in {"eof", "failed"}
    /\ result' = IF pc = "returned" /\ scan = "eof" THEN "ok" ELSE "error"
    /\ UNCHANGED <<pipeVars, pc, attempt, proc, wants, printed, broke, recorded>>

-----------------------------------------------------------------------------
(* The run and its surroundings *)

Crashed == damaged = "crash"

(* the worker's context is cancelled *)
Shutdown ==
    /\ result = "none"
    /\ ~done
    /\ done' = TRUE
    /\ UNCHANGED <<unread, at, hookPipe, scan, hold, counts, runVars>>

(* nothing of the run is left to do *)
RunOver ==
    /\ result # "none" \/ Crashed
    /\ UNCHANGED vars

ReaderStep(src) ==
    \/ /\ ReadLine(src) \/ ReadClosed(src) \/ WritePipe(src)
          \/ WriteOverlong(src) \/ PipeRefuses(src) \/ WriteLog(src)
       /\ UNCHANGED runVars
    \/ ReadEnd(src)

HookReaderStep == (TellLine \/ CheckDone) /\ UNCHANGED runVars

ScannerStep ==
    \/ (PublishLine \/ ScanNext \/ ScanFails) /\ UNCHANGED runVars
    \/ ScanEnd

CommandStep ==
    \/ \E src \in Sources : Want(src)
    \/ \E kind \in Kinds : PrintLine(kind)
    \/ Exit \/ Kill

ExecutorStep ==
    \/ PrepareFails \/ StartCommand \/ StartFails \/ SkipHook
    \/ TerraformReturns \/ RetryInit \/ CancelPause
    \/ WaitHook \/ HookReturns
    \/ Record \/ RecordFails \/ ExecutorFails \/ ExecuteJobReturns

Running == ~Crashed /\ result = "none"

RunNext ==
    \/ /\ Running
       /\ \/ \E src \in Sources : ReaderStep(src)
          \/ HookReaderStep \/ ScannerStep \/ CommandStep \/ ExecutorStep
          \/ Shutdown
    \/ RunOver

RunSpec == RunInit /\ [][RunNext]_vars

(* Every goroutine runs on, and a command goes on printing until it exits;    *)
(* nobody has to shut the process down.                                       *)
RunFairness ==
    /\ \A src \in Sources : WF_vars(Running /\ ReaderStep(src))
    /\ WF_vars(Running /\ HookReaderStep)
    /\ WF_vars(Running /\ ScannerStep)
    /\ WF_vars(Running /\ CommandStep)
    /\ WF_vars(Running /\ ExecutorStep)

FairRunSpec == RunSpec /\ RunFairness

-----------------------------------------------------------------------------
(* Properties *)

(* A run that succeeded has published every line its commands printed, told a  *)
(* hook's lines a second time, and has them all in its log unless the two      *)
(* copiers damaged it: the closing of a hook's pipe under its reader, a broken *)
(* log pipe or a line over the limit never loses output silently.              *)
CompleteOnSuccess ==
    result = "ok" =>
        /\ streamed = printed
        /\ told = printed["hook"]
        /\ damaged = "no" => logged = printed

(* When executeJob returns, and its caller reads the log buffer and the job's  *)
(* directory is gone, no command runs and no goroutine of the run is left.     *)
QuietAfterReturn ==
    result # "none" =>
        /\ proc = "none"
        /\ \A src \in Sources : at[src] = "off"

(* A result is recorded only for a run whose hooks and Terraform command all   *)
(* ended with an exit code their caller takes for success.                     *)
RecordedMeansClean == recorded => ~broke

(* Nothing gets into a job's log that the followers of its stream were not     *)
(* offered: the pipe comes first in the MultiWriter, and its error ends it.    *)
LogWasStreamed ==
    \A src \in Sources :
        logged[src] <= streamed[src] + (IF hold = src THEN 1 ELSE 0)

(* a hook writes into a full pipe nobody reads any more, and waits for a kill *)
HookStuck ==
    /\ wants = "hook"
    /\ at["hook"] = "toolong"
    /\ Len(unread["hook"]) = PipeSize
    /\ ~done

(* what each party waits for, as the guards of its actions say *)
ReaderCanGo(src) ==
    \/ at[src] \in {"log", "tell", "check"}
    \/ at[src] \in {"pipe", "overlong"} /\ (scan = "reading" \/ PipeClosed)
    \/ /\ at[src] = "reading"
       /\ \/ unread[src] # <<>> \/ proc \in Exited
          \/ IF src = "hook" THEN hookPipe = "closed" ELSE done

ScannerCanGo ==
    \/ scan \in {"publish", "check", "broken"}
    \/ scan = "reading" /\ pc \in {"failing", "returned", "failed"}

CommandCanGo ==
    /\ proc = "running"
    /\ wants # "none" => done \/ Len(unread[wants]) < PipeSize

ExecutorCanGo ==
    \/ proc = "none" /\ pc \in Commands \union {"pause", "record", "failing"}
    \/ pc \in {"returned", "failed"} /\ scan \in {"eof", "failed"}
    \/ /\ proc \in Exited
       /\ IF pc \in Hooks THEN hookPipe = "open" \/ at["hook"] \in Ended
                          ELSE \A c \in Copiers : at[c] \in Ended

(* The command, its readers, the log scanner and the executor never all wait   *)
(* for each other: as long as a run has not returned, one of them can go on,   *)
(* without a shutdown, whatever has failed before; but for the stuck hook.     *)
NobodyIsStuck ==
    Running /\ ~HookStuck =>
        \/ \E src \in Sources : ReaderCanGo(src)
        \/ ScannerCanGo \/ CommandCanGo \/ ExecutorCanGo

(* Every run returns, whatever fails in it and whenever: the only one that may *)
(* not is the one whose hook prints on after a line over the scanner's limit.  *)
RunReturns == result = "none" ~> (result # "none" \/ Crashed \/ HookStuck)

(* Once its context is cancelled, by a shutdown or by a failure of the         *)
(* scanner or the executor, every run returns, the stuck hook's included.      *)
CancelledRunReturns == done ~> (result # "none" \/ Crashed)

=============================================================================

------------------------------- MODULE LogPipe -------------------------------
(* Where the output of a job's commands goes.  Terraform's two streams are    *)
(* copied line by line by two goroutines of tfexec, a hook's output is        *)
(* scanned by one goroutine of runHooks.  All of them write to executeJob's   *)
(* MultiWriter: first the pipe, whose other end the log scanner publishes,    *)
(* then the log buffer.  The hook's reader then publishes the line itself.    *)
EXTENDS Naturals, Sequences

CONSTANTS
    PipeSize,   \* lines an operating system pipe holds
    MaxLines,   \* bound: lines the commands of one run print
    Kinds       \* of lines: "short", and "long" for one over 64 KB

ASSUME PipeAssumption ==
    PipeSize \in Nat \ {0} /\ MaxLines \in Nat /\ Kinds \subseteq {"short", "long"}

VARIABLES
    unread,     \* unread[src]: what the command has written and nobody read
    at,         \* at[src]: where the goroutine that reads src is
    hookPipe,   \* the read end of the hook's pipe: "open" or "closed" by Wait
    scan,       \* where the log scanner is
    hold,       \* the source of the line it has
    done,       \* the context of the run is cancelled
    streamed,   \* streamed[src]: lines of src the log scanner has published
    logged,     \* logged[src]: lines of src in the log buffer
    told,       \* lines the hook's reader has published itself
    damaged     \* the log buffer: "no", "lost" lines or "crash" of the process

pipeVars == <<unread, at, hookPipe, scan, hold, done, streamed, logged, told, damaged>>
counts == <<streamed, logged, told, damaged>>

Copiers == {"out", "err"}
Sources == Copiers \union {"hook"}

Ended == {"eof", "closed", "toolong", "cancelled"}
ReaderStates == {"off", "reading", "pipe", "overlong", "log", "tell", "check"}
                    \union Ended
ScannerStates == {"reading", "publish", "check", "broken", "failed", "eof"}

PipeTypeOK ==
    /\ \A src \in Sources : unread[src] \in Seq(Kinds) /\ Len(unread[src]) <= PipeSize
    /\ at \in [Sources -> ReaderStates]
    /\ hookPipe \in {"open", "closed"}
    /\ scan \in ScannerStates
    /\ hold \in Sources \union {"none"}
    /\ done \in BOOLEAN
    /\ streamed \in [Sources -> 0 .. MaxLines]
    /\ logged \in [Sources -> 0 .. MaxLines]
    /\ told \in 0 .. MaxLines
    /\ damaged \in {"no", "lost", "crash"}

PipeInit ==
    /\ unread = [src \in Sources |-> <<>>]
    /\ at = [src \in Sources |-> "off"]
    /\ hookPipe = "open"
    /\ scan = "reading"
    /\ hold = "none"
    /\ done = FALSE
    /\ streamed = [src \in Sources |-> 0]
    /\ logged = [src \in Sources |-> 0]
    /\ told = 0
    /\ damaged = "no"

ReaderGoes(src, s) == at' = [at EXCEPT ![src] = s]

-----------------------------------------------------------------------------
(* The goroutine that reads src *)

(* a copier takes a line of any length, the hook's scanner gives up on a long *)
AfterRead(src, kind) ==
    CASE kind = "short" -> "pipe"
      [] kind = "long" /\ src = "hook" -> "toolong"
      [] OTHER -> "overlong"

ReadLine(src) ==
    /\ at[src] = "reading"
    /\ unread[src] # <<>>
    /\ src = "hook" => hookPipe = "open"
    /\ ReaderGoes(src, AfterRead(src, Head(unread[src])))
    /\ unread' = [unread EXCEPT ![src] = Tail(@)]
    /\ UNCHANGED <<hookPipe, scan, hold, done, counts>>

(* tfexec closes its read ends when the context is done; cmd.Wait closes the  *)
(* hook's as soon as the hook has exited, read or not                         *)
ReadClosed(src) ==
    /\ at[src] = "reading"
    /\ IF src = "hook" THEN hookPipe = "closed" ELSE done
    /\ ReaderGoes(src, "closed")
    /\ UNCHANGED <<unread, hookPipe, scan, hold, done, counts>>

(* a Write to the pipe returns when the scanner has taken all of it *)
WritePipe(src) ==
    /\ at[src] = "pipe"
    /\ scan = "reading"
    /\ scan' = "publish"
    /\ hold' = src
    /\ ReaderGoes(src, "log")
    /\ UNCHANGED <<unread, hookPipe, done, counts>>

(* the log scanner gives up on a line over its limit and closes the pipe *)
WriteOverlong(src) ==
    /\ at[src] = "overlong"
    /\ scan = "reading"
    /\ scan' = "broken"
    /\ ReaderGoes(src, "closed")
    /\ UNCHANGED <<unread, hookPipe, hold, done, counts>>

(* bug: the log scanner leaves its end of the pipe open *)
PipeClosedNever == FALSE

PipeClosed == scan \in {"broken", "failed", "eof"}

(* bug: a line the pipe refuses goes to the log all the same *)
PipeRefusesButLogs(src) ==
    /\ at[src] \in {"pipe", "overlong"}
    /\ PipeClosed
    /\ ReaderGoes(src, "log")
    /\ UNCHANGED <<unread, hookPipe, scan, hold, done, counts>>

(* the MultiWriter stops at the pipe's error: a copier ends, runHooks goes on *)
PipeRefuses(src) ==
    /\ at[src] \in {"pipe", "overlong"}
    /\ PipeClosed
    /\ ReaderGoes(src, IF src = "hook" THEN "tell" ELSE "closed")
    /\ UNCHANGED <<unread, hookPipe, scan, hold, done, counts>>

(* bytes.Buffer has no lock: when both copiers are in it, a write of one may  *)
(* be overwritten by the other's or index a slice that is not what it was     *)
LogRace == \A c \in Copiers : at[c] = "log"

WriteLog(src) ==
    /\ at[src] = "log"
    /\ ReaderGoes(src, IF src = "hook" THEN "tell" ELSE "reading")
    /\ \/ logged' = [logged EXCEPT ![src] = @ + 1] /\ UNCHANGED damaged
       \/ /\ src \in Copiers /\ LogRace
          /\ damaged' \in {"lost", "crash"}
          /\ UNCHANGED logged
    /\ UNCHANGED <<unread, hookPipe, scan, hold, done, streamed, told>>

TellLine ==
    /\ at["hook"] = "tell"
    /\ told' = told + 1
    /\ ReaderGoes("hook", "check")
    /\ UNCHANGED <<unread, hookPipe, scan, hold, done, streamed, logged, damaged>>

CheckDone ==
    /\ at["hook"] = "check"
    /\ ReaderGoes("hook", IF done THEN "cancelled" ELSE "reading")
    /\ UNCHANGED <<unread, hookPipe, scan, hold, done, counts>>

-----------------------------------------------------------------------------
(* The log scanner *)

PublishLine ==
    /\ scan = "publish"
    /\ streamed' = [streamed EXCEPT ![hold] = @ + 1]
    /\ scan' = "check"
    /\ hold' = "none"
    /\ UNCHANGED <<unread, at, hookPipe, done, logged, told, damaged>>

ScanNext ==
    /\ scan = "check"
    /\ scan' = IF done THEN "broken" ELSE "reading"
    /\ UNCHANGED <<unread, at, hookPipe, hold, done, counts>>

(* it returns an error with the pipe closed, and the group cancels the run *)
ScanFails ==
    /\ scan = "broken"
    /\ scan' = "failed"
    /\ done' = TRUE
    /\ UNCHANGED <<unread, at, hookPipe, hold, counts>>

=============================================================================

--------------------------- MODULE RunOutputProofs ---------------------------
(* Where the lines of a run are, for any number of lines, any pipe size and   *)
(* any number of attempts: no count exceeds its bound, a run that succeeds    *)
(* has published, told and logged all its commands have printed, and those    *)
(* who hand the lines on are never all waiting for each other.                *)
EXTENDS JobRunProofs

-----------------------------------------------------------------------------
(* The lines of one source.  Each is in the pipe or in the hands of its       *)
(* reader until the log scanner gets it; it enters the log buffer only after  *)
(* that, and the hook's reader publishes it itself in the end.                *)

BeforePipe == {"pipe", "overlong"}
BeforeTell == {"pipe", "log", "tell"}

Waiting(src) == Len(unread[src]) + One(at[src] \in BeforePipe)
Sent(src) == streamed[src] + One(hold = src)
InLog(src) == logged[src] + One(at[src] = "log")
Untold == Len(unread["hook"]) + One(at["hook"] \in BeforeTell)

(* what keeps executeJob from success, once it has happened *)
Disturbed ==
    \/ scan \in {"broken", "failed"}
    \/ pc \in {"failing", "failed"}
    \/ done /\ pc # "returned"

GaveUp(src) == at[src] \in Ended \ {"eof"}

(* lines of src may be missing, and the run is going to fail *)
Excused(src) == Disturbed \/ GaveUp(src)

-----------------------------------------------------------------------------
(* The inductive invariant *)

(* A copier gives up only in a run that fails for another reason; the hook's  *)
(* reader reports it by itself, but for a cancellation.                       *)
GivenUp ==
    /\ \A c \in Copiers : GaveUp(c) => Disturbed
    /\ at["hook"] = "cancelled" => done

Room ==
    /\ PrintedLines + One(wants # "none") <= MaxLines
    /\ \A src \in Sources : Len(unread[src]) <= PipeSize

(* no line is published twice, and none is left out without an excuse *)
Streaming ==
    \A src \in Sources :
        /\ Sent(src) + Waiting(src) <= printed[src]
        /\ Excused(src) \/ Sent(src) + Waiting(src) = printed[src]

Telling ==
    /\ told + Untold <= printed["hook"]
    /\ Excused("hook") \/ told + Untold = printed["hook"]

Undamaged == damaged = "no" => \A src \in Sources : InLog(src) = Sent(src)

OutputInv == GivenUp /\ Room /\ Streaming /\ Telling /\ Undamaged

Countable ==
    /\ \A src \in Sources :
        /\ Len(unread[src]) \in Nat /\ Waiting(src) \in Nat /\ Sent(src) \in Nat
        /\ InLog(src) \in Nat /\ streamed[src] \in Nat /\ logged[src] \in Nat
        /\ printed[src] \in Nat
    /\ told \in Nat /\ Untold \in Nat

LEMMA CountableHolds == Types => Countable
  <1> SUFFICES ASSUME Types PROVE Countable
    OBVIOUS
  <1>1. \A src \in Sources : unread[src] \in Seq(Kinds)
    BY DEF Types
  <1>2. \A src \in Sources : Len(unread[src]) \in Nat
    BY <1>1
  <1>3. ASSUME NEW src \in Sources
        PROVE  /\ streamed[src] \in Nat /\ logged[src] \in Nat /\ printed[src] \in Nat
               /\ Sent(src) \in Nat /\ InLog(src) \in Nat /\ Waiting(src) \in Nat
    BY <1>2 DEF Types, Waiting, Sent, InLog, One
  <1>4. told \in Nat /\ Untold \in Nat
    BY <1>2 DEF Types, Sources, Untold, One
  <1> QED
    BY <1>2, <1>3, <1>4 DEF Countable

LEMMA CountableAfter == Types' => Countable'
  BY CountableHolds, PTL

-----------------------------------------------------------------------------
(* What a step does to the lines: it moves at most one of each source on, or  *)
(* drops some of them with an excuse.                                         *)

LineStep(src) ==
    \/ /\ Sent(src)' = Sent(src) /\ Waiting(src)' = Waiting(src)
       /\ printed'[src] = printed[src]
    \/ /\ Sent(src)' = Sent(src) /\ Waiting(src)' = Waiting(src) + 1
       /\ printed'[src] = printed[src] + 1
    \/ /\ Sent(src)' = Sent(src) + 1 /\ Waiting(src) = Waiting(src)' + 1
       /\ printed'[src] = printed[src]
    \/ /\ Sent(src)' = Sent(src) /\ Waiting(src)' <= Waiting(src)
       /\ printed'[src] = printed[src] /\ Excused(src)'

TellStep ==
    \/ /\ told' = told /\ Untold' = Untold
       /\ printed'["hook"] = printed["hook"]
    \/ /\ told' = told /\ Untold' = Untold + 1
       /\ printed'["hook"] = printed["hook"] + 1
    \/ /\ told' = told + 1 /\ Untold = Untold' + 1
       /\ printed'["hook"] = printed["hook"]
    \/ /\ told' = told /\ Untold' <= Untold
       /\ printed'["hook"] = printed["hook"] /\ Excused("hook")'

LogStep(src) ==
    damaged' = "no" =>
        /\ damaged = "no"
        /\ \/ InLog(src)' = InLog(src) /\ Sent(src)' = Sent(src)
           \/ InLog(src)' = InLog(src) + 1 /\ Sent(src)' = Sent(src) + 1

LinesMove == (\A src \in Sources : LineStep(src) /\ LogStep(src)) /\ TellStep

ExcusesStay == \A src \in Sources : Excused(src) => Excused(src)'

LEMMA MoveKeepsStreaming ==
    ASSUME Types, Types', Streaming, LinesMove, ExcusesStay
    PROVE  Streaming'
  <1> SUFFICES ASSUME NEW src \in Sources
               PROVE  /\ Sent(src)' + Waiting(src)' <= printed'[src]
                      /\ \/ Excused(src)'
                         \/ Sent(src)' + Waiting(src)' = printed'[src]
    BY DEF Streaming
  <1> DEFINE s == Sent(src)  w == Waiting(src)  p == printed[src]
             sn == Sent(src)'  wn == Waiting(src)'  pn == printed'[src]
             e == Excused(src)  en == Excused(src)'
  <1>1. s \in Nat /\ w \in Nat /\ p \in Nat /\ sn \in Nat /\ wn \in Nat /\ pn \in Nat
    BY CountableHolds, CountableAfter DEF Countable
  <1>2. s + w <= p /\ (e \/ s + w = p) /\ (e => en)
    BY DEF Streaming, ExcusesStay
  <1>3. \/ sn = s /\ wn = w /\ pn = p
        \/ sn = s /\ wn = w + 1 /\ pn = p + 1
        \/ sn = s + 1 /\ w = wn + 1 /\ pn = p
        \/ sn = s /\ wn <= w /\ pn = p /\ en
    BY DEF LinesMove, LineStep
  <1> HIDE DEF s, w, p, sn, wn, pn, e, en
  <1>4. sn + wn <= pn /\ (en \/ sn + wn = pn)
    BY <1>1, <1>2, <1>3
  <1> QED
    BY <1>4 DEF sn, wn, pn, en

LEMMA MoveKeepsTelling ==
    ASSUME Types, Types', Telling, LinesMove, ExcusesStay
    PROVE  Telling'
  <1> DEFINE s == told  w == Untold  p == printed["hook"]
             sn == told'  wn == Untold'  pn == printed'["hook"]
             e == Excused("hook")  en == Excused("hook")'
  <1>1. s \in Nat /\ w \in Nat /\ p \in Nat /\ sn \in Nat /\ wn \in Nat /\ pn \in Nat
    BY CountableHolds, CountableAfter DEF Countable, Sources
  <1>2. s + w <= p /\ (e \/ s + w = p) /\ (e => en)
    BY DEF Telling, ExcusesStay, Sources
  <1>3. \/ sn = s /\ wn = w /\ pn = p
        \/ sn = s /\ wn = w + 1 /\ pn = p + 1
        \/ sn = s + 1 /\ w = wn + 1 /\ pn = p
        \/ sn = s /\ wn <= w /\ pn = p /\ en
    BY DEF LinesMove, TellStep
  <1> HIDE DEF s, w, p, sn, wn, pn, e, en
  <1>4. sn + wn <= pn /\ (en \/ sn + wn = pn)
    BY <1>1, <1>2, <1>3
  <1> QED
    BY <1>4 DEF sn, wn, pn, en, Telling

LEMMA MoveKeepsUndamaged ==
    ASSUME Undamaged, LinesMove
    PROVE  Undamaged'
  BY DEF Undamaged, LinesMove, LogStep

-----------------------------------------------------------------------------
(* The excuses: once there is one the run fails, and a reader that gives up   *)
(* has or gets one.                                                           *)

LEMMA DisturbedStays ==
    ASSUME Types, Control, [RunNext]_vars, Disturbed
    PROVE  Disturbed'
  <1> USE DEF Disturbed, pipeVars, runVars, counts
  <1>1. CASE \E src \in Sources : ReaderStep(src)
    BY <1>1
    DEF ReaderStep, ReadLine, ReadClosed, WritePipe, WriteOverlong, PipeRefuses,
        WriteLog, ReadEnd
  <1>2. CASE HookReaderStep \/ ScannerStep
    BY <1>2
    DEF HookReaderStep, TellLine, CheckDone, ScannerStep, PublishLine, ScanNext,
        ScanFails, ScanEnd
  <1>3. CASE CommandStep
    BY <1>3 DEF CommandStep, Want, PrintLine, Exit, Kill, Ends
  <1>4. CASE Running /\ ExecutorStep
    <2>1. CASE TerraformReturns \/ HookReturns
      BY <2>1 DEF TerraformReturns, HookReturns, Leave, ExecutorGoes,
                  AfterTerraform, AfterFailure, AfterHook, Terraform, Hooks
    <2>2. CASE PrepareFails \/ StartCommand \/ StartFails \/ SkipHook \/ RetryInit
               \/ CancelPause \/ WaitHook
      BY <2>2 DEF PrepareFails, StartCommand, StartFails, SkipHook, RetryInit,
                  CancelPause, WaitHook, ExecutorGoes, AfterFailure, AfterHook,
                  Commands, Terraform, Hooks
    <2>3. CASE Record \/ RecordFails \/ ExecutorFails \/ ExecuteJobReturns
      BY <2>3 DEF Record, RecordFails, ExecutorFails, ExecuteJobReturns, ExecutorGoes
    <2> QED
      BY <1>4, <2>1, <2>2, <2>3 DEF ExecutorStep
  <1>5. CASE Shutdown \/ UNCHANGED vars
    BY <1>5 DEF Shutdown, vars
  <1> QED
    BY <1>1, <1>2, <1>3, <1>4, <1>5 DEF RunNext, RunOver

(* tfexec and runHooks fail, or find the context cancelled, when a reader of  *)
(* theirs has given up.                                                       *)
LEMMA ReturnHasExcuse ==
    ASSUME Types, Control, GivenUp, TerraformReturns \/ HookReturns,
           NEW src \in Sources, GaveUp(src)
    PROVE  Disturbed'
  <1>1. src \in Readers(pc) /\ at[src] \in {"closed", "toolong", "cancelled"}
    BY DEF Control, GaveUp, Ended
  <1>2. CASE TerraformReturns
    <2>1. Disturbed /\ pc # "returned"
      BY <1>1, <1>2 DEF TerraformReturns, Readers, Hooks, Terraform, GivenUp
    <2>2. pc' # "returned" /\ UNCHANGED <<scan, done>>
      BY <1>2 DEF TerraformReturns, Leave, ExecutorGoes, AfterTerraform, AfterFailure
    <2> QED
      BY <1>2, <2>1, <2>2 DEF Disturbed, TerraformReturns, Terraform
  <1>3. CASE HookReturns
    <2>1. src = "hook" /\ pc \in Hooks
      BY <1>1, <1>3 DEF HookReturns, Readers, Hooks
    <2>2. /\ pc' = IF HookSucceeded THEN AfterHook ELSE "failing"
          /\ UNCHANGED <<scan, done>>
      BY <1>3 DEF HookReturns, Leave, ExecutorGoes
    <2>3. CASE at["hook"] = "cancelled"
      BY <2>2, <2>3 DEF Disturbed, GivenUp, AfterHook
    <2>4. CASE at["hook"] \in {"closed", "toolong"}
      BY <2>2, <2>4 DEF Disturbed, HookSucceeded
    <2> QED
      BY <1>1, <2>1, <2>3, <2>4
  <1> QED
    BY <1>2, <1>3

LEMMA GivenUpStep ==
    ASSUME Types, Control, GivenUp, [RunNext]_vars
    PROVE  GivenUp'
  <1>0. Disturbed => Disturbed'
    BY DisturbedStays
  <1> USE DEF GivenUp, GaveUp, Copiers, Sources, Ended, pipeVars, runVars, counts
  <1>1. ASSUME NEW src \in Sources, Running, ReaderStep(src)
        PROVE  GivenUp'
    <2>1. CASE ReadLine(src)
      <3>1. Head(unread[src]) \in {"short", "long"}
        BY <2>1, TakeLine DEF ReadLine, Types
      <3>2. AfterRead(src, Head(unread[src]))
                \in {"pipe", "overlong"} \union (IF src = "hook" THEN {"toolong"} ELSE {})
        BY <3>1 DEF AfterRead
      <3> QED
        BY <1>0, <2>1, <3>2 DEF ReadLine, ReaderGoes, Types
    <2>2. CASE ReadClosed(src)
      <3>1. src \in Copiers => done /\ pc # "returned"
        BY <2>2 DEF ReadClosed, Control, Commands, Hooks, Terraform
      <3> QED
        BY <1>0, <1>1, <2>2, <3>1 DEF ReadClosed, ReaderGoes, Types, Disturbed, ReaderStep
    <2>3. CASE WritePipe(src) \/ WriteLog(src)
      BY <1>0, <2>3 DEF WritePipe, WriteLog, ReaderGoes, Types
    <2>4. CASE WriteOverlong(src)
      BY <1>0, <2>4 DEF WriteOverlong, ReaderGoes, Types, Disturbed
    <2>5. CASE PipeRefuses(src)
      <3>1. scan \in {"broken", "failed"}
        BY <2>5 DEF PipeRefuses, PipeClosed, Control, Commands, Hooks, Terraform
      <3> QED
        BY <2>5, <3>1 DEF PipeRefuses, ReaderGoes, Types, Disturbed
    <2>6. CASE ReadEnd(src)
      BY <1>0, <2>6 DEF ReadEnd, ReaderGoes, Types
    <2> QED
      BY <1>1, <2>1, <2>2, <2>3, <2>4, <2>5, <2>6 DEF ReaderStep
  <1>2. CASE HookReaderStep
    BY <1>0, <1>2 DEF HookReaderStep, TellLine, CheckDone, ReaderGoes, Types
  <1>3. CASE StartCommand \/ TerraformReturns \/ HookReturns
    BY <1>0, <1>3 DEF StartCommand, TerraformReturns, HookReturns, Leave
  <1>4. CASE UNCHANGED at /\ (done => done')
    BY <1>0, <1>4
  <1>5. CASE ScannerStep \/ CommandStep
    BY <1>4, <1>5
    DEF ScannerStep, PublishLine, ScanNext, ScanFails, ScanEnd, CommandStep, Want,
        PrintLine, Exit, Kill, Ends
  <1>6. CASE ExecutorStep
    BY <1>3, <1>4, <1>6
    DEF ExecutorStep, PrepareFails, StartFails, SkipHook, RetryInit, CancelPause,
        WaitHook, Record, RecordFails, ExecutorFails, ExecuteJobReturns, ExecutorGoes
  <1>7. CASE Shutdown \/ UNCHANGED vars
    BY <1>4, <1>7 DEF Shutdown, vars
  <1> QED
    BY <1>1, <1>2, <1>5, <1>6, <1>7 DEF RunNext, RunOver

LEMMA ExcuseStays ==
    ASSUME Types, Control, GivenUp, [RunNext]_vars
    PROVE  ExcusesStay
  <1> SUFFICES ASSUME NEW src \in Sources, Excused(src), ~Disturbed
               PROVE  Excused(src)'
    BY DisturbedStays DEF ExcusesStay, Excused
  <1>1. GaveUp(src)
    BY DEF Excused
  <1> USE DEF GaveUp, Ended, Excused, pipeVars, runVars, counts
  <1>2. CASE at'[src] = at[src]
    BY <1>1, <1>2
  <1>3. ASSUME NEW other \in Sources, ReaderStep(other) PROVE Excused(src)'
    BY <1>1, <1>2, <1>3
    DEF ReaderStep, ReadLine, ReadClosed, WritePipe, WriteOverlong, PipeRefuses,
        WriteLog, ReadEnd, ReaderGoes, Types
  <1>4. CASE HookReaderStep
    BY <1>1, <1>2, <1>4 DEF HookReaderStep, TellLine, CheckDone, ReaderGoes, Types
  <1>5. CASE TerraformReturns \/ HookReturns
    BY <1>1, <1>5, ReturnHasExcuse
  <1>6. CASE StartCommand
    BY <1>1, <1>6 DEF StartCommand, Control
  <1>7. CASE UNCHANGED at
    BY <1>2, <1>7
  <1>8. CASE ScannerStep \/ CommandStep
    BY <1>7, <1>8
    DEF ScannerStep, PublishLine, ScanNext, ScanFails, ScanEnd, CommandStep, Want,
        PrintLine, Exit, Kill, Ends
  <1>9. CASE ExecutorStep
    BY <1>5, <1>6, <1>7, <1>9
    DEF ExecutorStep, PrepareFails, StartFails, SkipHook, RetryInit, CancelPause,
        WaitHook, Record, RecordFails, ExecutorFails, ExecuteJobReturns, ExecutorGoes
  <1>10. CASE Shutdown \/ UNCHANGED vars
    BY <1>7, <1>10 DEF Shutdown, vars
  <1> QED
    BY <1>3, <1>4, <1>8, <1>9, <1>10 DEF RunNext, RunOver

-----------------------------------------------------------------------------
(* How each action moves the lines *)

(* a step after which every line is where it was *)
LEMMA QuietMovesLines ==
    ASSUME UNCHANGED <<unread, hold, counts, printed>>,
           \A src \in Sources :
               /\ at'[src] \in BeforePipe <=> at[src] \in BeforePipe
               /\ at'[src] = "log" <=> at[src] = "log",
           at'["hook"] \in BeforeTell <=> at["hook"] \in BeforeTell
    PROVE  LinesMove
  <1>1. Untold' = Untold
    BY DEF Untold, One
  <1>2. ASSUME NEW src \in Sources
        PROVE  Sent(src)' = Sent(src) /\ Waiting(src)' = Waiting(src)
               /\ InLog(src)' = InLog(src)
    BY DEF Sent, Waiting, InLog, One, counts
  <1> QED
    BY <1>1, <1>2 DEF LinesMove, LineStep, TellStep, LogStep, counts

(* a step that concerns the lines of src only *)
LEMMA OthersStay ==
    ASSUME NEW src \in Sources,
           \A o \in Sources \ {src} :
               /\ unread'[o] = unread[o] /\ at'[o] = at[o]
               /\ streamed'[o] = streamed[o] /\ logged'[o] = logged[o]
               /\ printed'[o] = printed[o]
               /\ hold' = o <=> hold = o,
           damaged' = "no" => damaged = "no",
           src # "hook" => told' = told,
           LineStep(src), LogStep(src),
           src = "hook" => TellStep
    PROVE  LinesMove
  <1>1. ASSUME NEW o \in Sources \ {src}
        PROVE  Sent(o)' = Sent(o) /\ Waiting(o)' = Waiting(o) /\ InLog(o)' = InLog(o)
    BY <1>1 DEF Sent, Waiting, InLog, One
  <1>2. \A o \in Sources : LineStep(o) /\ LogStep(o)
    BY <1>1 DEF LineStep, LogStep
  <1>3. TellStep
    <2>1. CASE src # "hook"
      BY <2>1 DEF Sources, TellStep, Untold
    <2> QED
      BY <2>1
  <1> QED
    BY <1>2, <1>3 DEF LinesMove

LEMMA ReadMovesLines ==
    ASSUME Types, Control, NEW src \in Sources, ReadLine(src), UNCHANGED runVars
    PROVE  LinesMove
  <1> DEFINE now == AfterRead(src, Head(unread[src]))
             rest == Len(Tail(unread[src]))
  <1>1. unread[src] \in Seq(Kinds) /\ unread[src] # <<>> /\ at[src] = "reading"
    BY DEF ReadLine, Types
  <1>2. rest \in Nat /\ Len(unread[src]) = rest + 1
    BY <1>1
  <1>3. /\ now \in {"pipe", "overlong", "toolong"}
        /\ src = "hook" => now # "overlong"
    BY <1>1, TakeLine DEF AfterRead
  <1>4. /\ at' = [at EXCEPT ![src] = now]
        /\ unread' = [unread EXCEPT ![src] = Tail(unread[src])]
        /\ UNCHANGED <<hold, streamed, logged, told, damaged, printed>>
    BY DEF ReadLine, ReaderGoes, counts, runVars
  <1>5. /\ at'[src] = now /\ Len(unread'[src]) = rest
        /\ \A o \in Sources \ {src} : at'[o] = at[o] /\ unread'[o] = unread[o]
    BY <1>4 DEF Types
  <1> HIDE DEF now, rest
  <1>6. /\ Sent(src)' = Sent(src) /\ InLog(src)' = InLog(src)
        /\ Waiting(src) = rest + 1
        /\ Waiting(src)' = rest + One(now \in BeforePipe)
    <2>1. Sent(src)' = Sent(src) /\ InLog(src)' = InLog(src)
      BY <1>1, <1>3, <1>4, <1>5 DEF Sent, InLog, One
    <2>2. Waiting(src) = rest + 1
      BY <1>1, <1>2 DEF Waiting, One, BeforePipe
    <2>3. Waiting(src)' = rest + One(now \in BeforePipe)
      BY <1>5 DEF Waiting
    <2> QED
      BY <2>1, <2>2, <2>3
  <1>7. LogStep(src)
    BY <1>4, <1>6 DEF LogStep
  <1>8. LineStep(src)
    <2>1. CASE now = "toolong"
      BY <1>2, <1>4, <1>5, <1>6, <2>1
      DEF LineStep, One, BeforePipe, Excused, GaveUp, Ended
    <2>2. CASE now # "toolong"
      BY <1>2, <1>3, <1>4, <1>6, <2>2 DEF LineStep, One, BeforePipe
    <2> QED
      BY <2>1, <2>2
  <1>9. ASSUME src = "hook" PROVE TellStep
    <2>0. /\ Len(unread["hook"]) = rest + 1 /\ at["hook"] = "reading"
          /\ Len(unread'["hook"]) = rest /\ at'["hook"] = now
      BY <1>1, <1>2, <1>5, <1>9
    <2>1. Untold = rest + 1 /\ Untold' = rest + One(now \in BeforeTell)
      <3>1. Untold = rest + 1
        BY <1>2, <2>0 DEF Untold, One, BeforeTell
      <3>2. Untold' = rest + One(now \in BeforeTell)
        BY <2>0 DEF Untold
      <3> QED
        BY <3>1, <3>2
    <2>2. CASE now = "toolong"
      <3>1. Excused("hook")'
        BY <1>5, <1>9, <2>2 DEF Excused, GaveUp, Ended
      <3>2. One(now \in BeforeTell) = 0
        BY <2>2 DEF One, BeforeTell
      <3>3. rest + 0 <= rest + 1
        BY <1>2
      <3>4. Untold' <= Untold
        BY <2>1, <3>2, <3>3
      <3> QED
        BY <1>4, <3>1, <3>4 DEF TellStep
    <2>3. CASE now = "pipe"
      BY <1>2, <1>4, <2>1, <2>3 DEF TellStep, One, BeforeTell
    <2> QED
      BY <1>3, <1>9, <2>2, <2>3
  <1> QED
    BY <1>4, <1>5, <1>7, <1>8, <1>9, OthersStay

LEMMA WritePipeMovesLines ==
    ASSUME Types, Control, NEW src \in Sources, WritePipe(src), UNCHANGED runVars
    PROVE  LinesMove
  <1>1. /\ at[src] = "pipe" /\ at'[src] = "log" /\ hold' = src /\ hold = "none"
        /\ \A o \in Sources \ {src} : at'[o] = at[o]
        /\ UNCHANGED <<unread, streamed, logged, told, damaged, printed>>
    BY DEF WritePipe, ReaderGoes, Types, Control, counts, runVars
  <1>2. /\ Len(unread[src]) \in Nat /\ streamed[src] \in Nat /\ logged[src] \in Nat
    BY CountableHolds DEF Countable
  <1>3. hold # src
    BY <1>1 DEF Sources, Copiers
  <1>4. /\ Sent(src)' = Sent(src) + 1 /\ InLog(src)' = InLog(src) + 1
        /\ Waiting(src) = Waiting(src)' + 1
    BY <1>1, <1>2, <1>3 DEF Sent, InLog, Waiting, One, BeforePipe
  <1>5. TellStep \/ src # "hook"
    BY <1>1 DEF TellStep, Untold, One, BeforeTell
  <1> QED
    BY <1>1, <1>3, <1>4, <1>5, OthersStay DEF LineStep, LogStep, Sources, Copiers

(* a line the pipe does not take *)
LEMMA RefusalMovesLines ==
    ASSUME Types, Control, Running, NEW src \in Sources,
           WriteOverlong(src) \/ PipeRefuses(src), UNCHANGED runVars
    PROVE  LinesMove
  <1>1. /\ at[src] \in BeforePipe
        /\ at'[src] = IF src = "hook" THEN "tell" ELSE "closed"
        /\ src = "hook" => at[src] = "pipe"
        /\ \A o \in Sources \ {src} : at'[o] = at[o]
        /\ UNCHANGED <<unread, hold, streamed, logged, told, damaged, printed>>
    BY DEF WriteOverlong, PipeRefuses, ReaderGoes, Types, Control, counts, runVars,
           BeforePipe
  <1>2. scan' \in {"broken", "failed"}
    BY DEF WriteOverlong, PipeRefuses, PipeClosed, Control, BeforePipe, Commands,
           Hooks, Terraform
  <1>3. Len(unread[src]) \in Nat
    BY CountableHolds DEF Countable
  <1>4. /\ Sent(src)' = Sent(src) /\ InLog(src)' = InLog(src)
        /\ Waiting(src)' <= Waiting(src)
    BY <1>1, <1>3 DEF Sent, InLog, Waiting, One, BeforePipe
  <1>5. src = "hook" => TellStep
    BY <1>1 DEF TellStep, Untold, One, BeforeTell
  <1>6. Excused(src)'
    BY <1>2 DEF Excused, Disturbed
  <1> QED
    BY <1>1, <1>4, <1>5, <1>6, OthersStay DEF LineStep, LogStep

LEMMA WriteLogMovesLines ==
    ASSUME Types, Control, NEW src \in Sources, WriteLog(src), UNCHANGED runVars
    PROVE  LinesMove
  <1>1. /\ at[src] = "log"
        /\ at'[src] = IF src = "hook" THEN "tell" ELSE "reading"
        /\ \A o \in Sources \ {src} : at'[o] = at[o] /\ logged'[o] = logged[o]
        /\ UNCHANGED <<unread, hold, streamed, told, printed>>
        /\ \/ logged'[src] = logged[src] + 1 /\ UNCHANGED damaged
           \/ damaged' # "no"
    BY DEF WriteLog, ReaderGoes, Types, runVars
  <1>2. logged[src] \in Nat
    BY CountableHolds DEF Countable
  <1>3. Sent(src)' = Sent(src) /\ Waiting(src)' = Waiting(src)
    BY <1>1 DEF Sent, Waiting, One, BeforePipe
  <1>4. damaged' = "no" => InLog(src)' = InLog(src)
    BY <1>1, <1>2 DEF InLog, One
  <1>5. src = "hook" => TellStep
    BY <1>1 DEF TellStep, Untold, One, BeforeTell
  <1> QED
    BY <1>1, <1>3, <1>4, <1>5, OthersStay DEF LineStep, LogStep

LEMMA TellMovesLines ==
    ASSUME Types, Control, TellLine, UNCHANGED runVars
    PROVE  LinesMove
  <1>1. /\ "hook" \in Sources
        /\ at["hook"] = "tell" /\ at'["hook"] = "check" /\ told' = told + 1
        /\ \A o \in Sources \ {"hook"} : at'[o] = at[o]
        /\ UNCHANGED <<unread, hold, streamed, logged, damaged, printed>>
    BY DEF TellLine, ReaderGoes, Types, Sources, runVars
  <1>2. /\ Sent("hook")' = Sent("hook") /\ Waiting("hook")' = Waiting("hook")
        /\ InLog("hook")' = InLog("hook")
    BY <1>1 DEF Sent, Waiting, InLog, One, BeforePipe
  <1>3. Len(unread["hook"]) \in Nat
    BY <1>1, CountableHolds DEF Countable
  <1>4. Untold = Untold' + 1
    BY <1>1, <1>3 DEF Untold, One, BeforeTell
  <1> QED
    BY <1>1, <1>2, <1>4, OthersStay DEF LineStep, LogStep, TellStep

LEMMA PublishMovesLines ==
    ASSUME Types, Control, PublishLine, UNCHANGED runVars
    PROVE  LinesMove
  <1>1. /\ hold \in Sources /\ hold' = "none"
        /\ streamed' = [streamed EXCEPT ![hold] = streamed[hold] + 1]
        /\ UNCHANGED <<unread, at, logged, told, damaged, printed>>
    BY DEF PublishLine, Control, Types, runVars
  <1>2. streamed[hold] \in Nat /\ streamed'[hold] = streamed[hold] + 1
    BY <1>1 DEF Types
  <1>3. \A o \in Sources \ {hold} : streamed'[o] = streamed[o]
    BY <1>1 DEF Types
  <1>4. ASSUME NEW o \in Sources
        PROVE  Sent(o)' = Sent(o)
    <2>1. hold' # o
      BY <1>1, <1>4 DEF Sources, Copiers
    <2>2. CASE o = hold
      BY <1>2, <2>1, <2>2 DEF Sent, One
    <2>3. CASE o # hold
      BY <1>3, <1>4, <2>1, <2>3 DEF Sent, One
    <2> QED
      BY <2>2, <2>3
  <1>5. \A o \in Sources : Waiting(o)' = Waiting(o) /\ InLog(o)' = InLog(o)
    BY <1>1 DEF Waiting, InLog, One
  <1>6. Untold' = Untold
    BY <1>1 DEF Untold, One
  <1> QED
    BY <1>1, <1>4, <1>5, <1>6 DEF LinesMove, LineStep, LogStep, TellStep

LEMMA PrintMovesLines ==
    ASSUME Types, NEW kind \in Kinds, PrintLine(kind), NEW src \in Sources, src = wants
    PROVE  /\ LinesMove
           /\ Len(unread'[src]) = Len(unread[src]) + 1
           /\ printed' = [printed EXCEPT ![src] = printed[src] + 1]
           /\ \A o \in Sources \ {src} : unread'[o] = unread[o]
  <1>1. /\ unread' = [unread EXCEPT ![src] = Append(unread[src], kind)]
        /\ printed' = [printed EXCEPT ![src] = printed[src] + 1]
        /\ UNCHANGED <<at, hold, streamed, logged, told, damaged>>
    BY DEF PrintLine, counts
  <1>2. /\ \A o \in Sources \ {src} : unread'[o] = unread[o] /\ printed'[o] = printed[o]
        /\ unread'[src] = Append(unread[src], kind)
        /\ printed'[src] = printed[src] + 1
        /\ unread[src] \in Seq(Kinds)
    BY <1>1 DEF Types
  <1>3. Len(unread'[src]) = Len(unread[src]) + 1 /\ Len(unread[src]) \in Nat
    BY <1>2
  <1>4. Sent(src)' = Sent(src) /\ InLog(src)' = InLog(src)
    BY <1>1 DEF Sent, InLog, One
  <1>5. Waiting(src)' = Waiting(src) + 1
    <2> DEFINE b == One(at[src] \in BeforePipe)
    <2>1. b \in Nat
      BY DEF One
    <2>2. Waiting(src) = Len(unread[src]) + b /\ Waiting(src)' = Len(unread'[src]) + b
      BY <1>1 DEF Waiting
    <2> HIDE DEF b
    <2> QED
      BY <1>3, <2>1, <2>2
  <1>6. src = "hook" => Untold' = Untold + 1
    <2> DEFINE b == One(at["hook"] \in BeforeTell)
    <2>1. b \in Nat
      BY DEF One
    <2>2. Untold = Len(unread["hook"]) + b /\ Untold' = Len(unread'["hook"]) + b
      BY <1>1 DEF Untold
    <2> HIDE DEF b
    <2> QED
      BY <1>3, <2>1, <2>2
  <1>7. LineStep(src) /\ LogStep(src) /\ (src = "hook" => TellStep)
    BY <1>1, <1>2, <1>4, <1>5, <1>6 DEF LineStep, LogStep, TellStep
  <1> QED
    BY <1>1, <1>2, <1>3, <1>7, OthersStay

(* the readers of a command that has returned have ended, and left nothing    *)
(* behind that has no excuse                                                  *)
LEMMA ReturnMovesLines ==
    ASSUME Types, Control, GivenUp, TerraformReturns \/ HookReturns
    PROVE  LinesMove
  <1>1. /\ \A src \in Sources : at'[src] = "off" /\ unread'[src] = <<>>
        /\ UNCHANGED <<hold, streamed, logged, told, damaged, printed>>
    BY DEF TerraformReturns, HookReturns, Leave, ExecutorGoes, counts
  <1>2. \A src \in Sources : at[src] \in Ended \union {"off"}
    BY DEF TerraformReturns, HookReturns, Control, Readers, Sources, Terraform, Hooks
  <1>3. ASSUME NEW src \in Sources
        PROVE  /\ Sent(src)' = Sent(src) /\ InLog(src)' = InLog(src)
               /\ Waiting(src) = Len(unread[src]) /\ Waiting(src)' = 0
               /\ Len(unread[src]) \in Nat
               /\ Len(unread[src]) = 0 \/ Excused(src)'
    <2>1. Sent(src)' = Sent(src)
      BY <1>1 DEF Sent
    <2>2. at[src] \notin {"pipe", "overlong", "log"}
      BY <1>2, <1>3 DEF Ended
    <2>3. InLog(src)' = InLog(src)
      BY <1>1, <1>3, <2>2 DEF InLog, One
    <2>4. Len(unread[src]) \in Nat
      BY <1>3, CountableHolds DEF Countable
    <2>5. Waiting(src) = Len(unread[src])
      <3>1. One(at[src] \in BeforePipe) = 0
        BY <2>2 DEF One, BeforePipe
      <3> QED
        BY <2>4, <3>1 DEF Waiting
    <2>6. Waiting(src)' = 0
      <3>1. One(at'[src] \in BeforePipe) = 0 /\ Len(unread'[src]) = 0
        BY <1>1, <1>3 DEF One, BeforePipe
      <3> QED
        BY <3>1 DEF Waiting
    <2>7. CASE at[src] \in {"eof", "off"}
      <3>1. unread[src] = <<>>
        BY <1>3, <2>7 DEF Control
      <3> QED
        BY <2>1, <2>3, <2>4, <2>5, <2>6, <3>1
    <2>8. CASE GaveUp(src)
      BY <1>3, <2>1, <2>3, <2>4, <2>5, <2>6, <2>8, ReturnHasExcuse DEF Excused
    <2> QED
      BY <1>2, <1>3, <2>7, <2>8 DEF GaveUp
  <1>4. \A src \in Sources : LineStep(src) /\ LogStep(src)
    BY <1>1, <1>3 DEF LineStep, LogStep
  <1>5. TellStep
    <2>1. "hook" \in Sources
      BY DEF Sources
    <2>2. Untold = Len(unread["hook"])
      <3>1. One(at["hook"] \in BeforeTell) = 0
        BY <1>2, <2>1 DEF One, BeforeTell, Ended
      <3> QED
        BY <1>3, <2>1, <3>1 DEF Untold
    <2>3. Untold' = 0
      <3>1. One(at'["hook"] \in BeforeTell) = 0 /\ Len(unread'["hook"]) = 0
        BY <1>1, <2>1 DEF One, BeforeTell
      <3> QED
        BY <3>1 DEF Untold
    <2> QED
      BY <1>1, <1>3, <2>1, <2>2, <2>3 DEF TellStep
  <1> QED
    BY <1>4, <1>5 DEF LinesMove

LEMMA StepMovesLines ==
    ASSUME Types, Control, GivenUp, [RunNext]_vars
    PROVE  LinesMove
  <1> USE DEF pipeVars, runVars, counts
  <1>1. CASE UNCHANGED <<unread, at, hold, counts, printed>>
    BY <1>1, QuietMovesLines
  <1>2. ASSUME NEW src \in Sources, Running, ReaderStep(src)
        PROVE  LinesMove
    <2>1. CASE ReadClosed(src) \/ ReadEnd(src)
      <3>1. /\ UNCHANGED <<unread, hold, counts, printed>>
            /\ at[src] = "reading" /\ at'[src] \in {"closed", "eof"}
            /\ \A o \in Sources \ {src} : at'[o] = at[o]
        BY <1>2, <2>1 DEF ReaderStep, ReadClosed, ReadEnd, ReaderGoes, Types
      <3>2. \A o \in Sources :
                at'[o] = at[o] \/ (at[o] = "reading" /\ at'[o] \in {"closed", "eof"})
        BY <3>1
      <3> QED
        BY <3>1, <3>2, QuietMovesLines DEF BeforePipe, BeforeTell, Sources
    <2> QED
      BY <1>2, <2>1, ReadMovesLines, WritePipeMovesLines, RefusalMovesLines,
         WriteLogMovesLines DEF ReaderStep
  <1>3. CASE HookReaderStep
    <2>1. CASE CheckDone /\ UNCHANGED runVars
      BY <2>1, QuietMovesLines
      DEF CheckDone, ReaderGoes, Types, BeforePipe, BeforeTell, Sources
    <2> QED
      BY <1>3, <2>1, TellMovesLines DEF HookReaderStep
  <1>4. CASE ScannerStep
    BY <1>1, <1>4, PublishMovesLines DEF ScannerStep, ScanNext, ScanFails, ScanEnd
  <1>5. CASE CommandStep
    <2>1. ASSUME NEW kind \in Kinds, PrintLine(kind) PROVE LinesMove
      BY <2>1, PrintMovesLines DEF PrintLine, Types
    <2> QED
      BY <1>1, <1>5, <2>1 DEF CommandStep, Want, Exit, Kill, Ends
  <1>6. CASE StartCommand
    BY <1>6, QuietMovesLines
    DEF StartCommand, Control, BeforePipe, BeforeTell, Sources
  <1>7. CASE ExecutorStep
    BY <1>1, <1>6, <1>7, ReturnMovesLines
    DEF ExecutorStep, PrepareFails, StartFails, SkipHook, RetryInit, CancelPause,
        WaitHook, Record, RecordFails, ExecutorFails, ExecuteJobReturns, ExecutorGoes
  <1>8. CASE Shutdown \/ UNCHANGED vars
    BY <1>1, <1>8 DEF Shutdown, vars
  <1> QED
    BY <1>2, <1>3, <1>4, <1>5, <1>7, <1>8 DEF RunNext, RunOver

-----------------------------------------------------------------------------
(* The bounds: a command prints only when there is room for the line *)

LEMMA RoomStep ==
    ASSUME Types, Control, Room, [RunNext]_vars
    PROVE  Room'
  <1> USE DEF pipeVars, runVars, counts
  <1>0. /\ "out" \in Sources /\ "err" \in Sources /\ "hook" \in Sources
        /\ printed["out"] \in Nat /\ printed["err"] \in Nat /\ printed["hook"] \in Nat
        /\ PrintedLines \in Nat /\ MaxLines \in Nat
    BY PipeAssumption DEF Types, Sources, Copiers, PrintedLines
  <1>1. CASE UNCHANGED <<unread, wants, printed>>
    BY <1>1 DEF Room, PrintedLines
  <1>2. CASE UNCHANGED <<unread, printed>> /\ wants' = "none"
    BY <1>0, <1>2 DEF Room, PrintedLines, One
  <1>3. ASSUME NEW src \in Sources, Want(src) PROVE Room'
    <2>1. PrintedLines' = PrintedLines /\ PrintedLines < MaxLines
      BY <1>3 DEF Want, PrintedLines
    <2> QED
      BY <1>0, <1>3, <2>1 DEF Want, Room, One
  <1>4. ASSUME NEW kind \in Kinds, PrintLine(kind) PROVE Room'
    <2>1. PICK src \in Sources : src = wants
      BY <1>4 DEF PrintLine, Types
    <2>2. /\ Len(unread'[src]) = Len(unread[src]) + 1
          /\ printed' = [printed EXCEPT ![src] = printed[src] + 1]
          /\ \A o \in Sources \ {src} : unread'[o] = unread[o]
      BY <1>4, <2>1, PrintMovesLines
    <2>3. PrintedLines' = PrintedLines + 1
      <3>1. src \in {"out", "err", "hook"}
        BY DEF Sources, Copiers
      <3>2. CASE src = "out"
        BY <1>0, <2>2, <3>2 DEF PrintedLines, Types
      <3>3. CASE src = "err"
        BY <1>0, <2>2, <3>3 DEF PrintedLines, Types
      <3>4. CASE src = "hook"
        BY <1>0, <2>2, <3>4 DEF PrintedLines, Types
      <3> QED
        BY <3>1, <3>2, <3>3, <3>4
    <2>4. PrintedLines + 1 <= MaxLines
      BY <1>4 DEF Room, PrintLine, One
    <2>5. One(wants' # "none") = 0
      BY <1>4 DEF PrintLine, One
    <2>6. Len(unread[src]) < PipeSize /\ Len(unread[src]) \in Nat /\ PipeSize \in Nat
      BY <1>4, <2>1, CountableHolds, PipeAssumption DEF PrintLine, Countable
    <2>7. \A o \in Sources : Len(unread'[o]) <= PipeSize
      BY <2>2, <2>6 DEF Room
    <2>8. PrintedLines' + One(wants' # "none") <= MaxLines
      BY <1>0, <2>3, <2>4, <2>5
    <2> QED
      BY <2>7, <2>8 DEF Room
  <1>5. ASSUME NEW src \in Sources, ReadLine(src), UNCHANGED runVars PROVE Room'
    <2>1. /\ unread[src] \in Seq(Kinds) /\ unread[src] # <<>>
          /\ unread'[src] = Tail(unread[src])
          /\ \A o \in Sources \ {src} : unread'[o] = unread[o]
      BY <1>5 DEF ReadLine, Types
    <2>2. Len(unread'[src]) + 1 = Len(unread[src]) /\ Len(unread'[src]) \in Nat
      BY <2>1
    <2>3. Len(unread'[src]) <= PipeSize
      BY <2>2, PipeAssumption DEF Room
    <2> QED
      BY <1>5, <2>1, <2>3 DEF Room, PrintedLines
  <1>6. CASE TerraformReturns \/ HookReturns
    <2>1. /\ \A src \in Sources : Len(unread'[src]) = 0
          /\ UNCHANGED <<wants, printed>>
      BY <1>6 DEF TerraformReturns, HookReturns, Leave, ExecutorGoes
    <2> QED
      BY <2>1, PipeAssumption DEF Room, PrintedLines
  <1>7. CASE \E src \in Sources : ReaderStep(src)
    BY <1>1, <1>5, <1>7
    DEF ReaderStep, ReadClosed, WritePipe, WriteOverlong, PipeRefuses, WriteLog, ReadEnd
  <1>8. CASE HookReaderStep \/ ScannerStep
    BY <1>1, <1>8
    DEF HookReaderStep, TellLine, CheckDone, ScannerStep, PublishLine, ScanNext,
        ScanFails, ScanEnd
  <1>9. CASE CommandStep
    BY <1>2, <1>3, <1>4, <1>9 DEF CommandStep, Exit, Kill, Ends
  <1>10. CASE ExecutorStep
    BY <1>1, <1>6, <1>10
    DEF ExecutorStep, PrepareFails, StartCommand, StartFails, SkipHook, RetryInit,
        CancelPause, WaitHook, Record, RecordFails, ExecutorFails, ExecuteJobReturns,
        ExecutorGoes
  <1>11. CASE Shutdown \/ UNCHANGED vars
    BY <1>1, <1>11 DEF Shutdown, vars
  <1> QED
    BY <1>7, <1>8, <1>9, <1>10, <1>11 DEF RunNext, RunOver

-----------------------------------------------------------------------------
(* The theorems *)

LEMMA InitHasOutput ==
    ASSUME RunInit PROVE OutputInv
  <1> USE DEF RunInit, PipeInit, Sources, Copiers, One
  <1>1. GivenUp
    BY DEF GivenUp, GaveUp, Ended
  <1>2. Room
    BY PipeAssumption DEF Room, PrintedLines
  <1>3. Streaming
    <2>1. ASSUME NEW src \in Sources
          PROVE  Sent(src) = 0 /\ Waiting(src) = 0 /\ printed[src] = 0
      <3>1. hold # src /\ Len(unread[src]) = 0 /\ at[src] \notin BeforePipe
        BY <2>1 DEF BeforePipe
      <3> QED
        BY <2>1, <3>1 DEF Sent, Waiting
    <2> QED
      BY <2>1 DEF Streaming
  <1>4. Telling
    BY DEF Telling, Untold, BeforeTell
  <1>5. Undamaged
    BY DEF Undamaged, InLog, Sent
  <1> QED
    BY <1>1, <1>2, <1>3, <1>4, <1>5 DEF OutputInv

(* In every run each line a command has printed is in its pipe, with its      *)
(* reader or with the log scanner, once, or the run is going to fail.         *)
THEOREM OutputInvHolds == RunSpec => [](RunInv /\ OutputInv)
  <1>1. RunInit => RunInv /\ OutputInv
    BY InitInv, InitHasOutput
  <1>2. RunInv /\ OutputInv /\ [RunNext]_vars => RunInv' /\ OutputInv'
    <2> SUFFICES ASSUME RunInv, OutputInv, [RunNext]_vars
                 PROVE  RunInv' /\ OutputInv'
      OBVIOUS
    <2>1. RunInv'
      BY TypesStep, ControlStep, CleanStep, LoggingStep DEF RunInv
    <2>2. GivenUp' /\ Room'
      BY GivenUpStep, RoomStep DEF RunInv, OutputInv
    <2>3. LinesMove /\ ExcusesStay
      BY StepMovesLines, ExcuseStays DEF RunInv, OutputInv
    <2>4. Streaming' /\ Telling' /\ Undamaged'
      BY <2>1, <2>3, MoveKeepsStreaming, MoveKeepsTelling, MoveKeepsUndamaged
      DEF RunInv, OutputInv
    <2> QED
      BY <2>1, <2>2, <2>4 DEF OutputInv
  <1> QED
    BY <1>1, <1>2, PTL DEF RunSpec

LEMMA OutputIsBounded ==
    ASSUME RunInv, OutputInv, NEW src \in Sources
    PROVE  /\ printed[src] \in 0 .. MaxLines /\ streamed[src] \in 0 .. MaxLines
           /\ logged[src] \in 0 .. MaxLines /\ told \in 0 .. MaxLines
  <1>1. Countable /\ MaxLines \in Nat
    BY CountableHolds, PipeAssumption DEF RunInv
  <1>2. \A o \in Sources : printed[o] <= MaxLines
    <2> DEFINE a == printed["out"]  b == printed["err"]  c == printed["hook"]
               n == One(wants # "none")
    <2>1. a \in Nat /\ b \in Nat /\ c \in Nat /\ n \in Nat
      BY <1>1 DEF Countable, Sources, Copiers, One
    <2>2. a + b + c + n <= MaxLines
      BY DEF OutputInv, Room, PrintedLines
    <2>3. a <= MaxLines /\ b <= MaxLines /\ c <= MaxLines
      <3> HIDE DEF a, b, c, n
      <3> QED
        BY <1>1, <2>1, <2>2
    <2> QED
      BY <2>3 DEF Sources, Copiers
  <1>3. streamed[src] <= Sent(src) /\ logged[src] <= InLog(src)
    <2> DEFINE h == One(hold = src)  l == One(at[src] = "log")
    <2>1. h \in Nat /\ l \in Nat
      BY DEF One
    <2>2. Sent(src) = streamed[src] + h /\ InLog(src) = logged[src] + l
      BY DEF Sent, InLog
    <2> HIDE DEF h, l
    <2> QED
      BY <1>1, <2>1, <2>2 DEF Countable
  <1>4. InLog(src) <= Sent(src)
    BY DEF RunInv, Logging, InLog, Sent
  <1>5. Sent(src) <= printed[src]
    BY <1>1 DEF Countable, OutputInv, Streaming
  <1>6. told <= printed["hook"] /\ "hook" \in Sources
    BY <1>1 DEF Countable, OutputInv, Telling, Sources
  <1> QED
    BY <1>1, <1>2, <1>3, <1>4, <1>5, <1>6 DEF Countable

(* Every variable of a run keeps its type, and no count its bound passes: the *)
(* lines printed stay within MaxLines, a pipe within PipeSize, and neither    *)
(* the stream nor the log nor the hook's own publishing repeats a line.       *)
THEOREM RunTypeOKHolds == RunSpec => []RunTypeOK
  <1>1. RunInv /\ OutputInv => RunTypeOK
    <2> SUFFICES ASSUME RunInv, OutputInv PROVE RunTypeOK
      OBVIOUS
    <2>1. /\ printed \in [Sources -> 0 .. MaxLines]
          /\ streamed \in [Sources -> 0 .. MaxLines]
          /\ logged \in [Sources -> 0 .. MaxLines]
      BY OutputIsBounded DEF RunInv, Types
    <2>2. told \in 0 .. MaxLines
      BY OutputIsBounded DEF Sources
    <2>3. \A src \in Sources : unread[src] \in Seq(Kinds) /\ Len(unread[src]) <= PipeSize
      BY DEF RunInv, Types, OutputInv, Room
    <2> QED
      BY <2>1, <2>2, <2>3 DEF RunInv, Types, RunTypeOK, PipeTypeOK
  <1> QED
    BY OutputInvHolds, <1>1, PTL

(* A run that succeeded has published every line its commands printed, told a *)
(* hook's lines a second time, and logged them all but for a damaged log.     *)
THEOREM CompleteOnSuccessHolds == RunSpec => []CompleteOnSuccess
  <1>1. RunInv /\ OutputInv => CompleteOnSuccess
    <2> SUFFICES ASSUME RunInv, OutputInv, result = "ok"
                 PROVE  /\ streamed = printed
                        /\ told = printed["hook"]
                        /\ damaged = "no" => logged = printed
      BY DEF CompleteOnSuccess
    <2>1. pc = "returned" /\ scan = "eof" /\ hold = "none"
      BY DEF RunInv, Control
    <2>2. \A src \in Sources : at[src] = "off" /\ unread[src] = <<>>
      BY <2>1 DEF RunInv, Control, Commands, Hooks, Terraform
    <2>3. \A src \in Sources : ~Excused(src)
      BY <2>1, <2>2 DEF Excused, Disturbed, GaveUp, Ended
    <2>4. Countable /\ hold \notin Sources /\ "hook" \in Sources
      BY <2>1, CountableHolds DEF RunInv, Sources, Copiers
    <2>5. ASSUME NEW src \in Sources
          PROVE  /\ streamed[src] = printed[src]
                 /\ damaged = "no" => logged[src] = printed[src]
      <3>1. /\ Len(unread[src]) = 0 /\ One(at[src] \in BeforePipe) = 0
            /\ One(at[src] = "log") = 0 /\ One(hold = src) = 0
        BY <2>2, <2>4, <2>5 DEF One, BeforePipe
      <3>2. Waiting(src) = 0 /\ Sent(src) = streamed[src] /\ InLog(src) = logged[src]
        <4> HIDE DEF One
        <4> QED
          BY <2>4, <2>5, <3>1 DEF Waiting, Sent, InLog, Countable
      <3>3. Sent(src) + Waiting(src) = printed[src]
        BY <2>3, <2>5 DEF OutputInv, Streaming
      <3>4. damaged = "no" => InLog(src) = Sent(src)
        BY <2>5 DEF OutputInv, Undamaged
      <3> QED
        BY <2>4, <2>5, <3>2, <3>3, <3>4 DEF Countable
    <2>6. told = printed["hook"]
      <3>1. Len(unread["hook"]) = 0 /\ One(at["hook"] \in BeforeTell) = 0
        BY <2>2, <2>4 DEF One, BeforeTell
      <3>2. Untold = 0
        BY <3>1 DEF Untold
      <3> QED
        BY <2>3, <2>4, <3>2 DEF OutputInv, Telling, Countable
    <2> QED
      BY <2>5, <2>6 DEF RunInv, Types
  <1> QED
    BY OutputInvHolds, <1>1, PTL

-----------------------------------------------------------------------------
(* Nobody is stuck.  Besides the invariant it takes that whoever ends before   *)
(* the command does lets the others know: the context is done, or will be by   *)
(* the log scanner's next step, or the hook has exited.                        *)

Released ==
    /\ scan = "failed" => done
    /\ \A c \in Copiers : at[c] = "closed" => done \/ scan = "broken"
    /\ at["hook"] = "cancelled" => done
    /\ at["hook"] = "closed" => hookPipe = "closed"
    /\ hookPipe = "closed" /\ at["hook"] # "off" => proc \in Exited

LEMMA ReleasedStep ==
    ASSUME Types, Control, Released, [RunNext]_vars
    PROVE  Released'
  <1> USE DEF Released, Copiers, Sources, pipeVars, runVars, counts
  <1>1. ASSUME NEW src \in Sources, Running, ReaderStep(src)
        PROVE  Released'
    <2>1. CASE ReadLine(src)
      <3>1. Head(unread[src]) \in {"short", "long"}
        BY <2>1, TakeLine DEF ReadLine, Types
      <3>2. AfterRead(src, Head(unread[src])) \in {"pipe", "overlong", "toolong"}
        BY <3>1 DEF AfterRead
      <3> QED
        BY <1>1, <2>1, <3>2 DEF ReaderStep, ReadLine, ReadClosed, ReadEnd, WritePipe,
             WriteOverlong, PipeRefuses, WriteLog, ReaderGoes, Types
    <2>2. CASE ReadClosed(src) /\ UNCHANGED runVars
      BY <2>2 DEF ReadClosed, ReaderGoes, Types
    <2>3. CASE WritePipe(src) /\ UNCHANGED runVars
      BY <2>3 DEF WritePipe, ReaderGoes, Types
    <2>4. CASE WriteLog(src) /\ UNCHANGED runVars
      BY <2>4 DEF WriteLog, ReaderGoes, Types
    <2>5. CASE WriteOverlong(src) /\ UNCHANGED runVars
      BY <2>5 DEF WriteOverlong, ReaderGoes, Types, Control
    <2>6. CASE PipeRefuses(src) /\ UNCHANGED runVars
      <3>1. scan \in {"broken", "failed"}
        BY <2>6 DEF PipeRefuses, PipeClosed, Control, Commands, Hooks, Terraform
      <3> QED
        BY <2>6, <3>1 DEF PipeRefuses, ReaderGoes, Types
    <2>7. CASE ReadEnd(src)
      BY <2>7 DEF ReadEnd, ReaderGoes, Types
    <2> QED
      BY <1>1, <2>1, <2>2, <2>3, <2>4, <2>5, <2>6, <2>7 DEF ReaderStep, ReadLine
  <1>2. CASE HookReaderStep
    BY <1>2 DEF HookReaderStep, TellLine, CheckDone, ReaderGoes, Types
  <1>3. CASE ScannerStep
    BY <1>3 DEF ScannerStep, PublishLine, ScanNext, ScanFails, ScanEnd
  <1>4. CASE CommandStep
    BY <1>4 DEF CommandStep, Want, PrintLine, Exit, Kill, Ends, Exited
  <1>5. CASE TerraformReturns \/ HookReturns
    BY <1>5 DEF TerraformReturns, HookReturns, Leave
  <1>6. CASE StartCommand
    BY <1>6 DEF StartCommand
  <1>7. CASE WaitHook
    BY <1>7 DEF WaitHook
  <1>8. CASE UNCHANGED <<at, hookPipe, scan, proc>> /\ (done => done')
    BY <1>8
  <1>9. CASE ExecutorStep
    BY <1>5, <1>6, <1>7, <1>8, <1>9
    DEF ExecutorStep, PrepareFails, StartFails, SkipHook, RetryInit, CancelPause,
        Record, RecordFails, ExecutorFails, ExecuteJobReturns, ExecutorGoes
  <1>10. CASE Shutdown \/ UNCHANGED vars
    BY <1>8, <1>10 DEF Shutdown, vars
  <1> QED
    BY <1>1, <1>2, <1>3, <1>4, <1>9, <1>10 DEF RunNext, RunOver

(* A reader that is on has ended, or it or the log scanner can go on, or it    *)
(* waits for the command to write.                                             *)
LEMMA ReaderOrScanner ==
    ASSUME Types, NEW src \in Sources, at[src] \notin Ended \union {"off"},
           ~ScannerCanGo, ~ReaderCanGo(src)
    PROVE  at[src] = "reading" /\ unread[src] = <<>> /\ proc \notin Exited
  <1>1. scan \in {"reading", "failed", "eof"}
    BY DEF Types, ScannerStates, ScannerCanGo
  <1> QED
    BY <1>1 DEF Types, ReaderStates, ReaderCanGo, PipeClosed

LEMMA SomebodyGoes ==
    ASSUME RunInv, OutputInv, Released, Running, ~HookStuck,
           \A src \in Sources : ~ReaderCanGo(src), ~ScannerCanGo, ~CommandCanGo
    PROVE  ExecutorCanGo
  <1> USE DEF RunInv
  <1>1. scan \in {"reading", "failed", "eof"} /\ (scan = "failed" => done)
    BY DEF Types, ScannerStates, ScannerCanGo, Released
  <1>2. CASE proc = "none"
    BY <1>1, <1>2 DEF Types, ScannerCanGo, ExecutorCanGo
  <1>3. CASE proc = "running"
    <2>1. /\ wants # "none" /\ ~done
          /\ \A src \in Sources : src = wants => ~(Len(unread[src]) < PipeSize)
      BY <1>3 DEF CommandCanGo
    <2>2. PICK src \in Sources : src = wants
      BY <2>1 DEF Types
    <2>3. at[src] # "off" /\ at[src] # "eof"
      BY <1>3, <2>1, <2>2 DEF Control, Exited
    <2>4. Len(unread[src]) \in Nat /\ PipeSize \in Nat \ {0} /\ unread[src] \in Seq(Kinds)
      BY PipeAssumption DEF Types
    <2>5. unread[src] # <<>>
      BY <2>1, <2>2, <2>4
    <2>6. at[src] \in Ended
      BY <2>3, <2>5, ReaderOrScanner
    <2>7. at[src] \in {"closed", "toolong", "cancelled"}
      BY <2>3, <2>6 DEF Ended
    <2>8. CASE src \in Copiers
      BY <1>1, <2>1, <2>7, <2>8 DEF Control, Released
    <2>9. CASE src = "hook"
      <3>1. at["hook"] = "toolong"
        BY <1>3, <2>1, <2>7, <2>9 DEF Released, Exited
      <3>2. Len(unread["hook"]) = PipeSize
        <4>1. /\ Len(unread["hook"]) \in Nat /\ PipeSize \in Nat
              /\ ~(Len(unread["hook"]) < PipeSize)
          BY <2>1, <2>2, <2>4, <2>9
        <4>2. Len(unread["hook"]) <= PipeSize
          BY DEF OutputInv, Room, Sources
        <4> QED
          BY <4>1, <4>2
      <3> QED
        BY <2>1, <2>2, <2>9, <3>1, <3>2 DEF HookStuck
    <2> QED
      BY <2>8, <2>9 DEF Sources
  <1>4. CASE proc \in Exited
    <2>1. pc \in Commands
      BY <1>4 DEF Control, Exited
    <2>2. \A src \in Readers(pc) : src \in Sources /\ at[src] \in Ended
      <3>1. \A src \in Readers(pc) : src \in Sources /\ at[src] # "off"
        BY <1>4 DEF Control, Exited, Readers, Sources, Copiers
      <3> QED
        BY <1>4, <3>1, ReaderOrScanner
    <2> QED
      BY <1>4, <2>1, <2>2 DEF ExecutorCanGo, Readers, Commands
  <1> QED
    BY <1>2, <1>3, <1>4 DEF Types

(* As long as a run has not returned, the command, a reader, the log scanner   *)
(* or the executor can go on without a shutdown, but for the stuck hook.       *)
THEOREM NobodyIsStuckHolds == RunSpec => []NobodyIsStuck
  <1>1. RunInit => Released
    BY DEF RunInit, PipeInit, Released, Sources, Copiers
  <1>2. RunInv /\ Released /\ [RunNext]_vars => Released'
    BY ReleasedStep DEF RunInv
  <1>3. RunInv /\ OutputInv /\ Released => NobodyIsStuck
    BY SomebodyGoes DEF NobodyIsStuck
  <1> QED
    BY OutputInvHolds, <1>1, <1>2, <1>3, PTL DEF RunSpec

=============================================================================

---------------------------- MODULE JobRunProofs ----------------------------
(* The inside of a run, for any number of lines, any pipe size and any number *)
(* of attempts: no command or reader is left when executeJob returns, a       *)
(* result is recorded only of clean runs, and the stream is ahead of the log. *)
EXTENDS JobRun, TLAPS

-----------------------------------------------------------------------------
(* The inductive invariant, in the order its parts are proved *)

(* the types, without the bounds of the counters *)
Types ==
    /\ unread \in [Sources -> Seq(Kinds)]
    /\ at \in [Sources -> ReaderStates]
    /\ hookPipe \in {"open", "closed"}
    /\ scan \in ScannerStates
    /\ hold \in Sources \union {"none"}
    /\ done \in BOOLEAN
    /\ streamed \in [Sources -> Nat]
    /\ logged \in [Sources -> Nat]
    /\ told \in Nat
    /\ damaged \in {"no", "lost", "crash"}
    /\ pc \in Commands \union {"pause", "record", "failing", "returned", "failed"}
    /\ attempt \in 1 .. Attempts
    /\ proc \in {"none", "running"} \union Exited
    /\ wants \in Sources \union {"none"}
    /\ printed \in [Sources -> Nat]
    /\ broke \in BOOLEAN
    /\ recorded \in BOOLEAN
    /\ result \in {"none", "ok", "error"}

(* where the executor, the command and the readers can be at one time: a       *)
(* reader is there only for a command that was started and has not returned    *)
Control ==
    /\ pc \notin Commands => proc = "none"
    /\ proc = "none" => \A src \in Sources : at[src] = "off"
    /\ \A src \in Sources : at[src] = "off" => unread[src] = <<>>
    /\ wants # "none" => proc = "running" /\ at[wants] # "off"
    /\ \A src \in Sources : at[src] = "eof" => unread[src] = <<>> /\ proc \in Exited
    /\ hold # "none" <=> scan = "publish"
    /\ scan = "eof" => pc \in {"failing", "returned", "failed"}
    /\ result # "none" => pc \in {"returned", "failed"}
    /\ result = "ok" => pc = "returned" /\ scan = "eof"
    /\ proc # "none" => \A src \in Readers(pc) : at[src] # "off"
    /\ \A src \in Sources : at[src] # "off" => src \in Readers(pc)
    /\ \A c \in Copiers : at[c] \notin {"tell", "check", "toolong", "cancelled"}
    /\ at["hook"] # "overlong"

(* no hook and no Terraform command has failed but the executor knows it *)
Clean ==
    /\ recorded => pc \in {"returned", "failing", "failed"}
    /\ broke => /\ ~recorded
                /\ \/ pc \in {"failing", "failed"}
                   \/ pc \in Commands \ {"init"} /\ proc = "bad"

(* a line is in the log, or goes there, only after the scanner got it *)
One(b) == IF b THEN 1 ELSE 0

Logging ==
    \A src \in Sources :
        logged[src] + One(at[src] = "log") <= streamed[src] + One(hold = src)

RunInv == Types /\ Control /\ Clean /\ Logging

-----------------------------------------------------------------------------

(* What a pipe holds are lines of the two kinds. *)
LEMMA TakeLine ==
    ASSUME NEW q \in Seq(Kinds), q # <<>>
    PROVE  Head(q) \in {"short", "long"}
  <1>1. Head(q) \in Kinds
    OBVIOUS
  <1>2. Kinds \subseteq {"short", "long"}
    BY PipeAssumption
  <1> QED
    BY <1>1, <1>2

(* Every step of a run keeps the types. *)
LEMMA TypesStep ==
    ASSUME Types, Control, [RunNext]_vars
    PROVE  Types'
  <1> USE DEF Types, Copiers, Sources, Ended, ReaderStates, ScannerStates, Hooks,
              Terraform, Commands, Exited, pipeVars, runVars, counts
  <1>1. ASSUME NEW src \in Sources, ReadLine(src) /\ UNCHANGED runVars
         PROVE  Types'
    BY <1>1 DEF ReadLine, ReaderGoes, AfterRead
  <1>2. ASSUME NEW src \in Sources, ReadClosed(src) /\ UNCHANGED runVars
         PROVE  Types'
    BY <1>2 DEF ReadClosed, ReaderGoes
  <1>3. ASSUME NEW src \in Sources, WritePipe(src) /\ UNCHANGED runVars
         PROVE  Types'
    BY <1>3 DEF WritePipe, ReaderGoes
  <1>4. ASSUME NEW src \in Sources, WriteOverlong(src) /\ UNCHANGED runVars
         PROVE  Types'
    BY <1>4 DEF WriteOverlong, ReaderGoes
  <1>5. ASSUME NEW src \in Sources, PipeRefuses(src) /\ UNCHANGED runVars
         PROVE  Types'
    BY <1>5 DEF PipeRefuses, PipeClosed, ReaderGoes
  <1>6. ASSUME NEW src \in Sources, WriteLog(src) /\ UNCHANGED runVars
         PROVE  Types'
    BY <1>6 DEF WriteLog, ReaderGoes
  <1>7. ASSUME NEW src \in Sources, ReadEnd(src)
         PROVE  Types'
    BY <1>7 DEF ReadEnd, ReaderGoes
  <1>8. ASSUME TellLine /\ UNCHANGED runVars
         PROVE  Types'
    BY <1>8 DEF TellLine, ReaderGoes
  <1>9. ASSUME CheckDone /\ UNCHANGED runVars
         PROVE  Types'
    BY <1>9 DEF CheckDone, ReaderGoes
  <1>10. ASSUME PublishLine /\ UNCHANGED runVars
         PROVE  Types'
    BY <1>10 DEF PublishLine, Control
  <1>11. ASSUME ScanNext /\ UNCHANGED runVars
         PROVE  Types'
    BY <1>11 DEF ScanNext
  <1>12. ASSUME ScanFails /\ UNCHANGED runVars
         PROVE  Types'
    BY <1>12 DEF ScanFails
  <1>13. ASSUME ScanEnd
         PROVE  Types'
    BY <1>13 DEF ScanEnd
  <1>14. ASSUME NEW src \in Sources, Want(src)
         PROVE  Types'
    BY <1>14 DEF Want
  <1>15. ASSUME NEW kind \in Kinds, PrintLine(kind)
         PROVE  Types'
    BY <1>15 DEF PrintLine
  <1>16. ASSUME Exit
         PROVE  Types'
    BY <1>16 DEF Exit, Ends
  <1>17. ASSUME Kill
         PROVE  Types'
    BY <1>17 DEF Kill, Ends
  <1>18. ASSUME PrepareFails
         PROVE  Types'
    BY <1>18 DEF PrepareFails, ExecutorGoes
  <1>19. ASSUME StartCommand
         PROVE  Types'
    BY <1>19 DEF StartCommand
  <1>20. ASSUME StartFails
         PROVE  Types'
    BY <1>20 DEF StartFails, ExecutorGoes, AfterFailure
  <1>21. ASSUME SkipHook
         PROVE  Types'
    BY <1>21 DEF SkipHook, ExecutorGoes, AfterHook
  <1>22. ASSUME TerraformReturns
         PROVE  Types'
    BY <1>22 DEF TerraformReturns, Leave, ExecutorGoes, AfterTerraform, AfterFailure
  <1>23. ASSUME RetryInit
         PROVE  Types'
    BY <1>23, AttemptsAssumption DEF RetryInit
  <1>24. ASSUME CancelPause
         PROVE  Types'
    BY <1>24 DEF CancelPause, ExecutorGoes
  <1>25. ASSUME WaitHook
         PROVE  Types'
    BY <1>25 DEF WaitHook
  <1>26. ASSUME HookReturns
         PROVE  Types'
    BY <1>26 DEF HookReturns, HookSucceeded, Leave, ExecutorGoes, AfterHook
  <1>27. ASSUME Record
         PROVE  Types'
    BY <1>27 DEF Record
  <1>28. ASSUME RecordFails
         PROVE  Types'
    BY <1>28 DEF RecordFails, ExecutorGoes
  <1>29. ASSUME ExecutorFails
         PROVE  Types'
    BY <1>29 DEF ExecutorFails, ExecutorGoes
  <1>30. ASSUME ExecuteJobReturns
         PROVE  Types'
    BY <1>30 DEF ExecuteJobReturns
  <1>31. ASSUME Shutdown
         PROVE  Types'
    BY <1>31 DEF Shutdown
  <1>32. ASSUME UNCHANGED vars PROVE Types'
    BY <1>32 DEF vars
  <1> QED
    BY <1>1, <1>2, <1>3, <1>4, <1>5, <1>6, <1>7, <1>8, <1>9, <1>10, <1>11, <1>12,
       <1>13, <1>14, <1>15, <1>16, <1>17, <1>18, <1>19, <1>20, <1>21, <1>22, <1>23, <1>24,
       <1>25, <1>26, <1>27, <1>28, <1>29, <1>30, <1>31, <1>32
    DEF RunNext, RunOver, ReaderStep, HookReaderStep, ScannerStep, CommandStep,
       ExecutorStep

(* Every step keeps executor, command and readers in step with each other. *)
LEMMA ControlStep ==
    ASSUME Types, Types', Control, [RunNext]_vars
    PROVE  Control'
  <1> USE DEF Types, Control, Readers, Copiers, Sources, Ended, ReaderStates,
              ScannerStates, Hooks, Terraform, Commands, Exited, pipeVars,
              runVars, counts
  <1>1. ASSUME NEW src \in Sources, ReadLine(src) /\ UNCHANGED runVars
         PROVE  Control'
    <2>1. /\ unread[src] # <<>>
          /\ at[src] = "reading"
          /\ at' = [at EXCEPT ![src] = AfterRead(src, Head(unread[src]))]
          /\ unread' = [unread EXCEPT ![src] = Tail(unread[src])]
      BY <1>1 DEF ReadLine, ReaderGoes
    <2>2. Head(unread[src]) \in {"short", "long"}
      BY <2>1, TakeLine
    <2>3. AfterRead(src, Head(unread[src])) \in {"pipe", "toolong", "overlong"}
      BY <2>2 DEF AfterRead
    <2>4. /\ src = "hook" => AfterRead(src, Head(unread[src])) # "overlong"
          /\ src \in Copiers => AfterRead(src, Head(unread[src])) # "toolong"
      BY <2>2 DEF AfterRead
    <2>5. UNCHANGED <<hookPipe, scan, hold, done, counts, runVars>>
      BY <1>1 DEF ReadLine
    <2> QED
      BY <2>1, <2>3, <2>4, <2>5
  <1>2. ASSUME NEW src \in Sources, ReadClosed(src) /\ UNCHANGED runVars
         PROVE  Control'
    BY <1>2, PipeAssumption DEF ReadClosed, ReaderGoes
  <1>3. ASSUME NEW src \in Sources, Running, WritePipe(src) /\ UNCHANGED runVars
         PROVE  Control'
    BY <1>3, PipeAssumption DEF WritePipe, ReaderGoes
  <1>4. ASSUME NEW src \in Sources, Running, WriteOverlong(src) /\ UNCHANGED runVars
         PROVE  Control'
    BY <1>4, PipeAssumption DEF WriteOverlong, ReaderGoes
  <1>5. ASSUME NEW src \in Sources, PipeRefuses(src) /\ UNCHANGED runVars
         PROVE  Control'
    BY <1>5, PipeAssumption DEF PipeRefuses, PipeClosed, ReaderGoes
  <1>6. ASSUME NEW src \in Sources, WriteLog(src) /\ UNCHANGED runVars
         PROVE  Control'
    BY <1>6, PipeAssumption DEF WriteLog, ReaderGoes
  <1>7. ASSUME NEW src \in Sources, ReadEnd(src)
         PROVE  Control'
    BY <1>7, PipeAssumption DEF ReadEnd, ReaderGoes
  <1>8. ASSUME TellLine /\ UNCHANGED runVars
         PROVE  Control'
    BY <1>8, PipeAssumption DEF TellLine, ReaderGoes
  <1>9. ASSUME CheckDone /\ UNCHANGED runVars
         PROVE  Control'
    BY <1>9, PipeAssumption DEF CheckDone, ReaderGoes
  <1>10. ASSUME Running, PublishLine /\ UNCHANGED runVars
         PROVE  Control'
    BY <1>10, PipeAssumption DEF PublishLine
  <1>11. ASSUME Running, ScanNext /\ UNCHANGED runVars
         PROVE  Control'
    BY <1>11, PipeAssumption DEF ScanNext
  <1>12. ASSUME Running, ScanFails /\ UNCHANGED runVars
         PROVE  Control'
    BY <1>12, PipeAssumption DEF ScanFails
  <1>13. ASSUME ScanEnd
         PROVE  Control'
    BY <1>13, PipeAssumption DEF ScanEnd
  <1>14. ASSUME NEW src \in Sources, Want(src)
         PROVE  Control'
    BY <1>14, PipeAssumption DEF Want
  <1>15. ASSUME NEW kind \in Kinds, PrintLine(kind)
         PROVE  Control'
    BY <1>15, PipeAssumption DEF PrintLine
  <1>16. ASSUME Exit
         PROVE  Control'
    BY <1>16, PipeAssumption DEF Exit, Ends
  <1>17. ASSUME Kill
         PROVE  Control'
    BY <1>17, PipeAssumption DEF Kill, Ends
  <1>18. ASSUME Running, PrepareFails
         PROVE  Control'
    BY <1>18, PipeAssumption DEF PrepareFails, ExecutorGoes
  <1>19. ASSUME Running, StartCommand
         PROVE  Control'
    BY <1>19, PipeAssumption DEF StartCommand
  <1>20. ASSUME Running, StartFails
         PROVE  Control'
    BY <1>20, PipeAssumption DEF StartFails, ExecutorGoes, AfterFailure
  <1>21. ASSUME Running, SkipHook
         PROVE  Control'
    BY <1>21, PipeAssumption DEF SkipHook, ExecutorGoes, AfterHook
  <1>22. ASSUME Running, TerraformReturns
         PROVE  Control'
    BY <1>22, PipeAssumption
       DEF TerraformReturns, Leave, ExecutorGoes, AfterTerraform, AfterFailure
  <1>23. ASSUME Running, RetryInit
         PROVE  Control'
    BY <1>23, PipeAssumption DEF RetryInit
  <1>24. ASSUME Running, CancelPause
         PROVE  Control'
    BY <1>24, PipeAssumption DEF CancelPause, ExecutorGoes
  <1>25. ASSUME WaitHook
         PROVE  Control'
    BY <1>25, PipeAssumption DEF WaitHook
  <1>26. ASSUME Running, HookReturns
         PROVE  Control'
    BY <1>26, PipeAssumption
       DEF HookReturns, HookSucceeded, Leave, ExecutorGoes, AfterHook
  <1>27. ASSUME Running, Record
         PROVE  Control'
    BY <1>27, PipeAssumption DEF Record
  <1>28. ASSUME Running, RecordFails
         PROVE  Control'
    BY <1>28, PipeAssumption DEF RecordFails, ExecutorGoes
  <1>29. ASSUME Running, ExecutorFails
         PROVE  Control'
    BY <1>29, PipeAssumption DEF ExecutorFails, ExecutorGoes
  <1>30. ASSUME ExecuteJobReturns
         PROVE  Control'
    BY <1>30, PipeAssumption DEF ExecuteJobReturns
  <1>31. ASSUME Shutdown
         PROVE  Control'
    BY <1>31, PipeAssumption DEF Shutdown
  <1>32. ASSUME UNCHANGED vars PROVE Control'
    BY <1>32 DEF vars
  <1> QED
    BY <1>1, <1>2, <1>3, <1>4, <1>5, <1>6, <1>7, <1>8, <1>9, <1>10, <1>11, <1>12,
       <1>13, <1>14, <1>15, <1>16, <1>17, <1>18, <1>19, <1>20, <1>21, <1>22, <1>23, <1>24,
       <1>25, <1>26, <1>27, <1>28, <1>29, <1>30, <1>31, <1>32
    DEF RunNext, RunOver, ReaderStep, HookReaderStep, ScannerStep, CommandStep,
       ExecutorStep

(* Every step keeps failed commands and recorded results apart. *)
LEMMA CleanStep ==
    ASSUME Types, Control, Clean, [RunNext]_vars
    PROVE  Clean'
  <1> USE DEF Types, Control, Clean, Readers, HookSucceeded, Copiers, Sources,
              Ended, ReaderStates, ScannerStates, Hooks, Terraform, Commands,
              Exited, pipeVars, runVars, counts
  <1>1. ASSUME NEW src \in Sources, Running, ReadLine(src) /\ UNCHANGED runVars
         PROVE  Clean'
    BY <1>1 DEF ReadLine, ReaderGoes, AfterRead
  <1>2. ASSUME NEW src \in Sources, Running, ReadClosed(src) /\ UNCHANGED runVars
         PROVE  Clean'
    BY <1>2 DEF ReadClosed, ReaderGoes
  <1>3. ASSUME NEW src \in Sources, Running, WritePipe(src) /\ UNCHANGED runVars
         PROVE  Clean'
    BY <1>3 DEF WritePipe, ReaderGoes
  <1>4. ASSUME NEW src \in Sources, Running, WriteOverlong(src) /\ UNCHANGED runVars
         PROVE  Clean'
    BY <1>4 DEF WriteOverlong, ReaderGoes
  <1>5. ASSUME NEW src \in Sources, Running, PipeRefuses(src) /\ UNCHANGED runVars
         PROVE  Clean'
    BY <1>5 DEF PipeRefuses, PipeClosed, ReaderGoes
  <1>6. ASSUME NEW src \in Sources, Running, WriteLog(src) /\ UNCHANGED runVars
         PROVE  Clean'
    BY <1>6 DEF WriteLog, ReaderGoes
  <1>7. ASSUME NEW src \in Sources, Running, ReadEnd(src)
         PROVE  Clean'
    BY <1>7 DEF ReadEnd, ReaderGoes
  <1>8. ASSUME Running, TellLine /\ UNCHANGED runVars
         PROVE  Clean'
    BY <1>8 DEF TellLine, ReaderGoes
  <1>9. ASSUME Running, CheckDone /\ UNCHANGED runVars
         PROVE  Clean'
    BY <1>9 DEF CheckDone, ReaderGoes
  <1>10. ASSUME Running, PublishLine /\ UNCHANGED runVars
         PROVE  Clean'
    BY <1>10 DEF PublishLine
  <1>11. ASSUME Running, ScanNext /\ UNCHANGED runVars
         PROVE  Clean'
    BY <1>11 DEF ScanNext
  <1>12. ASSUME Running, ScanFails /\ UNCHANGED runVars
         PROVE  Clean'
    BY <1>12 DEF ScanFails
  <1>13. ASSUME Running, ScanEnd
         PROVE  Clean'
    BY <1>13 DEF ScanEnd
  <1>14. ASSUME NEW src \in Sources, Running, Want(src)
         PROVE  Clean'
    BY <1>14 DEF Want
  <1>15. ASSUME NEW kind \in Kinds, Running, PrintLine(kind)
         PROVE  Clean'
    BY <1>15 DEF PrintLine
  <1>16. ASSUME Running, Exit
         PROVE  Clean'
    BY <1>16 DEF Exit, Ends
  <1>17. ASSUME Running, Kill
         PROVE  Clean'
    BY <1>17 DEF Kill, Ends
  <1>18. ASSUME Running, PrepareFails
         PROVE  Clean'
    BY <1>18 DEF PrepareFails, ExecutorGoes
  <1>19. ASSUME Running, StartCommand
         PROVE  Clean'
    BY <1>19 DEF StartCommand
  <1>20. ASSUME Running, StartFails
         PROVE  Clean'
    BY <1>20 DEF StartFails, ExecutorGoes, AfterFailure
  <1>21. ASSUME Running, SkipHook
         PROVE  Clean'
    BY <1>21 DEF SkipHook, ExecutorGoes, AfterHook
  <1>22. ASSUME Running, TerraformReturns
         PROVE  Clean'
    BY <1>22 DEF TerraformReturns, Leave, ExecutorGoes, AfterTerraform, AfterFailure
  <1>23. ASSUME Running, RetryInit
         PROVE  Clean'
    BY <1>23 DEF RetryInit
  <1>24. ASSUME Running, CancelPause
         PROVE  Clean'
    BY <1>24 DEF CancelPause, ExecutorGoes
  <1>25. ASSUME Running, WaitHook
         PROVE  Clean'
    BY <1>25 DEF WaitHook
  <1>26. ASSUME Running, HookReturns
         PROVE  Clean'
    BY <1>26 DEF HookReturns, HookSucceeded, Leave, ExecutorGoes, AfterHook
  <1>27. ASSUME Running, Record
         PROVE  Clean'
    BY <1>27 DEF Record
  <1>28. ASSUME Running, RecordFails
         PROVE  Clean'
    BY <1>28 DEF RecordFails, ExecutorGoes
  <1>29. ASSUME Running, ExecutorFails
         PROVE  Clean'
    BY <1>29 DEF ExecutorFails, ExecutorGoes
  <1>30. ASSUME Running, ExecuteJobReturns
         PROVE  Clean'
    BY <1>30 DEF ExecuteJobReturns
  <1>31. ASSUME Running, Shutdown
         PROVE  Clean'
    BY <1>31 DEF Shutdown
  <1>32. ASSUME UNCHANGED vars PROVE Clean'
    BY <1>32 DEF vars
  <1> QED
    BY <1>1, <1>2, <1>3, <1>4, <1>5, <1>6, <1>7, <1>8, <1>9, <1>10, <1>11, <1>12,
       <1>13, <1>14, <1>15, <1>16, <1>17, <1>18, <1>19, <1>20, <1>21, <1>22, <1>23, <1>24,
       <1>25, <1>26, <1>27, <1>28, <1>29, <1>30, <1>31, <1>32
    DEF RunNext, RunOver, ReaderStep, HookReaderStep, ScannerStep, CommandStep,
       ExecutorStep

(* Every step keeps the log behind the stream. *)
LEMMA LoggingStep ==
    ASSUME Types, Types', Control, Logging, [RunNext]_vars
    PROVE  Logging'
  <1> USE DEF Types, Control, Logging, One, Copiers, Sources, Ended, ReaderStates,
              ScannerStates, Hooks, Terraform, Commands, Exited, pipeVars,
              runVars, counts
  <1>1. ASSUME NEW src \in Sources, ReadLine(src) /\ UNCHANGED runVars
         PROVE  Logging'
    BY <1>1 DEF ReadLine, ReaderGoes, AfterRead
  <1>2. ASSUME NEW src \in Sources, ReadClosed(src) /\ UNCHANGED runVars
         PROVE  Logging'
    BY <1>2 DEF ReadClosed, ReaderGoes
  <1>3. ASSUME NEW src \in Sources, WritePipe(src) /\ UNCHANGED runVars
         PROVE  Logging'
    BY <1>3 DEF WritePipe, ReaderGoes
  <1>4. ASSUME NEW src \in Sources, WriteOverlong(src) /\ UNCHANGED runVars
         PROVE  Logging'
    BY <1>4 DEF WriteOverlong, ReaderGoes
  <1>5. ASSUME NEW src \in Sources, PipeRefuses(src) /\ UNCHANGED runVars
         PROVE  Logging'
    BY <1>5 DEF PipeRefuses, PipeClosed, ReaderGoes
  <1>6. ASSUME NEW src \in Sources, WriteLog(src) /\ UNCHANGED runVars
         PROVE  Logging'
    <2>1. /\ at[src] = "log"
          /\ \A other \in Sources \ {src} : at'[other] = at[other]
          /\ at'[src] # "log"
          /\ UNCHANGED <<streamed, hold>>
      BY <1>6 DEF WriteLog, ReaderGoes
    <2>2. \A other \in Sources \ {src} : logged'[other] = logged[other]
      BY <1>6 DEF WriteLog
    <2>3. logged'[src] \in Nat /\ logged'[src] <= logged[src] + 1
      BY <1>6 DEF WriteLog
    <2> SUFFICES ASSUME NEW other \in Sources
                 PROVE  logged'[other] + One(at'[other] = "log")
                            <= streamed[other] + One(hold = other)
      BY <2>1
    <2>4. /\ logged[other] \in Nat /\ streamed[other] \in Nat
          /\ logged[other] + One(at[other] = "log") <= streamed[other] + One(hold = other)
      OBVIOUS
    <2>5. CASE other = src
      <3>1. logged[src] + 1 <= streamed[src] + One(hold = src)
        BY <2>1, <2>4, <2>5
      <3>2. One(at'[src] = "log") = 0 /\ One(hold = src) \in {0, 1}
        BY <2>1
      <3>3. logged[src] \in Nat /\ streamed[src] \in Nat
        BY <2>4, <2>5
      <3>4. logged'[src] + 0 <= streamed[src] + One(hold = src)
        <4> HIDE DEF Types, Control, Logging, One
        <4> DEFINE h == One(hold = src)
        <4> DEFINE now == logged'[src]
        <4> DEFINE old == logged[src]
        <4> DEFINE sent == streamed[src]
        <4>1. now \in Nat /\ old \in Nat /\ sent \in Nat /\ h \in {0, 1}
          BY <2>3, <3>2, <3>3
        <4>2. now <= old + 1 /\ old + 1 <= sent + h
          BY <2>3, <3>1
        <4> HIDE DEF h, now, old, sent
        <4>3. now + 0 <= sent + h
          BY <4>1, <4>2
        <4> QED
          BY <4>3 DEF h, now, sent
      <3> QED
        BY <3>2, <3>4, <2>5
    <2>6. CASE other # src
      BY <2>1, <2>2, <2>4, <2>6
    <2> QED
      BY <2>5, <2>6
  <1>7. ASSUME NEW src \in Sources, ReadEnd(src)
         PROVE  Logging'
    BY <1>7 DEF ReadEnd, ReaderGoes
  <1>8. ASSUME TellLine /\ UNCHANGED runVars
         PROVE  Logging'
    BY <1>8 DEF TellLine, ReaderGoes
  <1>9. ASSUME CheckDone /\ UNCHANGED runVars
         PROVE  Logging'
    BY <1>9 DEF CheckDone, ReaderGoes
  <1>10. ASSUME PublishLine /\ UNCHANGED runVars
         PROVE  Logging'
    BY <1>10 DEF PublishLine
  <1>11. ASSUME ScanNext /\ UNCHANGED runVars
         PROVE  Logging'
    BY <1>11 DEF ScanNext
  <1>12. ASSUME ScanFails /\ UNCHANGED runVars
         PROVE  Logging'
    BY <1>12 DEF ScanFails
  <1>13. ASSUME ScanEnd
         PROVE  Logging'
    BY <1>13 DEF ScanEnd
  <1>14. ASSUME NEW src \in Sources, Want(src)
         PROVE  Logging'
    BY <1>14 DEF Want
  <1>15. ASSUME NEW kind \in Kinds, PrintLine(kind)
         PROVE  Logging'
    BY <1>15 DEF PrintLine
  <1>16. ASSUME Exit
         PROVE  Logging'
    BY <1>16 DEF Exit, Ends
  <1>17. ASSUME Kill
         PROVE  Logging'
    BY <1>17 DEF Kill, Ends
  <1>18. ASSUME PrepareFails
         PROVE  Logging'
    BY <1>18 DEF PrepareFails, ExecutorGoes
  <1>19. ASSUME StartCommand
         PROVE  Logging'
    BY <1>19 DEF StartCommand
  <1>20. ASSUME StartFails
         PROVE  Logging'
    BY <1>20 DEF StartFails, ExecutorGoes, AfterFailure
  <1>21. ASSUME SkipHook
         PROVE  Logging'
    BY <1>21 DEF SkipHook, ExecutorGoes, AfterHook
  <1>22. ASSUME TerraformReturns
         PROVE  Logging'
    BY <1>22 DEF TerraformReturns, Leave, ExecutorGoes, AfterTerraform, AfterFailure
  <1>23. ASSUME RetryInit
         PROVE  Logging'
    BY <1>23 DEF RetryInit
  <1>24. ASSUME CancelPause
         PROVE  Logging'
    BY <1>24 DEF CancelPause, ExecutorGoes
  <1>25. ASSUME WaitHook
         PROVE  Logging'
    BY <1>25 DEF WaitHook
  <1>26. ASSUME HookReturns
         PROVE  Logging'
    BY <1>26 DEF HookReturns, HookSucceeded, Leave, ExecutorGoes, AfterHook
  <1>27. ASSUME Record
         PROVE  Logging'
    BY <1>27 DEF Record
  <1>28. ASSUME RecordFails
         PROVE  Logging'
    BY <1>28 DEF RecordFails, ExecutorGoes
  <1>29. ASSUME ExecutorFails
         PROVE  Logging'
    BY <1>29 DEF ExecutorFails, ExecutorGoes
  <1>30. ASSUME ExecuteJobReturns
         PROVE  Logging'
    BY <1>30 DEF ExecuteJobReturns
  <1>31. ASSUME Shutdown
         PROVE  Logging'
    BY <1>31 DEF Shutdown
  <1>32. ASSUME UNCHANGED vars PROVE Logging'
    BY <1>32 DEF vars
  <1> QED
    BY <1>1, <1>2, <1>3, <1>4, <1>5, <1>6, <1>7, <1>8, <1>9, <1>10, <1>11, <1>12,
       <1>13, <1>14, <1>15, <1>16, <1>17, <1>18, <1>19, <1>20, <1>21, <1>22, <1>23, <1>24,
       <1>25, <1>26, <1>27, <1>28, <1>29, <1>30, <1>31, <1>32
    DEF RunNext, RunOver, ReaderStep, HookReaderStep, ScannerStep, CommandStep,
       ExecutorStep

(* The first state of a run satisfies the invariant. *)
LEMMA InitInv ==
    ASSUME RunInit PROVE RunInv
  <1> USE DEF RunInit, PipeInit, Copiers, Sources, Ended, ReaderStates,
              ScannerStates,
              Hooks, Terraform, Commands, Exited
  <1>1. unread \in [Sources -> Seq(Kinds)]
    <2>1. <<>> \in Seq(Kinds)
      OBVIOUS
    <2> QED
      BY <2>1
  <1>2. attempt \in 1 .. Attempts
    BY AttemptsAssumption
  <1>3. Types
    BY <1>1, <1>2 DEF Types
  <1>4. Control
    BY DEF Control, Readers
  <1>5. Clean
    BY DEF Clean
  <1>6. Logging
    BY DEF Logging, One
  <1> QED
    BY <1>3, <1>4, <1>5, <1>6 DEF RunInv

(* The invariant holds in every run. *)
THEOREM RunInvHolds == RunSpec => []RunInv
  <1>1. RunInv /\ [RunNext]_vars => RunInv'
    BY TypesStep, ControlStep, CleanStep, LoggingStep DEF RunInv
  <1> QED
    BY InitInv, <1>1, PTL DEF RunSpec

(* When executeJob returns no command runs and no goroutine of the run is left. *)
THEOREM QuietAfterReturnHolds == RunSpec => []QuietAfterReturn
  <1>1. RunInv => QuietAfterReturn
    BY DEF RunInv, Control, QuietAfterReturn, Commands, Hooks, Terraform
  <1> QED
    BY RunInvHolds, <1>1, PTL

(* A result is recorded only of a run whose commands all ended with an exit *)
(* code their caller takes for success.                                     *)
THEOREM RecordedMeansCleanHolds == RunSpec => []RecordedMeansClean
  <1>1. RunInv => RecordedMeansClean
    BY DEF RunInv, Clean, RecordedMeansClean
  <1> QED
    BY RunInvHolds, <1>1, PTL

(* Nothing is in the log that the log scanner did not get before. *)
THEOREM LogWasStreamedHolds == RunSpec => []LogWasStreamed
  <1>1. RunInv => LogWasStreamed
    <2> SUFFICES ASSUME RunInv, NEW src \in Sources
                 PROVE  logged[src] <= streamed[src] + (IF hold = src THEN 1 ELSE 0)
      BY DEF LogWasStreamed
    <2>1. /\ logged[src] \in Nat /\ streamed[src] \in Nat
          /\ logged[src] + One(at[src] = "log") <= streamed[src] + One(hold = src)
      BY DEF RunInv, Types, Logging
    <2> QED
      BY <2>1 DEF One
  <1> QED
    BY RunInvHolds, <1>1, PTL

=============================================================================

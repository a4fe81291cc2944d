--------------------------- MODULE ProcessProofs ---------------------------
(***************************************************************************)
(* Proofs about Process, for any number of servers and runs and any        *)
(* timeouts.                                                               *)
(***************************************************************************)
EXTENDS Process, TLAPS

-----------------------------------------------------------------------------
(* The inductive invariant.                                                *)

\* A process that is there has a run, and the server it starts or closes is one
\* of its own.
InRange ==
    /\ at # "off" => run \in Runs
    /\ at \in {"start", "exit", "close", "report"} => server \in 1 .. Servers

\* A loop that panicked holds up the closing of its server, so that Close does not
\* get to its own flush.
PanicsHold == panicked \subseteq Looping

\* What is in the crash file is handed to Sentry before the file is emptied.
FileHandedOver ==
    /\ \A e \in file : e[1] = "crash"
    /\ at = "flush" /\ then = "truncate" =>
          file \subseteq pending \union settled /\ file \subseteq batch \union settled
    /\ at = "truncate" => file \subseteq settled

\* A flush waits for everything that was captured before it.
OnlyLateUnawaited == Flushing => \A e \in pending \ batch : e[1] = "late"

IInv ==
    /\ TypeOK /\ InRange /\ PanicsHold /\ FileHandedOver /\ OnlyLateUnawaited
    /\ CrashKept /\ EventsSent

-----------------------------------------------------------------------------
(* Facts the steps share.                                                  *)

\* Events of the current run are events.
LEMMA EventType ==
    ASSUME run \in Runs, NEW kind \in Kinds
    PROVE  <<kind, run>> \in Event /\ ReportOf(kind) \in Event
BY DEF Event, ReportOf, Kinds

\* When a flush returns, all that Sentry neither has nor had its time for came late.
LEMMA FlushedFacts ==
    ASSUME IInv, Flushed
    PROVE  \A e \in pending \ Tried : e[1] = "late"
BY DEF IInv, OnlyLateUnawaited, Flushed, Tried

\* The end of a process is the same for all: what was pending and not tried is
\* lost, and the process keeps nothing but its files.
LEMMA EndFacts ==
    ASSUME IInv, at # "off", NEW how \in Ends, End(how),
           \/ WriteCrash
           \/ UNCHANGED <<file, crashed>>,
           NEW more \in SUBSET Crashes(pending \union batch), settled' = settled \union more,
           how \in {"watch", "new", "panic", "closed"} => Flushed
    PROVE  IInv'
<1>1. <<"crash", run>> \in Event /\ run \in Runs
      BY EventType DEF IInv, InRange, Kinds
<1>2. file' \subseteq Event /\ crashed' \subseteq Runs /\ \A e \in file' : e[1] = "crash"
  <2>1. file \subseteq Event /\ crashed \subseteq Runs /\ \A e \in file : e[1] = "crash"
        BY DEF IInv, TypeOK, FileHandedOver
  <2> QED BY <1>1, <2>1 DEF WriteCrash
<1>3. lost' \subseteq Kinds
  <2>1. \A e \in pending : e[1] \in Kinds
        BY DEF IInv, TypeOK, Event
  <2> QED BY <2>1 DEF End
<1>4. settled' \subseteq Event
      BY DEF Crashes, IInv, TypeOK
<1>5. TypeOK'
  <2>1. /\ run' \in 0 .. MaxRuns /\ server' \in 0 .. Servers
        /\ wait' \in Nat /\ clock' \in 0 .. (FinalPushTimeout + Grace)
        /\ spent' \in 0 .. FlushTimeout
        BY TimesAssumption, ServersAssumption DEF End, IInv, TypeOK
  <2>2. /\ ended' \in Ends /\ at' = "off" /\ then' = "none" /\ armed' = FALSE /\ pending' = {}
        /\ panicked' = {} /\ batch' = {}
        BY DEF End
  <2> QED BY <1>2, <1>3, <1>4, <2>1, <2>2 DEF TypeOK
<1>6. InRange' /\ PanicsHold' /\ FileHandedOver' /\ OnlyLateUnawaited'
      BY <1>2 DEF InRange, PanicsHold, FileHandedOver, OnlyLateUnawaited, End
<1>7. CrashKept'
  <2>1. file \subseteq file' /\ settled \subseteq settled'
        BY DEF WriteCrash
  <2>2. \A r \in crashed' : r \in crashed \/ <<"crash", r>> \in file'
        BY DEF WriteCrash
  <2> QED BY <2>1, <2>2 DEF IInv, CrashKept
<1>8. EventsSent'
  <2> SUFFICES ASSUME how \in {"watch", "new", "panic", "closed"} PROVE lost' \subseteq {"late"}
      BY DEF EventsSent, End
  <2> QED BY FlushedFacts DEF End
<1> QED BY <1>5, <1>6, <1>7, <1>8 DEF IInv

\* Init establishes the invariant.
LEMMA InitIInv == Init => IInv
<1> SUFFICES ASSUME Init PROVE IInv
    OBVIOUS
<1>1. TypeOK
  <2>1. /\ run \in 0 .. MaxRuns /\ server \in 0 .. Servers
        /\ wait \in Nat /\ clock \in 0 .. (FinalPushTimeout + Grace)
        /\ spent \in 0 .. FlushTimeout
        BY TimesAssumption, ServersAssumption, RunsAssumption DEF Init
  <2> QED BY <2>1 DEF Init, TypeOK, Ends
<1>2. InRange /\ PanicsHold /\ FileHandedOver /\ OnlyLateUnawaited /\ CrashKept /\ EventsSent
      BY DEF Init, InRange, PanicsHold, FileHandedOver, OnlyLateUnawaited, CrashKept, EventsSent
<1> QED BY <1>1, <1>2 DEF IInv

-----------------------------------------------------------------------------
(* Every step keeps the invariant.                                         *)

\* The steps that end the process.
LEMMA EndingStep ==
    ASSUME IInv, startExit \/ RecoverDone \/ Crash \/ Kill \/ closeMonitor
    PROVE  IInv'
<1>1. CASE startExit \/ Crash \/ Kill \/ closeMonitor
  <2>1. {} \in SUBSET Crashes(pending \union batch) /\ settled' = settled \union {}
        BY <1>1 DEF startExit, Crash, Kill, closeMonitor
  <2>2. CASE startExit
        BY <2>1, <2>2, EndFacts DEF startExit, Ends
  <2>3. CASE Crash
        BY <2>1, <2>3, EndFacts DEF Crash, Ends
  <2>4. CASE Kill
        BY <2>1, <2>4, EndFacts DEF Kill, Ends
  <2>5. CASE closeMonitor
    <3>1. at # "off"
          BY <2>5 DEF closeMonitor, Closing, IInv, TypeOK
    <3> QED BY <2>1, <2>5, <3>1, EndFacts DEF closeMonitor, Ends
  <2> QED BY <1>1, <2>2, <2>3, <2>4, <2>5
<1>2. CASE RecoverDone
  <2>1. at # "off"
        BY <1>2 DEF RecoverDone, IInv, PanicsHold, Looping
  <2>2. /\ Crashes(Tried) \in SUBSET Crashes(pending \union batch)
        /\ settled' = settled \union Crashes(Tried)
        BY <1>2 DEF RecoverDone, Crashes, Tried
  <2> QED BY <1>2, <2>1, <2>2, EndFacts DEF RecoverDone, Ends
<1> QED BY <1>1, <1>2

\* A flush of the main goroutine that is over, and either goes on with the crash
\* file or ends the process.
LEMMA FlushStep == IInv /\ FlushDone => IInv'
<1> SUFFICES ASSUME IInv, FlushDone PROVE IInv'
    OBVIOUS
<1>1. /\ Crashes(Tried) \in SUBSET Crashes(pending \union batch)
      /\ settled' = settled \union Crashes(Tried)
      BY DEF Crashes, FlushDone, Tried
<1>2. CASE then = "truncate"
  <2>1. /\ at = "flush" /\ at' = "truncate" /\ then' = "none" /\ batch' = {} /\ spent' = 0
        /\ UNCHANGED <<run, ended, lost, server, wait, clock, panicked,
                       armed, file, crashed, pending>>
        BY <1>2 DEF FlushDone, runVars, timeVars, fileVars
  <2>2. file \subseteq settled'
    <3>1. \A e \in file : e[1] = "crash" /\ e \in pending \union settled
                             /\ e \in batch \union settled
          BY <1>2, <2>1 DEF IInv, FileHandedOver
    <3>2. batch \intersect pending = {} \/ Tried = batch
          BY DEF FlushDone, Flushed, Tried
    <3> QED BY <1>1, <3>1, <3>2 DEF Crashes
  <2>3. TypeOK'
    <3>1. settled' \subseteq Event
          BY <1>1 DEF Crashes, IInv, TypeOK
    <3>2. spent' \in 0 .. FlushTimeout
          BY <2>1, TimesAssumption
    <3> QED BY <2>1, <3>1, <3>2 DEF IInv, TypeOK
  <2>4. panicked' = {}
        BY <2>1 DEF IInv, TypeOK
  <2>5. InRange' /\ PanicsHold' /\ FileHandedOver' /\ OnlyLateUnawaited'
        BY <2>1, <2>2, <2>4 DEF IInv, InRange, PanicsHold, FileHandedOver, OnlyLateUnawaited, Flushing
  <2>6. CrashKept' /\ EventsSent'
        BY <1>1, <2>1 DEF IInv, CrashKept, EventsSent
  <2> QED BY <2>3, <2>5, <2>6 DEF IInv
<1>3. CASE then # "truncate"
  <2>1. at = "flush" /\ Flushed /\ End(then) /\ UNCHANGED <<file, crashed>>
        BY <1>3 DEF FlushDone
  <2>2. then \in Ends
        BY <1>3, <2>1 DEF IInv, TypeOK, Ends
  <2> QED BY <1>1, <2>1, <2>2, EndFacts
<1> QED BY <1>2, <1>3

\* watchCrashes: the file's content is captured before the flush that precedes its
\* emptying.  No server runs yet.
LEMMA WatchStep ==
    ASSUME IInv, Boot \/ Truncate \/ SetCrashOutput \/ WatchFailed
    PROVE  IInv'
<1> USE DEF runVars, timeVars, mainVars, fileVars, sentryVars, flushVars
<1>1. panicked = {} /\ panicked' = {}
      BY DEF Boot, Truncate, SetCrashOutput, WatchFailed, IInv, PanicsHold, Looping
<1>2. CrashKept'
      BY DEF Boot, Truncate, SetCrashOutput, WatchFailed, Capture, IInv, CrashKept, FileHandedOver
<1>3. EventsSent'
      BY DEF Boot, Truncate, SetCrashOutput, WatchFailed, IInv, EventsSent
<1>4. PanicsHold' /\ OnlyLateUnawaited'
      BY <1>1 DEF Boot, Truncate, SetCrashOutput, WatchFailed, Flush, FlushBegins,
                  PanicsHold, OnlyLateUnawaited, Flushing
<1>5. CASE Boot
  <2>1. /\ run' \in Runs /\ run' \in 0 .. MaxRuns /\ pending' \subseteq Event
        /\ at' \in {"truncate", "flush"}
        /\ file \subseteq Event /\ pending = {} /\ settled' = settled
        BY <1>5, RunsAssumption DEF Boot, IInv, TypeOK, Runs, Flush, Capture
  <2>2. TypeOK'
    <3>1. /\ then' # "none" <=> at' = "flush"
          /\ then' \in {"none", "truncate", "watch"}
          BY <1>5 DEF Boot, IInv, TypeOK, Flush
    <3>2. batch' \subseteq Event /\ spent' \in 0 .. FlushTimeout
          BY <1>5, <2>1, TimesAssumption DEF Boot, IInv, TypeOK, Flush, FlushBegins
    <3> QED BY <1>1, <1>5, <2>1, <3>1, <3>2 DEF Boot, IInv, TypeOK, Ends
  <2>3. InRange' /\ FileHandedOver'
        BY <1>5, <2>1 DEF Boot, IInv, InRange, FileHandedOver, Flush, FlushBegins, Capture
  <2> QED BY <1>2, <1>3, <1>4, <2>2, <2>3 DEF IInv
<1>6. CASE Truncate
  <2>1. TypeOK' /\ InRange' /\ FileHandedOver'
        BY <1>6 DEF Truncate, IInv, TypeOK, InRange, FileHandedOver
  <2> QED BY <1>2, <1>3, <1>4, <2>1 DEF IInv
<1>7. CASE SetCrashOutput
  <2>1. TypeOK' /\ InRange' /\ FileHandedOver'
        BY <1>7 DEF SetCrashOutput, IInv, TypeOK, InRange, FileHandedOver
  <2> QED BY <1>2, <1>3, <1>4, <2>1 DEF IInv
<1>8. CASE WatchFailed
  <2>1. batch' \subseteq Event /\ spent' \in 0 .. FlushTimeout
        BY <1>8, TimesAssumption DEF WatchFailed, IInv, TypeOK, Flush, FlushBegins
  <2>2. TypeOK' /\ InRange' /\ FileHandedOver'
        BY <1>1, <1>8, <2>1 DEF WatchFailed, Flush, IInv, TypeOK, InRange, FileHandedOver
  <2> QED BY <1>2, <1>3, <1>4, <2>2 DEF IInv
<1> QED BY <1>5, <1>6, <1>7, <1>8

\* Starting the servers, which leaves the crash file alone.
LEMMA StartStep ==
    ASSUME IInv, newInstance \/ newInstanceFailed \/ startServer \/ startFailed \/ Signal
    PROVE  IInv'
<1> USE DEF runVars, timeVars, mainVars, fileVars, sentryVars, flushVars
<1>1. /\ UNCHANGED <<run, ended, lost, wait, clock, panicked, armed, file, crashed,
                     settled>>
      /\ at \in {"new", "start", "running"}
      BY DEF newInstance, newInstanceFailed, startServer, startFailed, Signal, Capture
<1>2. CrashKept' /\ EventsSent'
      BY <1>1 DEF IInv, CrashKept, EventsSent
<1>3. PanicsHold'
  <2>1. CASE at \in {"start", "running"}
    <3>1. Looping \subseteq Looping'
          BY <2>1, ServersAssumption
          DEF newInstance, newInstanceFailed, startServer, startFailed, Signal, IInv, TypeOK,
              InRange, Looping
    <3> QED BY <1>1, <3>1 DEF IInv, PanicsHold
  <2>2. CASE at = "new"
        BY <1>1, <2>2 DEF IInv, PanicsHold, Looping
  <2> QED BY <1>1, <2>1, <2>2
<1>4. CASE newInstance \/ startServer \/ Signal
  <2>1. TypeOK' /\ InRange'
    <3>1. UNCHANGED <<run, ended, lost, then, wait, clock, panicked, armed, file,
                      crashed, pending, settled, batch, spent>>
          BY <1>4 DEF newInstance, startServer, Signal
    <3>2. /\ at' \in {"start", "running", "close"} /\ server' \in 0 .. Servers
          /\ at' # "running" => server' \in 1 .. Servers
          BY <1>4, ServersAssumption
          DEF newInstance, startServer, Signal, IInv, TypeOK, InRange
    <3> QED BY <1>1, <3>1, <3>2 DEF IInv, TypeOK, InRange
  <2>2. FileHandedOver' /\ OnlyLateUnawaited'
        BY <1>4 DEF newInstance, startServer, Signal, IInv, FileHandedOver, OnlyLateUnawaited,
                    Flushing
  <2> QED BY <1>2, <1>3, <2>1, <2>2 DEF IInv
<1>5. CASE newInstanceFailed
  <2>1. pending' \subseteq Event
        BY <1>5, EventType DEF newInstanceFailed, Capture, IInv, TypeOK, InRange, Kinds
  <2>2. batch' \subseteq Event /\ spent' \in 0 .. FlushTimeout /\ panicked' = {}
        BY <1>1, <1>5, <2>1, TimesAssumption
        DEF newInstanceFailed, Flush, FlushBegins, IInv, PanicsHold, Looping
  <2>3. TypeOK' /\ InRange' /\ FileHandedOver'
        BY <1>1, <1>5, <2>1, <2>2
        DEF newInstanceFailed, Flush, IInv, TypeOK, InRange, FileHandedOver
  <2>4. OnlyLateUnawaited'
        BY <1>5 DEF newInstanceFailed, Flush, FlushBegins, OnlyLateUnawaited
  <2> QED BY <1>2, <1>3, <2>3, <2>4 DEF IInv
<1>6. CASE startFailed
  <2>1. pending' \subseteq Event
        BY <1>6, EventType DEF startFailed, Capture, IInv, TypeOK, InRange, Kinds
  <2>2. TypeOK' /\ InRange' /\ FileHandedOver'
        BY <1>1, <1>6, <2>1 DEF startFailed, IInv, TypeOK, InRange, FileHandedOver
  <2>3. OnlyLateUnawaited'
        BY <1>1, <1>6 DEF startFailed, Capture, ReportOf, IInv, OnlyLateUnawaited, Flushing
  <2> QED BY <1>2, <1>3, <2>2, <2>3 DEF IInv
<1> QED BY <1>4, <1>5, <1>6

\* What goes on beside the main goroutine: what is captured during a flush is late.
LEMMA BesideStep ==
    ASSUME IInv, LogError \/ Deliver \/ \E s \in 1 .. Servers : Recover(s)
    PROVE  IInv'
<1> USE DEF runVars, timeVars, mainVars, fileVars, sentryVars, flushVars
<1>1. /\ UNCHANGED <<run, ended, lost, at, then, server, wait, clock, armed, file, crashed>>
      /\ settled \subseteq settled'
      BY DEF LogError, Deliver, Recover, Capture
<1>2. CrashKept' /\ EventsSent' /\ InRange'
      BY <1>1 DEF IInv, CrashKept, EventsSent, InRange
<1>3. Looping' = Looping
      BY <1>1 DEF Looping
<1>4. CASE LogError
  <2>1. at # "off"
        BY <1>4 DEF LogError, IInv, TypeOK
  <2>2. pending' = pending \union {ReportOf("log")} /\ pending' \subseteq Event
        BY <1>4, <2>1, EventType DEF LogError, Capture, IInv, TypeOK, InRange, Kinds
  <2>3. UNCHANGED <<settled, batch, spent, panicked>>
        BY <1>4 DEF LogError, Capture
  <2>4. TypeOK' /\ PanicsHold' /\ FileHandedOver'
        BY <1>1, <1>3, <2>1, <2>2, <2>3 DEF IInv, TypeOK, PanicsHold, FileHandedOver
  <2>5. OnlyLateUnawaited'
        BY <1>1, <2>2, <2>3 DEF IInv, OnlyLateUnawaited, Flushing, ReportOf
  <2> QED BY <1>2, <2>4, <2>5 DEF IInv
<1>5. CASE Deliver
  <2>1. PICK sent \in SUBSET pending \ {{}} :
            pending' = pending \ sent /\ settled' = settled \union Crashes(sent)
        BY <1>5 DEF Deliver
  <2>2. Crashes(sent) \subseteq sent /\ UNCHANGED <<batch, spent, panicked>>
        BY <1>5 DEF Crashes, Deliver
  <2>3. TypeOK' /\ PanicsHold' /\ OnlyLateUnawaited'
        BY <1>1, <1>3, <2>1, <2>2 DEF IInv, TypeOK, PanicsHold, OnlyLateUnawaited, Flushing
  <2>4. FileHandedOver'
        BY <1>1, <2>1, <2>2 DEF IInv, FileHandedOver, Crashes
  <2> QED BY <1>2, <2>3, <2>4 DEF IInv
<1>6. ASSUME NEW s \in 1 .. Servers, Recover(s) PROVE IInv'
  <2>1. at \notin {"off", "flush", "truncate"}
        BY <1>6 DEF Recover, Looping
  <2>2. pending' = pending \union {ReportOf("panic")} /\ pending' \subseteq Event
        BY <1>6, <2>1, EventType DEF Recover, Capture, IInv, TypeOK, InRange, Kinds
  <2>3. settled' = settled /\ panicked' = panicked \union {s} /\ s \in Looping
        BY <1>6 DEF Recover, Capture
  <2>4. batch' \subseteq Event /\ spent' \in 0 .. FlushTimeout
        BY <1>6, <2>2, TimesAssumption DEF Recover, FlushBegins, IInv, TypeOK
  <2>5. TypeOK' /\ PanicsHold' /\ FileHandedOver'
        BY <1>1, <1>3, <2>1, <2>2, <2>3, <2>4 DEF IInv, TypeOK, PanicsHold, FileHandedOver
  <2>6. OnlyLateUnawaited'
    <3>1. CASE panicked = {}
          BY <1>6, <3>1 DEF Recover, FlushBegins, OnlyLateUnawaited
    <3>2. CASE panicked # {}
          BY <1>6, <2>2, <3>2 DEF Recover, IInv, OnlyLateUnawaited, Flushing, ReportOf
    <3> QED BY <3>1, <3>2
  <2> QED BY <1>2, <2>5, <2>6 DEF IInv
<1> QED BY <1>4, <1>5, <1>6

\* Closing the servers: none that a panicked loop belongs to is passed.
LEMMA ClosingStep ==
    ASSUME IInv, CloseServer \/ ReportDone
    PROVE  IInv'
<1> USE DEF runVars, timeVars, mainVars, fileVars, sentryVars, flushVars
<1>1. /\ UNCHANGED <<run, ended, lost, clock, panicked, armed, file, crashed, pending,
                     settled>>
      /\ at \in {"close", "report"} /\ server \in 1 .. Servers
      BY DEF CloseServer, ReportDone, IInv, InRange
<1>2. CrashKept' /\ EventsSent'
      BY <1>1 DEF IInv, CrashKept, EventsSent
<1>3. panicked \subseteq (server + 1) .. Servers
  <2>1. CASE at = "close"
    <3>1. panicked \subseteq server .. Servers /\ server \notin panicked
          BY <2>1 DEF CloseServer, ReportDone, IInv, PanicsHold, Looping
    <3> QED BY <1>1, <3>1, ServersAssumption
  <2>2. CASE at = "report"
        BY <2>2 DEF IInv, PanicsHold, Looping
  <2> QED BY <1>1, <2>1, <2>2
<1>4. CASE at' = "report"
  <2>1. UNCHANGED <<then, server, wait, batch, spent>> /\ at = "close"
        BY <1>4 DEF CloseServer, ReportDone, ServerClosed, Flush
  <2>2. TypeOK' /\ InRange' /\ FileHandedOver'
        BY <1>1, <1>4, <2>1 DEF IInv, TypeOK, InRange, FileHandedOver
  <2>3. PanicsHold' /\ OnlyLateUnawaited'
        BY <1>1, <1>3, <1>4, <2>1 DEF IInv, PanicsHold, Looping, OnlyLateUnawaited, Flushing
  <2> QED BY <1>2, <2>2, <2>3 DEF IInv
<1>5. CASE ServerClosed /\ server # Servers
  <2>1. at' = "close" /\ server' = server + 1 /\ UNCHANGED <<then, batch, spent>> /\ wait' = 0
        BY <1>5 DEF ServerClosed
  <2>2. server' \in 1 .. Servers
        BY <1>1, <1>5, <2>1, ServersAssumption
  <2>3. TypeOK' /\ InRange' /\ FileHandedOver'
        BY <1>1, <2>1, <2>2 DEF IInv, TypeOK, InRange, FileHandedOver
  <2>4. PanicsHold' /\ OnlyLateUnawaited'
        BY <1>1, <1>3, <2>1 DEF IInv, PanicsHold, Looping, OnlyLateUnawaited, Flushing
  <2> QED BY <1>2, <2>3, <2>4 DEF IInv
<1>6. CASE ServerClosed /\ server = Servers
  <2>1. /\ at' = "flush" /\ then' = "closed" /\ batch' = pending' /\ spent' = 0
        /\ server' = server /\ wait' = 0
        BY <1>6 DEF ServerClosed, Flush, FlushBegins
  <2>2. panicked = {}
        BY <1>1, <1>3, <1>6, ServersAssumption
  <2>3. batch' \subseteq Event /\ spent' \in 0 .. FlushTimeout
        BY <1>1, <2>1, TimesAssumption DEF IInv, TypeOK
  <2>4. TypeOK' /\ InRange' /\ FileHandedOver'
        BY <1>1, <2>1, <2>2, <2>3 DEF IInv, TypeOK, InRange, FileHandedOver
  <2>5. PanicsHold' /\ OnlyLateUnawaited'
        BY <1>1, <2>1, <2>2 DEF PanicsHold, OnlyLateUnawaited
  <2> QED BY <1>2, <2>4, <2>5 DEF IInv
<1> QED BY <1>4, <1>5, <1>6 DEF CloseServer, ReportDone

\* Time.
LEMMA TimeStep ==
    ASSUME IInv, Tick \/ UNCHANGED vars
    PROVE  IInv'
<1> USE DEF runVars, timeVars, mainVars, fileVars, sentryVars, flushVars
<1>1. UNCHANGED <<run, ended, lost, at, then, server, panicked, armed, file, crashed, pending,
                  settled, batch>>
      BY DEF Tick, vars
<1>2. /\ wait' \in Nat /\ clock' \in 0 .. (FinalPushTimeout + Grace)
      /\ spent' \in 0 .. FlushTimeout
      BY TimesAssumption DEF Tick, vars, IInv, TypeOK
<1>3. TypeOK'
      BY <1>1, <1>2 DEF IInv, TypeOK
<1>4. InRange' /\ PanicsHold' /\ FileHandedOver' /\ OnlyLateUnawaited'
      BY <1>1 DEF IInv, InRange, PanicsHold, Looping, FileHandedOver, OnlyLateUnawaited, Flushing
<1>5. CrashKept' /\ EventsSent'
      BY <1>1 DEF IInv, CrashKept, EventsSent
<1> QED BY <1>3, <1>4, <1>5 DEF IInv

-----------------------------------------------------------------------------
(* The theorems.                                                           *)

\* The invariant holds in every reachable state.
LEMMA Invariance == Spec => []IInv
<1>1. IInv /\ [Next]_vars => IInv'
      BY EndingStep, FlushStep, WatchStep, StartStep, BesideStep, ClosingStep, TimeStep
      DEF Next, Starting, Running
<1> QED BY InitIInv, <1>1, PTL DEF Spec

\* Type correctness; a process that is off has nothing pending, and the flush of
\* Close never meets that of a loop that panicked.
THEOREM TypeCorrect == Spec => []TypeOK
<1>1. IInv => TypeOK
      BY DEF IInv
<1> QED BY Invariance, <1>1, PTL

\* A crash the runtime wrote down is in the file until Sentry has it or had the
\* time of a flush to take it.
THEOREM CrashesKept == Spec => []CrashKept
<1>1. IInv => CrashKept
      BY DEF IInv
<1> QED BY Invariance, <1>1, PTL

\* A run that ends with reporter.Close or Recover leaves no event behind that was
\* captured before its flush and not flushed.
THEOREM AllSent == Spec => []EventsSent
<1>1. IInv => EventsSent
      BY DEF IInv
<1> QED BY Invariance, <1>1, PTL
=============================================================================

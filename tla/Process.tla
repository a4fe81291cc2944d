------------------------------ MODULE Process ------------------------------
(***************************************************************************)
(* The life of the next-server process, run after run: main.go (run,       *)
(* closeMonitor), New, Start and Close of nextserver.go, and the error     *)
(* reporter of common/reporter with its crash file.                        *)
(*                                                                         *)
(* The main goroutine does one step after another; beside it Sentry's      *)
(* transport delivers events in the background, servers log errors, loops  *)
(* panic, report and wait, other goroutines panic, closeMonitor counts,    *)
(* and the process may be killed at any time.  An event is a kind and the  *)
(* run it tells of; "late" ones were captured while a flush was under way. *)
(* The limiter may hold an event back, which is no step here               *)
(* (ReportLimiter).                                                        *)
(***************************************************************************)
EXTENDS Naturals

CONSTANTS
    Servers,          \* how many servers are configured
    FinalPushTimeout, \* of a server's last traffic report
    Grace,            \* what closeMonitor allows beyond it
    FlushTimeout,     \* of reporter.Close
    MaxRuns           \* bound: how often the process is started

ASSUME ServersAssumption == Servers \in Nat \ {0}
ASSUME TimesAssumption ==
    FinalPushTimeout \in Nat /\ Grace \in Nat /\ FlushTimeout \in Nat
ASSUME RunsAssumption == MaxRuns \in Nat

VARIABLES
    run,       \* the number of the current or last run
    at,        \* the main goroutine's next step, or "off"
    then,      \* in "flush": what comes after it
    server,    \* the server being started or closed
    wait,      \* how long a final report has taken
    clock,     \* time since the signal
    panicked,  \* servers of which a loop is in Recover
    armed,     \* the runtime writes a crash to the file
    file,      \* the crash file
    pending,   \* events the transport has not sent
    batch,     \* what the flush under way waits for: what was pending then
    spent,     \* how long it has
    ended,     \* how the last run ended, while there is no next one
    crashed,   \* what happened: runs that the runtime wrote a crash of
    settled,   \* what happened: crashes that Sentry has, or that a flush has
               \* tried for FlushTimeout to send
    lost       \* what happened: the kinds of events that it left neither sent
               \* nor tried that long

runVars == <<run, ended, lost>>
timeVars == <<wait, clock>>
mainVars == <<at, then, server, timeVars>>
fileVars == <<armed, file, crashed>>
sentryVars == <<pending, settled>>
flushVars == <<batch, spent>>
vars == <<runVars, mainVars, panicked, fileVars, sentryVars, flushVars>>

Runs == 1 .. MaxRuns
Kinds == {"crash", "new", "start", "panic", "log", "late"}
Event == Kinds \X Runs
Ends == {"no", "watch", "new", "start", "panic", "crash", "killed", "closed", "forced"}

Init ==
    /\ run = 0 /\ ended = "no" /\ lost = {}
    /\ at = "off" /\ then = "none" /\ server = 0
    /\ wait = 0 /\ clock = 0
    /\ panicked = {}
    /\ armed = FALSE /\ file = {} /\ crashed = {}
    /\ pending = {} /\ settled = {}
    /\ batch = {} /\ spent = 0

-----------------------------------------------------------------------------
(* The reporter.                                                           *)

\* CaptureError, CaptureMessage, CaptureEvent.
Capture(events) == pending' = pending \union events /\ UNCHANGED settled

Crashes(events) == {e \in events : e[1] = "crash"}

\* sentry.Flush is called: it waits for what is pending now, and not for what is
\* captured while it waits.
FlushBegins == batch' = pending' /\ spent' = 0

\* The main goroutine flushes.
Flush(next) == at' = "flush" /\ then' = next /\ FlushBegins

Flushing == at = "flush" \/ panicked # {}

\* An event of the current run, as it is captured now.
ReportOf(kind) == <<IF Flushing THEN "late" ELSE kind, run>>

\* Wrong variant: it does not wait.
FlushedAtOnce == Flushing

\* It returns when all of that is sent, or in time.
Flushed == Flushing /\ (batch \intersect pending = {} \/ spent = FlushTimeout)

\* What Sentry had the time of a flush to take.
Tried == IF spent = FlushTimeout THEN batch ELSE {}

\* The process is gone, and with it what is pending; some of it was tried.
End(how) ==
    /\ ended' = how
    /\ lost' = {e[1] : e \in pending \ Tried}
    /\ at' = "off" /\ then' = "none" /\ server' = 0
    /\ wait' = 0 /\ clock' = 0
    /\ panicked' = {} /\ armed' = FALSE /\ pending' = {}
    /\ batch' = {} /\ spent' = 0
    /\ UNCHANGED run

\* A panic nobody recovers: the runtime writes it down, if it was told where.
WriteCrash ==
    IF armed THEN file' = file \union {<<"crash", run>>} /\ crashed' = crashed \union {run}
    ELSE UNCHANGED <<file, crashed>>

\* Sentry's transport, in the background.
Deliver ==
    /\ \E sent \in SUBSET pending \ {{}} :
          pending' = pending \ sent /\ settled' = settled \union Crashes(sent)
    /\ UNCHANGED <<runVars, mainVars, panicked, fileVars, flushVars>>

\* What follows the main goroutine's flush.
FlushDone ==
    /\ at = "flush" /\ Flushed
    /\ settled' = settled \union Crashes(Tried)
    /\ IF then = "truncate"
       THEN /\ at' = "truncate" /\ then' = "none" /\ batch' = {} /\ spent' = 0
            /\ UNCHANGED <<runVars, server, timeVars, panicked, fileVars, pending>>
       ELSE End(then) /\ UNCHANGED <<file, crashed>>

-----------------------------------------------------------------------------
(* New: the reporter first, with the crash of the run before, and then the *)
(* servers.                                                                *)

\* Wrong variant: the file is emptied before its content is sent.
BootEmpties ==
    /\ at = "off" /\ run < MaxRuns
    /\ run' = run + 1 /\ ended' = "no" /\ lost' = {}
    /\ IF file = {}
       THEN at' = "truncate" /\ UNCHANGED <<then, sentryVars, flushVars>>
       ELSE Capture(file) /\ Flush("truncate")
    /\ file' = {}
    /\ UNCHANGED <<server, timeVars, panicked, armed, crashed>>

\* watchCrashes reads the file, or cannot.
Boot ==
    /\ at = "off" /\ run < MaxRuns
    /\ run' = run + 1 /\ ended' = "no" /\ lost' = {}
    /\ \/ file = {} /\ at' = "truncate" /\ UNCHANGED <<then, sentryVars, flushVars>>
       \/ file # {} /\ Capture(file) /\ Flush("truncate")
       \/ UNCHANGED sentryVars /\ Flush("watch")
    /\ UNCHANGED <<server, timeVars, panicked, fileVars>>

\* It empties the file,
Truncate ==
    /\ at = "truncate"
    /\ file' = {}
    /\ at' = "arm"
    /\ UNCHANGED <<runVars, then, server, timeVars, panicked, armed, crashed,
                   sentryVars, flushVars>>

\* has the runtime write the next crash there,
SetCrashOutput ==
    /\ at = "arm"
    /\ armed' = TRUE
    /\ at' = "new"
    /\ UNCHANGED <<runVars, then, server, timeVars, panicked, file, crashed,
                   sentryVars, flushVars>>

\* or fails to, which ends the program after a flush.
WatchFailed ==
    /\ at \in {"truncate", "arm"}
    /\ UNCHANGED sentryVars /\ Flush("watch")
    /\ UNCHANGED <<runVars, server, timeVars, panicked, fileVars>>

newInstance ==
    /\ at = "new"
    /\ at' = "start" /\ server' = 1
    /\ UNCHANGED <<runVars, then, timeVars, panicked, fileVars, sentryVars, flushVars>>

\* The logger or a server cannot be created.
newInstanceFailed ==
    /\ at = "new"
    /\ Capture({<<"new", run>>})
    /\ Flush("new")
    /\ UNCHANGED <<runVars, server, timeVars, panicked, fileVars>>

-----------------------------------------------------------------------------
(* Start and the time after it.                                            *)

startServer ==
    /\ at = "start"
    /\ IF server = Servers THEN at' = "running" /\ server' = 0
       ELSE server' = server + 1 /\ UNCHANGED at
    /\ UNCHANGED <<runVars, then, timeVars, panicked, fileVars, sentryVars, flushVars>>

\* The log, the profiler or a server does not start; those that did run on.
startFailed ==
    /\ at = "start"
    /\ Capture({ReportOf("start")})
    /\ at' = "exit"
    /\ UNCHANGED <<runVars, then, server, timeVars, panicked, fileVars, flushVars>>

\* main returns the error, and nobody closes the instance.
startExit ==
    /\ at = "exit"
    /\ End("start")
    /\ UNCHANGED <<file, crashed, settled>>

\* A server logs an error (reportingLogger), also while Close flushes or a loop
\* recovers.
LogError ==
    /\ at \in {"start", "running", "exit", "close", "report"} \/ then = "closed"
    /\ Capture({ReportOf("log")})
    /\ UNCHANGED <<runVars, mainVars, panicked, fileVars, flushVars>>

\* The servers of which the loops run: Server.Start starts them last, and
\* Server.Close waits for them first.
Looping ==
    CASE at \in {"start", "exit"} -> 1 .. (server - 1)
      [] at = "running" -> 1 .. Servers
      [] at = "close" -> server .. Servers
      [] at = "report" -> (server + 1) .. Servers
      [] OTHER -> {}

\* A loop panics: Recover reports and flushes.  If another loop's does already,
\* that one, which began before, ends the process.
Recover(s) ==
    /\ s \in Looping
    /\ panicked' = panicked \union {s}
    /\ Capture({ReportOf("panic")})
    /\ IF panicked = {} THEN FlushBegins ELSE UNCHANGED flushVars
    /\ UNCHANGED <<runVars, mainVars, fileVars>>

\* It panics again.
RecoverDone ==
    /\ panicked # {} /\ Flushed
    /\ settled' = settled \union Crashes(Tried)
    /\ End("panic")
    /\ WriteCrash

\* Any other goroutine panics.
Crash ==
    /\ at # "off"
    /\ End("crash")
    /\ WriteCrash
    /\ UNCHANGED settled

\* Killed, out of memory, power lost.
Kill ==
    /\ at # "off"
    /\ End("killed")
    /\ UNCHANGED <<file, crashed, settled>>

-----------------------------------------------------------------------------
(* Close.                                                                  *)

Signal ==
    /\ at = "running"
    /\ at' = "close" /\ server' = 1
    /\ UNCHANGED <<runVars, then, timeVars, panicked, fileVars, sentryVars, flushVars>>

\* Wrong variant: one server too many.
ServerClosedOneMore ==
    /\ IF server > Servers THEN Flush("closed") /\ UNCHANGED server
       ELSE at' = "close" /\ server' = server + 1 /\ UNCHANGED <<then, flushVars>>
    /\ wait' = 0

\* The next server, or the profiler, the log and the reporter.
ServerClosed ==
    /\ IF server = Servers THEN Flush("closed") /\ UNCHANGED server
       ELSE at' = "close" /\ server' = server + 1 /\ UNCHANGED <<then, flushVars>>
    /\ wait' = 0

\* Server.Close, up to the final report: its loops have ended, and the node server
\* is closed.  There may be no traffic to report.
CloseServer ==
    /\ at = "close" /\ server \notin panicked
    /\ UNCHANGED sentryVars
    /\ \/ at' = "report" /\ UNCHANGED <<then, server, wait, flushVars>>
       \/ ServerClosed
    /\ UNCHANGED <<runVars, clock, panicked, fileVars>>

\* The panel answers, or FinalPushTimeout is over.
ReportDone ==
    /\ at = "report"
    /\ UNCHANGED sentryVars
    /\ ServerClosed
    /\ UNCHANGED <<runVars, clock, panicked, fileVars>>

Closing == at \in {"close", "report"} \/ then = "closed"

\* Wrong variant: it waits for Close to return.
closeMonitorWaits ==
    /\ Closing /\ at # "close" /\ clock = FinalPushTimeout + Grace
    /\ End("forced")
    /\ UNCHANGED <<file, crashed, settled>>

\* Time is up.
closeMonitor ==
    /\ Closing /\ clock = FinalPushTimeout + Grace
    /\ End("forced")
    /\ UNCHANGED <<file, crashed, settled>>

\* Time passes, but not beyond a timeout.
Tick ==
    /\ Closing \/ Flushing
    /\ Closing => clock < FinalPushTimeout + Grace
    /\ at = "report" => wait < FinalPushTimeout
    /\ Flushing => spent < FlushTimeout
    /\ clock' = IF Closing THEN clock + 1 ELSE clock
    /\ wait' = IF at = "report" THEN wait + 1 ELSE wait
    /\ spent' = IF Flushing THEN spent + 1 ELSE spent
    /\ UNCHANGED <<runVars, at, then, server, panicked, fileVars, sentryVars, batch>>

Starting == \/ Boot \/ Truncate \/ SetCrashOutput \/ WatchFailed
            \/ newInstance \/ newInstanceFailed
            \/ startServer \/ startFailed \/ startExit

Running == LogError \/ (\E s \in 1 .. Servers : Recover(s)) \/ RecoverDone \/ Crash \/ Kill \/ Signal

Next == \/ Starting \/ Running \/ Deliver \/ FlushDone \/ Tick
        \/ CloseServer \/ ReportDone \/ closeMonitor

Spec == Init /\ [][Next]_vars

\* Time passes, a report and a flush end with their timeouts, and closeMonitor is
\* a goroutine of its own.  That closing a node server ends is not assumed.
FairSpec ==
    /\ Spec
    /\ WF_vars(Tick) /\ WF_vars(ReportDone) /\ WF_vars(FlushDone)
    /\ WF_vars(RecoverDone) /\ WF_vars(closeMonitor)

-----------------------------------------------------------------------------
(* Properties.                                                             *)

\* Every variable has its type; only the main goroutine's flushes have something
\* to follow, they and those of loops never meet, and only a running process has
\* something pending.
TypeOK ==
    /\ run \in 0 .. MaxRuns
    /\ ended \in Ends
    /\ at \in {"off", "flush", "truncate", "arm", "new", "start", "exit", "running",
               "close", "report"}
    /\ then \in {"none", "truncate", "watch", "new", "closed"}
    /\ then # "none" <=> at = "flush"
    /\ server \in 0 .. Servers
    /\ wait \in Nat /\ clock \in 0 .. (FinalPushTimeout + Grace)
    /\ panicked \subseteq 1 .. Servers
    /\ at = "flush" => panicked = {}
    /\ armed \in BOOLEAN /\ crashed \subseteq Runs
    /\ file \subseteq Event /\ pending \subseteq Event /\ settled \subseteq Event
    /\ batch \subseteq Event /\ spent \in 0 .. FlushTimeout
    /\ at = "off" => pending = {}
    /\ lost \subseteq Kinds

\* A crash the runtime wrote down waits in the file until Sentry has it, or had
\* the time of a flush to take it, however often the process is killed or crashes
\* again on the way (watchCrashes empties the file after the flush).
CrashKept == \A r \in crashed : <<"crash", r>> \in file \union settled

\* A run that ends with reporter.Close, or with Recover, leaves no event behind
\* that Sentry did not have the time of a flush to take, except what was captured
\* after that flush had begun: a failed New is reported, so is a loop's panic, and
\* Close "sends pending error reports last" (nextserver.go:109).
EventsSent == ended \in {"watch", "new", "panic", "closed"} => lost \subseteq {"late"}

\* Once it got a signal the process ends, whatever its servers, the panel and
\* Sentry wait for.
ProcessExits == at = "close" ~> at = "off"
=============================================================================

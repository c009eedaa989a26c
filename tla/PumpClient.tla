----------------------------- MODULE PumpClient -----------------------------
(***************************************************************************)
(* pumpble.py MAC --battery | --uptime | --pump n: the main thread, which  *)
(* runs the D-Bus loop manager.run() and the callbacks it dispatches, and  *)
(* the background thread that gives up after Checks half-second sleeps.    *)
(* The gatt library and the Bluetooth daemon are external; what is assumed *)
(* of them is that stop() only ends a loop that is running, that a         *)
(* callback's exception does not end the loop, and that Disconnect() takes *)
(* the link down unless it raises.                                         *)
(***************************************************************************)
EXTENDS Integers

CONSTANTS Checks,   \* 30, the sleeps before the background thread gives up
          Requests  \* the values of n the user may give

ASSUME ClientAssumption == Checks \in Nat \ {0} /\ Requests \subseteq Int

Read == -1  \* the request of --battery and --uptime

VARIABLES
  main,         \* where the main thread stands
  thread,       \* where the background thread stands
  i,            \* its loop variable
  STOP_THREAD,
  mainLoop,     \* the library's main loop: none yet, running or quit
  connection,
  request,      \* what action and pumping_time ask for
  asked,        \* has the request been sent, its answer still to come?
  answered,
  failures      \* calls of disconnect() in the background thread that raised

clientVars == <<main, thread, i, STOP_THREAD, mainLoop, connection, request, asked, answered,
                failures>>
linkVars == <<connection, request, asked, answered>>

\* (Bug) Only what is too long is cut.
ClampAbove(howlong) == IF howlong > 100 THEN 100 ELSE howlong

\* turn_on_pump
Clamp(howlong) == IF howlong > 100 THEN 100 ELSE IF howlong < 0 THEN 0 ELSE howlong

ClientInit ==
  /\ main = "connect" /\ thread = "unborn" /\ i = 0 /\ STOP_THREAD = FALSE
  /\ mainLoop = "none" /\ connection = "down"
  /\ request \in {Read} \cup {Clamp(n) : n \in Requests}
  /\ asked = FALSE /\ answered = FALSE /\ failures = 0

-----------------------------------------------------------------------------
(****************************** the gatt library ***************************)

Disconnect == connection' = "down"

\* manager.stop(): forgotten if run() has not been called yet.
ManagerStop == mainLoop' = IF mainLoop = "running" THEN "quit" ELSE mainLoop

LinkComesUp ==
  /\ connection = "pending"
  /\ connection' = "up"
  /\ UNCHANGED <<main, thread, i, STOP_THREAD, mainLoop, request, asked, answered, failures>>

\* Out of range, refused (connect_failed only prints), or thrown out by the board.
LinkIsLost ==
  /\ connection \in {"pending", "up", "resolved"}
  /\ Disconnect
  /\ UNCHANGED <<main, thread, i, STOP_THREAD, mainLoop, request, asked, answered, failures>>

-----------------------------------------------------------------------------
(******************************** main thread ******************************)

Connect ==
  /\ main = "connect"
  /\ \/ connection' = "pending" /\ main' = "startThread"
     \/ UNCHANGED connection /\ main' = "finally"         \* device.connect() raises
  /\ UNCHANGED <<thread, i, STOP_THREAD, mainLoop, request, asked, answered, failures>>

StartThread ==
  /\ main = "startThread"
  /\ thread' = "check"
  /\ main' = "run"
  /\ UNCHANGED <<i, STOP_THREAD, mainLoop, linkVars, failures>>

Run ==
  /\ main = "run"
  /\ mainLoop' = "running"
  /\ main' = "running"
  /\ UNCHANGED <<thread, i, STOP_THREAD, linkVars, failures>>

\* services_resolved: sends the request, or raises at the first next() that
\* does not find its service or characteristic.
ServicesResolved ==
  /\ main = "running"
  /\ connection = "up"
  /\ connection' = "resolved"
  /\ asked' \in BOOLEAN
  /\ UNCHANGED <<main, thread, i, STOP_THREAD, mainLoop, request, answered, failures>>

\* characteristic_value_updated, ..._write_value_succeeded or ..._failed; an
\* answer under way may still be dispatched after a disconnection.
Answer ==
  /\ main = "running"
  /\ asked
  /\ asked' = FALSE
  /\ answered' = TRUE
  /\ main' = "answered"
  /\ UNCHANGED <<thread, i, STOP_THREAD, mainLoop, connection, request, failures>>

\* device.disconnect() of the callback; if it raises, the loop goes on.
AnswerDisconnects ==
  /\ main = "answered"
  /\ \/ Disconnect /\ main' = "answerStops"
     \/ UNCHANGED connection /\ main' = "running"
  /\ UNCHANGED <<thread, i, STOP_THREAD, mainLoop, request, asked, answered, failures>>

AnswerStops ==
  /\ main = "answerStops"
  /\ ManagerStop
  /\ main' = "running"
  /\ UNCHANGED <<thread, i, STOP_THREAD, linkVars, failures>>

RunReturns ==
  /\ main = "running" /\ mainLoop = "quit"
  /\ main' = "finally"
  /\ UNCHANGED <<thread, i, STOP_THREAD, mainLoop, linkVars, failures>>

\* The finally clause.  Its stop() finds no loop running, and is skipped should
\* its disconnect() raise.
StopThread ==
  /\ main = "finally"
  /\ STOP_THREAD' = TRUE
  /\ main' = "disconnecting"
  /\ UNCHANGED <<thread, i, mainLoop, linkVars, failures>>

FinallyDisconnects ==
  /\ main = "disconnecting"
  /\ Disconnect \/ UNCHANGED connection
  /\ main' = "exited"
  /\ UNCHANGED <<thread, i, STOP_THREAD, mainLoop, request, asked, answered, failures>>

-----------------------------------------------------------------------------
(**************************** background thread ****************************)

\* if STOP_THREAD: return, through the finally clause.
SeeStopThread ==
  /\ thread = "check"
  /\ i < Checks /\ STOP_THREAD
  /\ thread' = "finally"
  /\ UNCHANGED <<main, i, STOP_THREAD, mainLoop, linkVars, failures>>

\* time.sleep(0.5): main, which only has to call run(), gets there meanwhile.
SleepHalfSecond ==
  /\ thread = "check"
  /\ i < Checks /\ ~STOP_THREAD
  /\ main # "run"
  /\ i' = i + 1
  /\ UNCHANGED <<main, thread, STOP_THREAD, mainLoop, linkVars, failures>>

\* (Bug) One sleep too few.
GiveUpEarly ==
  /\ thread = "check"
  /\ i = Checks - 1
  /\ thread' = "disconnect"
  /\ UNCHANGED <<main, i, STOP_THREAD, mainLoop, linkVars, failures>>

GiveUp ==
  /\ thread = "check"
  /\ i = Checks
  /\ thread' = "disconnect"
  /\ UNCHANGED <<main, i, STOP_THREAD, mainLoop, linkVars, failures>>

\* (Bug) No finally clause: an exception of disconnect() ends the thread.
ThreadDisconnectsOnce ==
  /\ thread \in {"disconnect", "finally"}
  /\ \/ /\ Disconnect
        /\ thread' = IF thread = "disconnect" THEN "stop" ELSE "finallyStop"
        /\ UNCHANGED failures
     \/ /\ thread' = "dead"
        /\ failures' = failures + 1
        /\ UNCHANGED connection
  /\ UNCHANGED <<main, i, STOP_THREAD, mainLoop, request, asked, answered>>

\* disconnect() at 211 leads on to stop(), or raises into the finally clause;
\* that of the finally clause leads on to stop(), or ends the thread.
ThreadDisconnects ==
  /\ thread \in {"disconnect", "finally"}
  /\ \/ /\ Disconnect
        /\ thread' = IF thread = "disconnect" THEN "stop" ELSE "finallyStop"
        /\ UNCHANGED failures
     \/ /\ thread' = IF thread = "disconnect" THEN "finally" ELSE "dead"
        /\ failures' = failures + 1
        /\ UNCHANGED connection
  /\ UNCHANGED <<main, i, STOP_THREAD, mainLoop, request, asked, answered>>

ThreadStops ==
  /\ thread \in {"stop", "finallyStop"}
  /\ ManagerStop
  /\ thread' = IF thread = "stop" THEN "finally" ELSE "dead"
  /\ UNCHANGED <<main, i, STOP_THREAD, linkVars, failures>>

-----------------------------------------------------------------------------
Library == LinkComesUp \/ LinkIsLost

MainThread ==
  \/ Connect \/ StartThread \/ Run
  \/ AnswerDisconnects \/ AnswerStops \/ RunReturns
  \/ StopThread \/ FinallyDisconnects

Dispatch == ServicesResolved \/ Answer

CheckThread == SeeStopThread \/ SleepHalfSecond \/ GiveUp \/ ThreadDisconnects \/ ThreadStops

ClientNext == Library \/ MainThread \/ Dispatch \/ CheckThread

\* Both threads run; nobody promises a link, an answer or a callback.
ClientSpec == ClientInit /\ [][ClientNext]_clientVars /\ WF_clientVars(MainThread) /\ WF_clientVars(CheckThread)

-----------------------------------------------------------------------------
(******************************** properties *******************************)

\* Every variable holds a value of its kind; what goes to the pump fits the
\* byte of its characteristic whatever the user typed.
ClientTypeOK ==
  /\ main \in {"connect", "startThread", "run", "running", "answered", "answerStops",
               "finally", "disconnecting", "exited"}
  /\ thread \in {"unborn", "check", "disconnect", "stop", "finally", "finallyStop", "dead"}
  /\ i \in 0..Checks
  /\ STOP_THREAD \in BOOLEAN
  /\ mainLoop \in {"none", "running", "quit"}
  /\ connection \in {"down", "pending", "up", "resolved"}
  /\ request \in {Read} \cup 0..100
  /\ asked \in BOOLEAN /\ answered \in BOOLEAN
  /\ failures \in 0..2

\* The program does not give up on the board before the fifteen seconds are
\* over: its main loop is quit early only on an answer.
WaitsForAnswer == mainLoop = "quit" => answered \/ i = Checks

Exited == main = "exited" /\ thread \in {"unborn", "dead"}

\* The program ends, whether the board answers, answers late, disconnects or was
\* never there, and whichever thread is first to tear down; what it does not
\* survive is that both disconnections of the background thread raise.
Terminates == [](failures < 2) => <>Exited
=============================================================================

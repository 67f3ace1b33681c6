------------------------------ MODULE Session ------------------------------
(* The session life cycle: the main thread that pairs with a host, lists its *)
(* applications, launches one and streams it (main.c), the UI thread that     *)
(* moves through the menu screens (ui.c), and the connection they share: the  *)
(* start, stop and termination of the streaming library (Connection.c) and    *)
(* the callbacks that record its status (connection.c).                       *)
(*                                                                            *)
(* Both threads write ui_state without a lock. The main thread tests it at    *)
(* fixed points between calls that may each take seconds; the UI thread reads *)
(* it once per frame and acts on what it read.                                *)
EXTENDS Integers

CONSTANTS Hosts,        \* addresses the user can type
          AppCount,     \* length of the host's application list
          MaxReports    \* bound: internal threads reporting, callbacks pending

ASSUME SessionAssumption == /\ Hosts # {}
                            /\ AppCount \in Nat \ {0}
                            /\ MaxReports \in Nat \ {0}

VARIABLES
  ui_state,                \* the screen, written by both threads
  ui_running,              \* cleared by ui_stop
  ui_seen,                 \* the UI thread's read of ui_state in this frame
  dialog,                  \* system dialog on screen: osk_active, msg_dialog_active
  target_ip_str,           \* the host address the menu edits in place
  active_app_idx,          \* cursor of the application list
  app_selection_confirmed, \* Cross was pressed on the list
  main,                    \* the call or test the main thread is at
  hinfo_address,           \* the handshake's copy of the address
  app_id,                  \* the application the main thread launches
  RemoteAddr,              \* the host the streaming library connects to
  stage,                   \* streaming library: none, starting, control, up
  alreadyTerminated, ConnectionInterrupted,
  reporting,               \* internal threads past the termination guard
  async,                   \* detached termination threads yet to run
  connection_status,       \* what the callbacks recorded
  cancelled,               \* history: Circle was pressed in this attempt
  confirmed                \* history: where Cross was last pressed in this list

uiVars == <<ui_state, ui_running, ui_seen, dialog, target_ip_str,
            active_app_idx, app_selection_confirmed, cancelled, confirmed>>
liVars == <<RemoteAddr, stage, alreadyTerminated, ConnectionInterrupted,
            reporting, async, connection_status>>
vars == <<uiVars, main, hinfo_address, app_id, liVars>>

Screens == {"IP_ENTRY", "SETTINGS", "PAIRING", "APPLIST", "STREAMING", "ERROR"}
NoApp == -1
AppIdx == 0 .. AppCount - 1

-----------------------------------------------------------------------------
(* Main thread: the handshake.                                               *)

(* Calls that change no shared state, and where the main thread goes after   *)
(* each of their results.                                                    *)
Outcomes ==
  [random          |-> {"hv_is_paired", "error"},
   hv_is_paired    |-> {"paired", "unpaired"},
   hv_pair         |-> {"pair_ok", "pair_failed"},
   hv_get_info     |-> {"info_done", "info_failed"},
   hv_get_app_list |-> {"set_app_list", "list_failed"},
   rikey           |-> {"hv_launch", "error"},
   hv_launch       |-> {"callbacks_init", "launch_failed"}]

(* The cancellation tests: the attempt ends if the screen is IP_ENTRY.       *)
Tests ==
  [init_failed   |-> "error",
   paired        |-> "pair_ok",
   unpaired      |-> "hv_pair",
   pair_failed   |-> "pair_error",
   pair_ok       |-> "hv_get_info",
   info_failed   |-> "info_done",
   info_done     |-> "hv_get_app_list",
   list_failed   |-> "error",
   launch_failed |-> "error"]

CallReturns ==
  /\ main \in DOMAIN Outcomes
  /\ main' \in Outcomes[main]
  /\ UNCHANGED <<uiVars, hinfo_address, app_id, liVars>>

TestCancelled ==
  /\ main \in DOMAIN Tests
  /\ main' = IF ui_state = "IP_ENTRY" THEN "loop" ELSE Tests[main]
  /\ UNCHANGED <<uiVars, hinfo_address, app_id, liVars>>

(* Fault: a failed pairing is not put on the screen.                         *)
PairErrorSilent ==
  /\ main = "pair_error"
  /\ main' = "loop"
  /\ UNCHANGED <<uiVars, hinfo_address, app_id, liVars>>

(* Only a failure while the screen still says PAIRING is an error.           *)
PairError ==
  /\ main = "pair_error"
  /\ main' = IF ui_state = "PAIRING" THEN "error" ELSE "loop"
  /\ UNCHANGED <<uiVars, hinfo_address, app_id, liVars>>

(* A pairing request starts an attempt, with fresh locals.                   *)
(* hv_init copies the address before it can fail on a file.                  *)
Begin ==
  /\ main = "loop"
  /\ ui_running /\ ui_state = "PAIRING"
  /\ main' = "hv_init"
  /\ cancelled' = FALSE /\ confirmed' = NoApp /\ app_id' = NoApp
  /\ UNCHANGED <<ui_state, ui_running, ui_seen, dialog, target_ip_str, active_app_idx,
                 app_selection_confirmed, hinfo_address, liVars>>

HvInit ==
  /\ main = "hv_init"
  /\ hinfo_address' = target_ip_str
  /\ main' \in {"random", "init_failed"}
  /\ UNCHANGED <<uiVars, app_id, liVars>>

(* The main thread's writes of ui_state.                                     *)
SetState(at, screen, next) ==
  /\ main = at
  /\ ui_state' = screen
  /\ main' = next
  /\ UNCHANGED <<ui_running, ui_seen, dialog, target_ip_str, active_app_idx,
                 app_selection_confirmed, cancelled, confirmed,
                 hinfo_address, app_id, liVars>>

(* Fault: the confirmation of an earlier list is kept.                       *)
SetListKeepsChoice ==
  /\ main = "set_app_list"
  /\ active_app_idx' = 0
  /\ confirmed' = NoApp
  /\ main' = "show_list"
  /\ UNCHANGED <<ui_state, ui_running, ui_seen, dialog, target_ip_str, cancelled,
                 app_selection_confirmed, hinfo_address, app_id, liVars>>

SetAppList ==
  /\ main = "set_app_list"
  /\ active_app_idx' = 0
  /\ app_selection_confirmed' = FALSE
  /\ confirmed' = NoApp
  /\ main' = "show_list"
  /\ UNCHANGED <<ui_state, ui_running, ui_seen, dialog, target_ip_str, cancelled,
                 hinfo_address, app_id, liVars>>

(* Fault: the wait does not look at ui_running.                              *)
SelectionOnly ==
  /\ main = "wait_app"
  /\ ui_state # "APPLIST" \/ app_selection_confirmed
  /\ main' = "selected"
  /\ UNCHANGED <<uiVars, hinfo_address, app_id, liVars>>

(* The wait for a confirmation ends when it comes, or the screen changes, or *)
(* the program stops; the screen is then tested once more.                   *)
SelectionOver ==
  /\ main = "wait_app"
  /\ ~ui_running \/ ui_state # "APPLIST" \/ app_selection_confirmed
  /\ main' = "selected"
  /\ UNCHANGED <<uiVars, hinfo_address, app_id, liVars>>

TestSelected ==
  /\ main = "selected"
  /\ main' = IF ui_running /\ ui_state = "APPLIST" THEN "get_app" ELSE "loop"
  /\ UNCHANGED <<uiVars, hinfo_address, app_id, liVars>>

GetSelectedApp ==
  /\ main = "get_app"
  /\ app_id' = active_app_idx
  /\ main' = "rikey"
  /\ UNCHANGED <<uiVars, hinfo_address, liVars>>

-----------------------------------------------------------------------------
(* Main thread: the connection.                                              *)

CallbacksInit ==
  /\ main = "callbacks_init"
  /\ connection_status' = "READY"
  /\ main' = "start"
  /\ UNCHANGED <<uiVars, hinfo_address, app_id, RemoteAddr, stage,
                 alreadyTerminated, ConnectionInterrupted, reporting, async>>

(* LiStartConnection takes the address from the menu's string, and forgets   *)
(* an earlier termination or interruption.                                   *)
LiStart ==
  /\ main = "start"
  /\ RemoteAddr' = target_ip_str
  /\ alreadyTerminated' = FALSE
  /\ ConnectionInterrupted' = FALSE
  /\ stage' = "starting"
  /\ main' = "starting"
  /\ UNCHANGED <<uiVars, hinfo_address, app_id, reporting, async, connection_status>>

(* From the control stream on, internal threads watch the connection.        *)
ControlStarted ==
  /\ main = "starting" /\ stage = "starting"
  /\ stage' = "control"
  /\ UNCHANGED <<uiVars, main, hinfo_address, app_id, RemoteAddr, alreadyTerminated,
                 ConnectionInterrupted, reporting, async, connection_status>>

(* Fault: a failed stage returns without undoing those before it.            *)
StageFailedOnly ==
  /\ main = "starting"
  /\ main' = "error"
  /\ UNCHANGED <<uiVars, hinfo_address, app_id, liVars>>

StageFailed ==
  /\ main = "starting"
  /\ main' = "start_failed"
  /\ UNCHANGED <<uiVars, hinfo_address, app_id, liVars>>

(* The last stage calls connectionStarted and LiStartConnection returns 0.   *)
ConnectionStarted ==
  /\ main = "starting" /\ stage = "control"
  /\ stage' = "up"
  /\ connection_status' = "CONNECTED"
  /\ main' = "started"
  /\ UNCHANGED <<uiVars, hinfo_address, app_id, RemoteAddr, alreadyTerminated,
                 ConnectionInterrupted, reporting, async>>

(* LiStopConnection disables termination, then joins the internal threads.   *)
Stops == [start_failed |-> "failing", leave |-> "leaving", exit |-> "exiting"]
Joins == [failing |-> "error", leaving |-> "menu", exiting |-> "ui_shutdown"]

LiStop ==
  /\ main \in DOMAIN Stops
  /\ alreadyTerminated' = TRUE
  /\ ConnectionInterrupted' = TRUE
  /\ main' = Stops[main]
  /\ UNCHANGED <<uiVars, hinfo_address, app_id, RemoteAddr, stage, reporting, async,
                 connection_status>>

LiStopped ==
  /\ main \in DOMAIN Joins
  /\ reporting = 0
  /\ stage' = "none"
  /\ main' = Joins[main]
  /\ UNCHANGED <<uiVars, hinfo_address, app_id, RemoteAddr, alreadyTerminated,
                 ConnectionInterrupted, reporting, async, connection_status>>

(* The wait for the connection ends by itself after ten seconds.             *)
WaitOver ==
  /\ main = "wait"
  /\ main' = "established"
  /\ UNCHANGED <<uiVars, hinfo_address, app_id, liVars>>

TestEstablished ==
  /\ main = "established"
  /\ main' = IF ui_running /\ connection_status = "CONNECTED" THEN "stream" ELSE "lost"
  /\ UNCHANGED <<uiVars, hinfo_address, app_id, liVars>>

StreamingOnScreen == ui_running /\ ui_state = "STREAMING"   \* fault: no status test
Streaming == ui_running /\ connection_status # "DISCONNECTED" /\ ui_state = "STREAMING"

StreamOver ==
  /\ main = "stream" /\ ~Streaming
  /\ main' = "leave"
  /\ UNCHANGED <<uiVars, hinfo_address, app_id, liVars>>

(* Select, Start, L3 and R3 together leave the stream.                       *)
ExitCombo == Streaming /\ SetState("stream", "IP_ENTRY", "stream")

LoopOver ==
  /\ main = "loop" /\ ~ui_running
  /\ main' = "exit"
  /\ UNCHANGED <<uiVars, hinfo_address, app_id, liVars>>

(* ui_shutdown stops the UI, aborts its dialogs and joins its thread.        *)
UiShutdown ==
  /\ main = "ui_shutdown"
  /\ ui_running' = FALSE
  /\ dialog' = "none"
  /\ main' = "ui_join"
  /\ UNCHANGED <<ui_state, ui_seen, target_ip_str, active_app_idx,
                 app_selection_confirmed, cancelled, confirmed,
                 hinfo_address, app_id, liVars>>

UiJoined ==
  /\ main = "ui_join" /\ ui_seen = "exited"
  /\ main' = "done"
  /\ UNCHANGED <<uiVars, hinfo_address, app_id, liVars>>

MainStep ==
  \/ CallReturns \/ TestCancelled \/ PairError \/ Begin \/ HvInit
  \/ SetState("error", "ERROR", "loop")
  \/ SetAppList
  \/ SetState("show_list", "APPLIST", "wait_app")
  \/ SelectionOver \/ TestSelected \/ GetSelectedApp
  \/ CallbacksInit \/ LiStart \/ ControlStarted \/ StageFailed \/ ConnectionStarted
  \/ SetState("started", "STREAMING", "wait")
  \/ WaitOver \/ TestEstablished
  \/ SetState("lost", "ERROR", "leave")
  \/ StreamOver \/ LiStop \/ LiStopped
  \/ SetState("menu", "IP_ENTRY", "loop")
  \/ LoopOver \/ UiShutdown \/ UiJoined

-----------------------------------------------------------------------------
(* Internal threads of the streaming library.                                *)

(* A thread that loses the connection passes the guard ...                   *)
Report ==
  /\ stage \in {"control", "up"}
  /\ ~alreadyTerminated /\ ~ConnectionInterrupted
  /\ reporting + async < MaxReports
  /\ reporting' = reporting + 1
  /\ UNCHANGED <<uiVars, main, hinfo_address, app_id, RemoteAddr, stage,
                 alreadyTerminated, ConnectionInterrupted, async, connection_status>>

(* ... and then takes the flag and starts the detached callback thread.      *)
Terminate ==
  /\ reporting > 0
  /\ reporting' = reporting - 1
  /\ alreadyTerminated' = TRUE
  /\ async' = async + 1
  /\ UNCHANGED <<uiVars, main, hinfo_address, app_id, RemoteAddr, stage,
                 ConnectionInterrupted, connection_status>>

ConnectionTerminated ==
  /\ async > 0
  /\ async' = async - 1
  /\ connection_status' = "DISCONNECTED"
  /\ UNCHANGED <<uiVars, main, hinfo_address, app_id, RemoteAddr, stage,
                 alreadyTerminated, ConnectionInterrupted, reporting>>

-----------------------------------------------------------------------------
(* UI thread: one frame is a read of ui_state and an act on it.              *)

UiRead ==
  /\ ui_seen = "none"
  /\ ui_seen' = IF ui_running THEN ui_state ELSE "exited"
  /\ UNCHANGED <<ui_state, ui_running, dialog, target_ip_str, active_app_idx,
                 app_selection_confirmed, cancelled, confirmed,
                 main, hinfo_address, app_id, liVars>>

(* No button that matters on this screen.                                    *)
UiIdle ==
  /\ ui_seen \in Screens
  /\ ui_seen' = "none"
  /\ UNCHANGED <<ui_state, ui_running, dialog, target_ip_str, active_app_idx,
                 app_selection_confirmed, cancelled, confirmed,
                 main, hinfo_address, app_id, liVars>>

(* The main menu: Settings, Connect (or Start), the host keyboard, the exit  *)
(* dialog. Buttons of one frame combine, but the keyboard and the settings   *)
(* are on different rows. A dialog takes the input away.                     *)
MainMenu ==
  /\ ui_seen = "IP_ENTRY" /\ dialog = "none"
  /\ \E screen \in {ui_state, "SETTINGS", "PAIRING"}, open \in {"none", "osk", "exit"} :
       /\ ~(screen = "SETTINGS" /\ open = "osk")
       /\ ui_state' = screen
       /\ dialog' = open
  /\ ui_seen' = "none"
  /\ UNCHANGED <<ui_running, target_ip_str, active_app_idx, app_selection_confirmed,
                 cancelled, confirmed, main, hinfo_address, app_id, liVars>>

(* Circle in the settings, Cross on the error screen.                        *)
BackToMenu ==
  /\ ui_seen \in {"SETTINGS", "ERROR"}
  /\ ui_state' = "IP_ENTRY"
  /\ ui_seen' = "none"
  /\ UNCHANGED <<ui_running, dialog, target_ip_str, active_app_idx,
                 app_selection_confirmed, cancelled, confirmed,
                 main, hinfo_address, app_id, liVars>>

CancelPairing ==
  /\ ui_seen = "PAIRING"
  /\ ui_state' = "IP_ENTRY"
  /\ cancelled' = TRUE
  /\ ui_seen' = "none"
  /\ UNCHANGED <<ui_running, dialog, target_ip_str, active_app_idx,
                 app_selection_confirmed, confirmed, main, hinfo_address, app_id, liVars>>

Moved(step) == (active_app_idx + step) % AppCount

(* The application list: Up or Down, then Cross, then Circle.                *)
AppList ==
  /\ ui_seen = "APPLIST"
  /\ \E move \in {0, 1, AppCount - 1}, cross, circle \in BOOLEAN :
       /\ active_app_idx' = Moved(move)
       /\ app_selection_confirmed' = (~circle /\ (cross \/ app_selection_confirmed))
       /\ confirmed' = IF cross THEN active_app_idx' ELSE confirmed
       /\ ui_state' = IF circle THEN "IP_ENTRY" ELSE ui_state
       /\ cancelled' = (circle \/ cancelled)
  /\ ui_seen' = "none"
  /\ UNCHANGED <<ui_running, dialog, target_ip_str, main, hinfo_address, app_id, liVars>>

(* The keyboard's callbacks: the text is saved, then the dialog is unloaded. *)
OskDone ==
  /\ dialog = "osk"
  /\ target_ip_str' \in Hosts
  /\ dialog' = "osk_done"
  /\ UNCHANGED <<ui_state, ui_running, ui_seen, active_app_idx, app_selection_confirmed,
                 cancelled, confirmed, main, hinfo_address, app_id, liVars>>

(* Unloading the keyboard, or answering No to the exit dialog.               *)
DialogClosed ==
  /\ dialog \in {"osk_done", "exit"}
  /\ dialog' = "none"
  /\ UNCHANGED <<ui_state, ui_running, ui_seen, target_ip_str, active_app_idx,
                 app_selection_confirmed, cancelled, confirmed,
                 main, hinfo_address, app_id, liVars>>

(* Answering Yes to the exit dialog.                                         *)
ExitConfirmed ==
  /\ dialog = "exit"
  /\ dialog' = "none"
  /\ ui_running' = FALSE
  /\ UNCHANGED <<ui_state, ui_seen, target_ip_str, active_app_idx,
                 app_selection_confirmed, cancelled, confirmed,
                 main, hinfo_address, app_id, liVars>>

(* SYSUTIL_EXIT_GAME from the console, in whichever thread polls callbacks.  *)
ExitGame ==
  /\ ui_running
  /\ ConnectionInterrupted' = TRUE
  /\ ui_running' = FALSE
  /\ UNCHANGED <<ui_state, ui_seen, dialog, target_ip_str, active_app_idx,
                 app_selection_confirmed, cancelled, confirmed, main, hinfo_address,
                 app_id, RemoteAddr, stage, alreadyTerminated, reporting, async,
                 connection_status>>

UiStep == UiRead \/ UiIdle \/ MainMenu \/ BackToMenu \/ CancelPairing \/ AppList

(* The program has returned from main.                                       *)
Finished == main = "done" /\ UNCHANGED vars

-----------------------------------------------------------------------------
Init ==
  /\ ui_state = "IP_ENTRY" /\ ui_running = TRUE /\ ui_seen = "none"
  /\ dialog = "none"
  /\ target_ip_str \in Hosts
  /\ active_app_idx = 0 /\ app_selection_confirmed = FALSE
  /\ main = "loop" /\ hinfo_address = target_ip_str /\ app_id = NoApp
  /\ RemoteAddr = target_ip_str /\ stage = "none"
  /\ alreadyTerminated = FALSE /\ ConnectionInterrupted = FALSE
  /\ reporting = 0 /\ async = 0 /\ connection_status = "DISCONNECTED"
  /\ cancelled = FALSE /\ confirmed = NoApp

Next ==
  \/ MainStep \/ ExitCombo
  \/ Report \/ Terminate \/ ConnectionTerminated
  \/ UiStep
  \/ OskDone \/ DialogClosed \/ ExitConfirmed \/ ExitGame
  \/ Finished

Spec == Init /\ [][Next]_vars

(* Calls of the main thread return (each has a timeout), the UI thread draws *)
(* frames, and started threads are scheduled. Users and hosts owe nothing.   *)
FairSpec == /\ Spec
            /\ WF_vars(MainStep)
            /\ WF_vars(UiStep)
            /\ WF_vars(Terminate) /\ WF_vars(ConnectionTerminated)

-----------------------------------------------------------------------------
(* Properties.                                                               *)

Points == DOMAIN Outcomes \cup DOMAIN Tests \cup DOMAIN Stops \cup DOMAIN Joins
          \cup {"loop", "hv_init", "pair_error", "error", "set_app_list", "show_list",
                "wait_app", "selected", "get_app", "callbacks_init", "start", "starting",
                "started", "wait", "established", "lost", "stream", "menu",
                "ui_shutdown", "ui_join", "done"}

(* Every variable stays in its domain.                                       *)
TypeOK ==
  /\ ui_state \in Screens /\ ui_running \in BOOLEAN
  /\ ui_seen \in Screens \cup {"none", "exited"}
  /\ dialog \in {"none", "osk", "osk_done", "exit"}
  /\ target_ip_str \in Hosts /\ hinfo_address \in Hosts /\ RemoteAddr \in Hosts
  /\ active_app_idx \in AppIdx /\ app_selection_confirmed \in BOOLEAN
  /\ main \in Points
  /\ app_id \in AppIdx \cup {NoApp} /\ confirmed \in AppIdx \cup {NoApp}
  /\ stage \in {"none", "starting", "control", "up"}
  /\ alreadyTerminated \in BOOLEAN /\ ConnectionInterrupted \in BOOLEAN
  /\ reporting \in 0 .. MaxReports /\ async \in 0 .. MaxReports
  /\ connection_status \in {"DISCONNECTED", "READY", "CONNECTED"}
  /\ cancelled \in BOOLEAN

(* From the reading of the cursor on, and whatever the attempt came to, Cross *)
(* had been pressed on this attempt's own list: no confirmation left from an  *)
(* earlier list, and no list that was left without one, launches anything     *)
(* (main.c 229-241). A Circle after the Cross may come too late              *)
(* (SessionCancelStream), and the cursor may move (SessionApp).              *)
LaunchWasConfirmed == app_id # NoApp => confirmed # NoApp

(* Outside a session nothing of the streaming library is left running: each  *)
(* way out of an attempt, failed start included, passes LiStopConnection.    *)
NoSessionInMenu ==
  main \in {"loop", "hv_init", "wait_app", "start", "done"} => stage = "none" /\ reporting = 0

(* A pairing request is answered: the main thread moves the screen on,       *)
(* unless the user or the console ends it first.                             *)
PairingAnswered == (ui_state = "PAIRING") ~> (ui_state # "PAIRING" \/ ~ui_running)

(* Once the status says DISCONNECTED the stream is left for the menu.        *)
DisconnectReturns ==
  (main = "stream" /\ connection_status = "DISCONNECTED") ~> (main \in {"loop", "done"})

(* Whatever the main thread is doing when the program is told to stop, it    *)
(* gets through its shutdown, which joins the UI thread.                     *)
ExitCompletes == ~ui_running ~> main = "done"

-----------------------------------------------------------------------------
(* What comments and screens say of the code.                                *)

(* main.c: "If user cancelled, they are already at UI_STATE_IP_ENTRY": a     *)
(* cancelled attempt is on that screen at every test for it.                 *)
CancelledIsAtMenu == main \in DOMAIN Tests /\ cancelled => ui_state = "IP_ENTRY"

(* ui.c: "Circle button returns to main menu": a cancelled attempt does not  *)
(* become a stream.                                                          *)
CancelIsFinal == [][ui_state # "STREAMING" /\ ui_state' = "STREAMING" => ~cancelled]_vars

(* ui.c: "Launch Game": the application launched is the one Cross was        *)
(* last pressed on, when the main thread reads the cursor.                   *)
LaunchesConfirmedApp ==
  [][main = "get_app" /\ main' = "rikey" => app_id' = confirmed]_vars

(* main.c: "If we reach here, launch was successful! Setup Stream": the      *)
(* stream is set up with the host that launched the application.             *)
StreamsFromLaunchedHost == main = "starting" => RemoteAddr = hinfo_address

(* ui.c: "Press X to return": the error screen stays until the user leaves.  *)
ErrorIsShown == [][ui_state = "ERROR" /\ ui_state' # "ERROR" => main' = main]_vars

(* Connection.c: "Disable termination callbacks now", "Avoid recursion and   *)
(* issuing multiple callbacks": none is issued once the flag is taken.       *)
OneTermination == [][async' > async => ~alreadyTerminated]_vars

(* Limelight.h: the termination callback is "invoked when a connection is    *)
(* terminated after establishment": so it is not lost, and ends the stream.  *)
TerminationEndsStream == (main = "stream" /\ alreadyTerminated) ~> main # "stream"
=============================================================================

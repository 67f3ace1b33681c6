--------------------------- MODULE SessionProofs ---------------------------
(* Safety of the session for any hosts, any number of applications and of     *)
(* internal threads that report.                                              *)
(*                                                                            *)
(* Both invariants are about where the main thread is. A launch lies behind   *)
(* the test of the screen at "selected", so that what Cross left behind must  *)
(* be carried from there to the launch (Chosen); a session exists only        *)
(* between LiStartConnection and the end of LiStopConnection (Bracketed).     *)
EXTENDS Session, TLAPS

(* Since the list was set, a selection that is marked was made in this list.  *)
Marked ==
  main \in {"show_list", "wait_app", "selected"} /\ app_selection_confirmed => confirmed # NoApp

(* Nobody but the main thread shows the list: if it is still on screen after  *)
(* the wait, the wait ended because of a selection.                           *)
WaitedForChoice ==
  main = "selected" /\ ui_running /\ ui_state = "APPLIST" => app_selection_confirmed

(* Points of an attempt up to its list.                                       *)
Early == {"hv_init", "random", "hv_is_paired", "paired", "unpaired", "hv_pair", "pair_ok",
          "hv_get_info", "info_failed", "info_done", "hv_get_app_list", "set_app_list"}

(* A press of Cross is remembered until the next list, and nothing has been   *)
(* chosen when that is set.                                                   *)
Kept ==
  /\ main = "get_app" \/ app_id # NoApp => confirmed # NoApp
  /\ main \in Early => app_id = NoApp

Chosen == Marked /\ WaitedForChoice /\ Kept

(* Points of the main thread at which the streaming library may be at work.   *)
InLibrary == {"starting", "start_failed", "failing", "started", "wait", "established", "lost",
              "stream", "leave", "leaving", "exit", "exiting"}

Bracketed ==
  /\ reporting + async <= MaxReports
  /\ stage # "none" \/ reporting # 0 => main \in InLibrary

IInv == TypeOK /\ Chosen /\ Bracketed

-----------------------------------------------------------------------------
(* The tables.                                                                *)

(* What may follow a call of the main thread.                                 *)
LEMMA CallPoints ==
  ASSUME main \in DOMAIN Outcomes, main' \in Outcomes[main]
  PROVE  /\ main \in {"random", "hv_is_paired", "hv_pair", "hv_get_info", "hv_get_app_list",
                      "rikey", "hv_launch"}
         /\ main' \in {"hv_is_paired", "error", "paired", "unpaired", "pair_ok", "pair_failed",
                       "info_done", "info_failed", "set_app_list", "list_failed", "hv_launch",
                       "callbacks_init", "launch_failed"}
         /\ main' \in Early => main \in Early
BY DEF Outcomes, Early

(* What may follow a test of the screen.                                      *)
LEMMA TestPoints ==
  ASSUME main \in DOMAIN Tests
  PROVE  /\ main \in {"init_failed", "paired", "unpaired", "pair_failed", "pair_ok",
                      "info_failed", "info_done", "list_failed", "launch_failed"}
         /\ Tests[main] \in {"error", "pair_ok", "hv_pair", "pair_error", "hv_get_info",
                             "info_done", "hv_get_app_list"}
         /\ Tests[main] \in Early => main \in Early
BY DEF Tests, Early

(* What may follow a stop, and what a join returns to.                        *)
LEMMA StopPoints ==
  /\ DOMAIN Stops = {"start_failed", "leave", "exit"}
  /\ DOMAIN Joins = {"failing", "leaving", "exiting"}
  /\ \A m \in DOMAIN Stops : Stops[m] \in {"failing", "leaving", "exiting"}
  /\ \A m \in DOMAIN Joins : Joins[m] \in {"error", "menu", "ui_shutdown"}
BY DEF Stops, Joins

(* The points of the tables are points of the main thread.                    *)
LEMMA AllPoints ==
  Points = {"random", "hv_is_paired", "hv_pair", "hv_get_info", "hv_get_app_list", "rikey",
            "hv_launch", "init_failed", "paired", "unpaired", "pair_failed", "pair_ok",
            "info_failed", "info_done", "list_failed", "launch_failed", "start_failed", "leave",
            "exit", "failing", "leaving", "exiting", "loop", "hv_init", "pair_error", "error",
            "set_app_list", "show_list", "wait_app", "selected", "get_app", "callbacks_init",
            "start", "starting", "started", "wait", "established", "lost", "stream", "menu",
            "ui_shutdown", "ui_join", "done"}
BY DEF Points, Outcomes, Tests, Stops, Joins

(* The cursor stays in the list.                                              *)
LEMMA MovedInList ==
  ASSUME active_app_idx \in AppIdx, NEW step \in Nat
  PROVE  Moved(step) \in AppIdx
<1>1. AppCount \in Nat \ {0} /\ active_app_idx + step \in Nat
  BY SessionAssumption DEF AppIdx
<1>2. (active_app_idx + step) % AppCount \in 0 .. AppCount - 1
  BY <1>1
<1> QED BY <1>2 DEF Moved, AppIdx
(* Every initial state satisfies the invariant.                               *)
LEMMA InitInvariant == Init => IInv
<1> SUFFICES ASSUME Init PROVE IInv OBVIOUS
<1>1. TypeOK
  <2>1. /\ ui_running \in BOOLEAN /\ app_selection_confirmed \in BOOLEAN /\ cancelled \in BOOLEAN
        /\ alreadyTerminated \in BOOLEAN /\ ConnectionInterrupted \in BOOLEAN
    BY Zenon DEF Init
  <2>2. 0 \in AppIdx /\ 0 \in 0 .. MaxReports
    BY SessionAssumption DEF AppIdx
  <2> QED BY <2>1, <2>2, AllPoints DEF Init, TypeOK, Screens, NoApp
<1>2. Chosen /\ Bracketed
  BY SessionAssumption DEF Init, Chosen, Marked, WaitedForChoice, Kept, Early, Bracketed, InLibrary
<1> QED BY <1>1, <1>2 DEF IInv

(* A step of the main thread keeps the types.                                 *)
LEMMA MainTyped ==
  ASSUME TypeOK, MainStep
  PROVE  TypeOK'
<1> USE AllPoints, SessionAssumption DEF TypeOK, Screens, uiVars, liVars, NoApp
<1>1. CASE CallReturns
  BY <1>1, CallPoints DEF CallReturns
<1>2. CASE TestCancelled
  BY <1>2, TestPoints DEF TestCancelled
<1>3. CASE PairError
  BY <1>3 DEF PairError
<1>4. CASE Begin
  <2>1. cancelled' \in BOOLEAN
    BY <1>4, Zenon DEF Begin
  <2> QED BY <1>4, <2>1 DEF Begin
<1>5. CASE HvInit
  BY <1>5 DEF HvInit
<1>6. CASE SetState("error", "ERROR", "loop")
  BY <1>6 DEF SetState
<1>7. CASE SetAppList
  <2>1. app_selection_confirmed' \in BOOLEAN
    BY <1>7, Zenon DEF SetAppList
  <2>2. active_app_idx' \in AppIdx /\ confirmed' \in AppIdx \cup {NoApp}
    BY <1>7 DEF SetAppList, AppIdx
  <2> QED BY <1>7, <2>1, <2>2 DEF SetAppList
<1>8. CASE SetState("show_list", "APPLIST", "wait_app")
  BY <1>8 DEF SetState
<1>9. CASE SelectionOver
  BY <1>9 DEF SelectionOver
<1>10. CASE TestSelected
  BY <1>10 DEF TestSelected
<1>11. CASE GetSelectedApp
  BY <1>11 DEF GetSelectedApp
<1>12. CASE CallbacksInit
  BY <1>12 DEF CallbacksInit
<1>13. CASE LiStart
  <2>1. alreadyTerminated' \in BOOLEAN /\ ConnectionInterrupted' \in BOOLEAN
    BY <1>13, Zenon DEF LiStart
  <2> QED BY <1>13, <2>1 DEF LiStart
<1>14. CASE ControlStarted
  BY <1>14 DEF ControlStarted
<1>15. CASE StageFailed
  BY <1>15 DEF StageFailed
<1>16. CASE ConnectionStarted
  BY <1>16 DEF ConnectionStarted
<1>17. CASE SetState("started", "STREAMING", "wait")
  BY <1>17 DEF SetState
<1>18. CASE WaitOver
  BY <1>18 DEF WaitOver
<1>19. CASE TestEstablished
  BY <1>19 DEF TestEstablished
<1>20. CASE SetState("lost", "ERROR", "leave")
  BY <1>20 DEF SetState
<1>21. CASE StreamOver
  BY <1>21 DEF StreamOver
<1>22. CASE LiStop
  BY <1>22, StopPoints DEF LiStop
<1>23. CASE LiStopped
  BY <1>23, StopPoints DEF LiStopped
<1>24. CASE SetState("menu", "IP_ENTRY", "loop")
  BY <1>24 DEF SetState
<1>25. CASE LoopOver
  BY <1>25 DEF LoopOver
<1>26. CASE UiShutdown
  <2>1. ui_running' \in BOOLEAN
    BY <1>26, Zenon DEF UiShutdown
  <2> QED BY <1>26, <2>1 DEF UiShutdown
<1>27. CASE UiJoined
  BY <1>27 DEF UiJoined
<1> QED BY <1>1, <1>2, <1>3, <1>4, <1>5, <1>6, <1>7, <1>8, <1>9, <1>10, <1>11,
       <1>12, <1>13, <1>14, <1>15, <1>16, <1>17, <1>18, <1>19, <1>20, <1>21,
       <1>22, <1>23, <1>24, <1>25, <1>26, <1>27 DEF MainStep

(* So does a step of any other thread.                                        *)
LEMMA OthersTyped ==
  ASSUME TypeOK, Bracketed, Next, ~MainStep
  PROVE  TypeOK'
<1> USE AllPoints, SessionAssumption DEF TypeOK, Screens, uiVars, liVars, NoApp
<1>1. CASE ExitCombo
  BY <1>1 DEF ExitCombo, SetState
<1>2. CASE Report
  BY <1>2 DEF Report
<1>3. CASE Terminate
  <2>1. alreadyTerminated' \in BOOLEAN
    BY <1>3, Zenon DEF Terminate
  <2> QED BY <1>3, <2>1 DEF Terminate, Bracketed
<1>4. CASE ConnectionTerminated
  BY <1>4 DEF ConnectionTerminated
<1>5. CASE UiRead
  BY <1>5 DEF UiRead
<1>6. CASE UiIdle
  BY <1>6 DEF UiIdle
<1>7. CASE MainMenu
  BY <1>7 DEF MainMenu
<1>8. CASE BackToMenu
  BY <1>8 DEF BackToMenu
<1>9. CASE CancelPairing
  BY <1>9 DEF CancelPairing
<1>10. CASE AppList
  BY <1>10, MovedInList DEF AppList
<1>11. CASE OskDone
  BY <1>11 DEF OskDone
<1>12. CASE DialogClosed
  BY <1>12 DEF DialogClosed
<1>13. CASE ExitConfirmed
  <2>1. ui_running' \in BOOLEAN
    BY <1>13, Zenon DEF ExitConfirmed
  <2> QED BY <1>13, <2>1 DEF ExitConfirmed
<1>14. CASE ExitGame
  <2>1. ui_running' \in BOOLEAN /\ ConnectionInterrupted' \in BOOLEAN
    BY <1>14, Zenon DEF ExitGame
  <2> QED BY <1>14, <2>1 DEF ExitGame
<1> QED BY <1>1, <1>2, <1>3, <1>4, <1>5, <1>6, <1>7, <1>8, <1>9, <1>10, <1>11,
       <1>12, <1>13, <1>14 DEF Next, UiStep, Finished, vars

(* The library works only between the start and the end of the stop.          *)
LEMMA BracketStep ==
  ASSUME TypeOK, Bracketed, [Next]_vars
  PROVE  Bracketed'
<1> USE DEF TypeOK, Bracketed, InLibrary, uiVars, liVars
<1>1. CASE CallReturns
  BY <1>1, CallPoints DEF CallReturns
<1>2. CASE TestCancelled
  BY <1>2, TestPoints DEF TestCancelled
<1>3. CASE LiStop
  BY <1>3, StopPoints DEF LiStop
<1>4. CASE LiStopped
  BY <1>4, StopPoints DEF LiStopped
<1>5. CASE Report \/ Terminate \/ ConnectionTerminated
  BY <1>5, SessionAssumption DEF Report, Terminate, ConnectionTerminated
<1>6. CASE MainStep /\ ~CallReturns /\ ~TestCancelled /\ ~LiStop /\ ~LiStopped
  BY <1>6 DEF MainStep, PairError, Begin, HvInit, SetState, SetAppList, SelectionOver,
     TestSelected, GetSelectedApp, CallbacksInit, LiStart, ControlStarted, StageFailed,
     ConnectionStarted, WaitOver, TestEstablished, StreamOver, LoopOver, UiShutdown, UiJoined
<1>7. CASE UiStep \/ OskDone \/ DialogClosed \/ ExitConfirmed \/ ExitGame \/ ExitCombo
  BY <1>7 DEF UiStep, UiRead, UiIdle, MainMenu, BackToMenu, CancelPairing, AppList, OskDone,
     DialogClosed, ExitConfirmed, ExitGame, ExitCombo, SetState
<1>8. CASE UNCHANGED vars
  BY <1>8 DEF vars
<1> QED BY <1>1, <1>2, <1>3, <1>4, <1>5, <1>6, <1>7, <1>8 DEF Next, Finished

(* What Cross marked is carried to the launch.                                *)
LEMMA ChosenStep ==
  ASSUME TypeOK, Chosen, [Next]_vars
  PROVE  Chosen'
<1> USE DEF TypeOK, Chosen, Marked, WaitedForChoice, Kept, uiVars, liVars
<1>1. CASE CallReturns
  BY <1>1, CallPoints DEF CallReturns
<1>2. CASE TestCancelled
  <2>1. "loop" \notin Early
    BY DEF Early
  <2> QED BY <1>2, <2>1, TestPoints DEF TestCancelled
<1>3. CASE LiStop
  <2>1. main' \notin Early
    BY <1>3, StopPoints DEF LiStop, Early
  <2> QED BY <1>3, <2>1, StopPoints DEF LiStop
<1>4. CASE LiStopped
  <2>1. main' \notin Early
    BY <1>4, StopPoints DEF LiStopped, Early
  <2> QED BY <1>4, <2>1, StopPoints DEF LiStopped
<1>5. CASE AppList
  <2>1. NoApp \notin AppIdx
    BY SessionAssumption DEF NoApp, AppIdx
  <2>2. PICK move \in {0, 1, AppCount - 1}, cross \in BOOLEAN, circle \in BOOLEAN :
          /\ active_app_idx' = Moved(move)
          /\ app_selection_confirmed' = (~circle /\ (cross \/ app_selection_confirmed))
          /\ confirmed' = IF cross THEN active_app_idx' ELSE confirmed
          /\ ui_state' = IF circle THEN "IP_ENTRY" ELSE ui_state
          /\ cancelled' = (circle \/ cancelled)
    BY <1>5, Zenon DEF AppList
  <2>3. active_app_idx' \in AppIdx
    BY <2>2, MovedInList, SessionAssumption
  <2>4. main' = main /\ ui_running' = ui_running /\ app_id' = app_id
    BY <1>5 DEF AppList
  <2> QED BY <2>1, <2>2, <2>3, <2>4
<1>6. CASE MainStep /\ ~CallReturns /\ ~TestCancelled /\ ~LiStop /\ ~LiStopped
  BY <1>6 DEF MainStep, PairError, Begin, HvInit, SetState, SetAppList, SelectionOver,
     TestSelected, GetSelectedApp, CallbacksInit, LiStart, ControlStarted, StageFailed,
     ConnectionStarted, WaitOver, TestEstablished, StreamOver, LoopOver, UiShutdown, UiJoined,
     Early
<1>7. CASE (UiStep /\ ~AppList) \/ OskDone \/ DialogClosed \/ ExitConfirmed \/ ExitGame \/ ExitCombo
  BY <1>7 DEF UiStep, UiRead, UiIdle, MainMenu, BackToMenu, CancelPairing, OskDone,
     DialogClosed, ExitConfirmed, ExitGame, ExitCombo, SetState
<1>8. CASE Report \/ Terminate \/ ConnectionTerminated \/ UNCHANGED vars
  BY <1>8 DEF Report, Terminate, ConnectionTerminated, vars
<1> QED BY <1>1, <1>2, <1>3, <1>4, <1>5, <1>6, <1>7, <1>8 DEF Next, Finished

(* The invariant is inductive.                                                *)
LEMMA Invariance == Spec => []IInv
<1>1. IInv /\ [Next]_vars => IInv'
  <2> SUFFICES ASSUME IInv, [Next]_vars PROVE IInv' OBVIOUS
  <2>1. TypeOK'
    <3>1. CASE UNCHANGED vars
      BY <3>1 DEF IInv, TypeOK, vars, uiVars, liVars
    <3> QED BY <3>1, MainTyped, OthersTyped DEF IInv
  <2> QED BY <2>1, BracketStep, ChosenStep DEF IInv
<1> QED BY InitInvariant, <1>1, PTL DEF Spec

-----------------------------------------------------------------------------
(* Every variable of the session keeps its type.                              *)
THEOREM TypeCorrect == Spec => []TypeOK
<1>1. IInv => TypeOK
  BY DEF IInv
<1> QED BY Invariance, <1>1, PTL

(* No application is launched before Cross was pressed on this attempt's own  *)
(* list (main.c 229-268), for any number of applications and in whatever      *)
(* order the two threads write the screen, cancelled or not.                  *)
THEOREM LaunchConfirmed == Spec => []LaunchWasConfirmed
<1>1. IInv => LaunchWasConfirmed
  BY DEF IInv, Chosen, Kept, LaunchWasConfirmed
<1> QED BY Invariance, <1>1, PTL

(* Nothing of the streaming library runs outside an attempt, with any number  *)
(* of internal threads reporting at once.                                     *)
THEOREM NothingLeftRunning == Spec => []NoSessionInMenu
<1>1. IInv => NoSessionInMenu
  BY DEF IInv, Bracketed, InLibrary, NoSessionInMenu
<1> QED BY Invariance, <1>1, PTL
=============================================================================

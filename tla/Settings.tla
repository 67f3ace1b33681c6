------------------------------ MODULE Settings ------------------------------
(* The settings (ui.c): changed by the UI thread, marked dirty and saved      *)
(* later; the host typed on the system keyboard, saved by whichever thread    *)
(* polls the system's callbacks; the last flush, made by the main thread when *)
(* the program ends; and what the next start loads, after an exit or a power  *)
(* cut at any point.                                                          *)
(*                                                                            *)
(* Settings are a pair <<host, options>> of version numbers, <<0, 0>> being   *)
(* the defaults. A file holds a prefix of such a pair, as the keys are        *)
(* written in that order; an empty file is left by fopen.                     *)
EXTENDS Integers, Sequences

CONSTANTS MaxChanges,   \* bound: versions of the host, and of the options
          MaxFailures     \* bound: failed opens and writes, power cuts

ASSUME SettingsAssumption == MaxChanges \in Nat \ {0} /\ MaxFailures \in Nat

VARIABLES
  mem,          \* target_ip_str, ui_fps, ui_bitrate_idx, ...
  dirty,        \* ui_settings_dirty
  due,          \* the debounce time has passed since the last change
  primary,      \* the file CONFIG_PATH
  fallback,     \* config.ini in the working directory
  save,         \* per thread: where it is in ui_save_settings, in which file
  buf,          \* per thread: what it has printed so far
  screen, leaving,   \* menu or settings; the settings are being left
  osk,          \* the system keyboard: closed, open, done
  ui,           \* UI thread: running, stopping (ui_running is clear), ended
  main,         \* main thread: run, flush, stop, off
  failures,
  saved,        \* history: what the last save reported as saved
  intact        \* history: since a save that was alone, none has failed, was cut
                \* short or was made by both threads at once: yes, no, mending

files == <<primary, fallback>>
saver == <<save, buf>>
menu == <<screen, leaving, osk>>
threads == <<ui, main>>
confVars == <<mem, dirty, due, files, saver, menu, threads, failures, saved, intact>>

Threads == {"ui", "main"}
Defaults == <<0, 0>>
NoFile == <<-1>>
Empty == << >>

Idle(t) == save[t] = "idle"
Fails == failures < MaxFailures /\ failures' = failures + 1

-----------------------------------------------------------------------------
(* ui_save_settings, in either thread.                                        *)

Alone(t) == \A u \in Threads \ {t} : Idle(u)

(* The mark is removed before anything is written.                            *)
StartSave(t) ==
  /\ save' = [save EXCEPT ![t] = "open"]
  /\ buf' = [buf EXCEPT ![t] = << >>]
  /\ dirty' = FALSE /\ due' = FALSE
  /\ intact' = IF ~Alone(t) THEN "no" ELSE IF intact = "no" THEN "mending" ELSE intact

(* A file is truncated when it is opened. If neither can be, the settings are *)
(* not saved, and not marked again.                                           *)
Open(t) ==
  /\ save[t] = "open"
  /\ \/ /\ primary' = Empty
        /\ save' = [save EXCEPT ![t] = "primary"]
        /\ UNCHANGED <<fallback, failures, intact>>
     \/ /\ Fails
        /\ fallback' = Empty
        /\ save' = [save EXCEPT ![t] = "fallback"]
        /\ intact' = IF primary = NoFile THEN intact ELSE "no"
        /\ UNCHANGED primary
     \/ /\ Fails
        /\ save' = [save EXCEPT ![t] = "idle"]
        /\ intact' = "no"
        /\ UNCHANGED files
  /\ UNCHANGED <<mem, dirty, due, buf, menu, threads, saved>>

(* The host, then the options are printed, each as it is at that moment.      *)
Printing(t) == save[t] \in {"primary", "fallback"}

Print1(t) ==
  /\ Printing(t) /\ Len(buf[t]) < 2
  /\ buf' = [buf EXCEPT ![t] = Append(@, mem[Len(@) + 1])]
  /\ UNCHANGED <<mem, dirty, due, files, save, menu, threads, failures, saved, intact>>

(* fflush and fsync; their errors, and fclose's, are not looked at.           *)
Written(t, content) ==
  /\ primary' = IF save[t] = "primary" THEN content ELSE primary
  /\ fallback' = IF save[t] = "fallback" THEN content ELSE fallback

Sync(t) ==
  /\ Printing(t) /\ Len(buf[t]) = 2
  /\ \/ /\ Written(t, buf[t])
        /\ intact' = IF intact = "mending" /\ save[t] = "primary" THEN "yes" ELSE intact
        /\ UNCHANGED failures
     \/ /\ Fails
        /\ \E n \in 0 .. 1 : Written(t, SubSeq(buf[t], 1, n))
        /\ intact' = "no"
  /\ saved' = buf[t]
  /\ save' = [save EXCEPT ![t] = "idle"]
  /\ UNCHANGED <<mem, dirty, due, buf, menu, threads>>

-----------------------------------------------------------------------------
(* UI thread, between two saves of its own.                                   *)

UiFree == ui = "running" /\ Idle("ui") /\ ~leaving

(* The items of the settings menu: a value changes, and is marked.            *)
Change ==
  /\ UiFree /\ screen = "settings"
  /\ mem[2] < MaxChanges
  /\ mem' = [mem EXCEPT ![2] = @ + 1]
  /\ dirty' = TRUE /\ due' = FALSE
  /\ UNCHANGED <<files, saver, menu, threads, failures, saved, intact>>

(* 1.5 s have passed since the last change (SETTINGS_DEBOUNCE_US).            *)
Tick ==
  /\ dirty /\ ~due
  /\ due' = TRUE
  /\ UNCHANGED <<mem, dirty, files, saver, menu, threads, failures, saved, intact>>

(* Fault: the settings are saved in the background in the main menu only.     *)
DebounceInMenu ==
  /\ UiFree /\ dirty /\ due /\ screen = "menu"
  /\ StartSave("ui")
  /\ UNCHANGED <<mem, files, menu, threads, failures, saved>>

Debounce ==
  /\ UiFree /\ dirty /\ due
  /\ StartSave("ui")
  /\ UNCHANGED <<mem, files, menu, threads, failures, saved>>

EnterSettings ==
  /\ UiFree /\ screen = "menu" /\ osk = "closed"
  /\ screen' = "settings"
  /\ UNCHANGED <<mem, dirty, due, files, saver, leaving, osk, threads, failures, saved, intact>>

(* Fault: Circle leaves the settings without saving them.                     *)
LeaveUnsaved ==
  /\ UiFree /\ screen = "settings"
  /\ leaving' = TRUE
  /\ dirty' = FALSE
  /\ UNCHANGED <<mem, due, files, saver, screen, osk, threads, failures, saved, intact>>

(* Back and Circle save what is marked, then leave.                           *)
LeaveSettings ==
  /\ UiFree /\ screen = "settings"
  /\ leaving' = TRUE
  /\ IF dirty THEN StartSave("ui") ELSE UNCHANGED <<dirty, due, saver, intact>>
  /\ UNCHANGED <<mem, files, screen, osk, threads, failures, saved>>

Left ==
  /\ leaving /\ Idle("ui")
  /\ leaving' = FALSE /\ screen' = "menu"
  /\ UNCHANGED <<mem, dirty, due, files, saver, osk, threads, failures, saved, intact>>

OpenOsk ==
  /\ UiFree /\ screen = "menu" /\ osk = "closed"
  /\ osk' = "open"
  /\ UNCHANGED <<mem, dirty, due, files, saver, screen, leaving, threads, failures, saved, intact>>

UiEnds ==
  /\ ui = "stopping" /\ Idle("ui")
  /\ ui' = "ended"
  /\ UNCHANGED <<mem, dirty, due, files, saver, menu, main, failures, saved, intact>>

-----------------------------------------------------------------------------
(* The system keyboard: the user types a host or gives up, and the callback   *)
(* runs in the thread that polls next; it saves whether or not anything is    *)
(* marked.                                                                    *)

Type ==
  /\ osk = "open"
  /\ osk' \in {"done", "closed"}
  /\ UNCHANGED <<mem, dirty, due, files, saver, screen, leaving, threads, failures, saved, intact>>

Polls(t) == Idle(t) /\ IF t = "ui" THEN ui = "running" /\ ~leaving ELSE main = "run"

ui_osk_callback(t) ==
  /\ osk = "done" /\ Polls(t)
  /\ mem' = [mem EXCEPT ![1] = IF @ < MaxChanges THEN @ + 1 ELSE 0]
  /\ osk' = "closed"
  /\ StartSave(t)
  /\ UNCHANGED <<files, screen, leaving, threads, failures, saved>>

-----------------------------------------------------------------------------
(* The end of the program: ui_shutdown flushes, stops the UI thread and waits *)
(* for it.                                                                    *)

ExitRequested ==
  /\ main = "run" /\ Idle("main")
  /\ main' = "flush"
  /\ UNCHANGED <<mem, dirty, due, files, saver, menu, ui, failures, saved, intact>>

ShutdownFlush ==
  /\ main = "flush"
  /\ main' = "stop"
  /\ IF dirty THEN StartSave("main") ELSE UNCHANGED <<dirty, due, saver, intact>>
  /\ UNCHANGED <<mem, files, menu, ui, failures, saved>>

UiStop ==
  /\ main = "stop" /\ Idle("main") /\ ui = "running"
  /\ ui' = "stopping"
  /\ UNCHANGED <<mem, dirty, due, files, saver, menu, main, failures, saved, intact>>

Joined ==
  /\ main = "stop" /\ ui = "ended"
  /\ main' = "off"
  /\ UNCHANGED <<mem, dirty, due, files, saver, menu, ui, failures, saved, intact>>

(* ui_load_settings takes the first file there is; a key it lacks keeps its   *)
(* default.                                                                   *)
Keys(file) == <<IF Len(file) >= 1 THEN file[1] ELSE 0, IF Len(file) = 2 THEN file[2] ELSE 0>>

(* Fault: the file in the working directory is looked for first.              *)
FallbackFirst(first, second) ==
  IF second # NoFile THEN Keys(second) ELSE IF first # NoFile THEN Keys(first) ELSE Defaults

Load(first, second) ==
  IF first # NoFile THEN Keys(first) ELSE IF second # NoFile THEN Keys(second) ELSE Defaults

Loaded == Load(primary, fallback)

Starts(loaded) ==
  /\ mem' = loaded /\ dirty' = FALSE /\ due' = FALSE
  /\ save' = [t \in Threads |-> "idle"] /\ buf' = [t \in Threads |-> << >>]
  /\ screen' = "menu" /\ leaving' = FALSE /\ osk' = "closed"
  /\ ui' = "running" /\ main' = "run"

Restart ==
  /\ main = "off"
  /\ Starts(Loaded)
  /\ saved' = Loaded /\ intact' = "yes"
  /\ UNCHANGED <<files, failures>>

(* A power cut leaves any part of what was being written.                     *)
Parts(t) == {SubSeq(buf[t], 1, n) : n \in 0 .. Len(buf[t])}
AfterCut(file, name) == {file} \cup UNION {Parts(t) : t \in {t \in Threads : save[t] = name}}

PowerLoss ==
  /\ Fails
  /\ \E first \in AfterCut(primary, "primary"), second \in AfterCut(fallback, "fallback") :
       /\ primary' = first /\ fallback' = second
       /\ Starts(Load(first, second))
  /\ intact' = IF \A t \in Threads : Idle(t) THEN intact ELSE "no"
  /\ UNCHANGED saved

Saving(t) == Open(t) \/ Print1(t) \/ Sync(t)
UiWork == Debounce \/ Left \/ UiEnds \/ Saving("ui")
MainWork == ShutdownFlush \/ UiStop \/ Joined \/ Saving("main")

ConfNext ==
  \/ UiWork \/ MainWork \/ Tick
  \/ Change \/ EnterSettings \/ LeaveSettings \/ OpenOsk \/ Type
  \/ \E t \in Threads : ui_osk_callback(t)
  \/ ExitRequested \/ Restart \/ PowerLoss

ConfInit ==
  /\ mem = Defaults /\ dirty = FALSE /\ due = FALSE
  /\ primary = NoFile /\ fallback = NoFile
  /\ save = [t \in Threads |-> "idle"] /\ buf = [t \in Threads |-> << >>]
  /\ screen = "menu" /\ leaving = FALSE /\ osk = "closed"
  /\ ui = "running" /\ main = "run"
  /\ failures = 0 /\ saved = Defaults /\ intact = "yes"

(* Both threads run on, time passes, and a pause ends.                        *)
ConfSpec == ConfInit /\ [][ConfNext]_confVars
FairConfSpec == ConfSpec /\ WF_confVars(UiWork) /\ WF_confVars(MainWork) /\ WF_confVars(Tick)

-----------------------------------------------------------------------------
(* What the last save reported as saved is what the next start loads, after   *)
(* an exit or a power cut between two saves, also when CONFIG_PATH could never*)
(* be opened and the file in the working directory was used.                  *)
SavedIsLoaded ==
  intact = "yes" /\ (\A t \in Threads : Idle(t)) => Loaded = saved

(* While the program runs, settings that are not marked for saving are saved: *)
(* the mark is never removed from a change that a save has not seen, whichever*)
(* thread made it.                                                            *)
CleanIsSaved ==
  intact = "yes" /\ ~dirty /\ main = "run" /\ (\A t \in Threads : Idle(t)) => saved = mem

(* A change that is marked reaches the file the next start loads, it or a     *)
(* newer one, unless something fails first: while the user remains in the     *)
(* settings, when they are left and when the program ends, whichever thread   *)
(* removes the mark, and although it is removed before anything is written    *)
(* (ui.c, ui_save_settings).                                                  *)
ChangeIsSaved ==
  \A v \in 1 .. MaxChanges, f \in 0 .. MaxFailures :
    dirty /\ mem[2] = v /\ failures = f /\ main \in {"run", "flush"}
      ~> Loaded[2] >= v \/ failures > f

(* "Flush settings" of ui_shutdown: the program ends with all changes saved.  *)
ExitKeepsChanges == main = "off" => ~dirty

(* Two threads that save at once leave what is in memory.                     *)
OverlapHarmless ==
  failures = 0 /\ ~dirty /\ main = "run" /\ (\A t \in Threads : Idle(t)) => Loaded = mem

(* A save that is reported ("Saved settings to disk") is what the next start  *)
(* loads.                                                                     *)
SaveIsFound ==
  [][\A t \in Threads : Sync(t) /\ UNCHANGED failures => Loaded' = saved']_confVars
=============================================================================

---------------------------- MODULE KioskWatchdog ---------------------------
(***************************************************************************)
(* The engine's watchdog over the kiosk page.  The page beats about every  *)
(* five seconds; every ten seconds the watchdog looks how long it has been *)
(* silent, and restarts Chromium after 45 seconds, but not within a minute *)
(* of the last restart.  After a restart it waits for a first beat.        *)
(*                                                                         *)
(* Time passes in units of five seconds.  A beat may come between the look *)
(* and the restart it leads to; calls take no time of their own.           *)
(***************************************************************************)
EXTENDS Integers

CONSTANTS
  StaleAfter,      \* STALE_AFTER_SECONDS,     in units
  CheckInterval,   \* CHECK_INTERVAL_SECONDS,  in units
  RestartGap,      \* MIN_RESTART_GAP_SECONDS, in units
  MaxPause,        \* bound: the longest pause between two beats of a live page
  MaxDeaths        \* bound: crashes of the page

ASSUME WatchdogAssumption ==
  /\ StaleAfter \in Nat \ {0} /\ CheckInterval \in Nat \ {0} /\ RestartGap \in Nat
  /\ MaxPause \in Nat /\ MaxPause < StaleAfter /\ MaxDeaths \in Nat

VARIABLES
  page,        \* the kiosk page: starting, alive or dead
  silence,     \* units since the last beat, NoBeat when it is forgotten
  gap,         \* units since the last restart, at first since boot
  untilCheck,  \* units until the next look
  decided,     \* the look has found the page silent
  deadFor,     \* history: units since the page died
  seen,        \* history: a page has beaten since the last restart
  deaths

watchdogVars == <<page, silence, gap, untilCheck, decided, deadFor, seen, deaths>>
-----------------------------------------------------------------------------
NoBeat  == -1
Longer(a, b) == IF a > b THEN a ELSE b
Longest == Longer(StaleAfter, RestartGap) + CheckInterval   \* caps every age

Older(age) == IF age < Longest THEN age + 1 ELSE age

WatchdogTypeOK ==
  /\ page \in {"starting", "alive", "dead"}
  /\ silence \in {NoBeat} \cup 0..Longest /\ gap \in 0..Longest
  /\ untilCheck \in 0..CheckInterval /\ decided \in BOOLEAN
  /\ deadFor \in 0..Longest + 1 /\ deaths \in 0..MaxDeaths
  /\ seen \in BOOLEAN

WatchdogInit ==
  /\ page = "starting" /\ silence = NoBeat /\ gap = 0
  /\ untilCheck = CheckInterval /\ decided = FALSE
  /\ deadFor = 0 /\ seen = FALSE /\ deaths = 0

(* The page is loaded, or beats again. *)
Beat ==
  /\ page \in {"starting", "alive"} /\ page' = "alive" /\ silence' = 0
  /\ seen' = TRUE
  /\ UNCHANGED <<gap, untilCheck, decided, deadFor, deaths>>

(* The renderer crashes; before the first beat nobody would notice. *)
PageDies ==
  /\ page \in {"starting", "alive"} /\ deaths < MaxDeaths /\ deaths' = deaths + 1
  /\ page' = "dead" /\ deadFor' = 0
  /\ UNCHANGED <<silence, gap, untilCheck, decided, seen>>

(* Chromium itself exits and the autostart loop launches it again. *)
BrowserExits ==
  /\ deaths < MaxDeaths /\ deaths' = deaths + 1
  /\ page' = "starting" /\ deadFor' = 0
  /\ UNCHANGED <<silence, gap, untilCheck, decided, seen>>

Tick ==
  /\ untilCheck > 0 /\ ~decided
  /\ page = "alive" => silence < MaxPause
  /\ untilCheck' = untilCheck - 1
  /\ silence' = IF silence = NoBeat THEN NoBeat ELSE Older(silence)
  /\ gap' = Older(gap)
  /\ deadFor' = IF page = "dead" /\ deadFor <= Longest THEN deadFor + 1 ELSE deadFor
  /\ UNCHANGED <<page, decided, seen, deaths>>

(* Mutated form: the time of the restart is taken before the cooldown. *)
CheckStartsGap ==
  /\ untilCheck = 0 /\ untilCheck' = CheckInterval
  /\ decided' = (silence # NoBeat /\ silence >= StaleAfter /\ gap >= RestartGap)
  /\ gap' = IF silence # NoBeat /\ silence >= StaleAfter THEN 0 ELSE gap
  /\ UNCHANGED <<page, silence, deadFor, seen, deaths>>

(* _check, as far as the decision to restart. *)
Check ==
  /\ untilCheck = 0 /\ untilCheck' = CheckInterval
  /\ decided' = (silence # NoBeat /\ silence >= StaleAfter /\ gap >= RestartGap)
  /\ gap' = IF decided' THEN 0 ELSE gap
  /\ UNCHANGED <<page, silence, deadFor, seen, deaths>>

(* Mutated form: the last beat of the old page is kept. *)
RestartKeepsBeat ==
  /\ decided /\ decided' = FALSE
  /\ page' = "starting" /\ seen' = FALSE /\ deadFor' = 0
  /\ UNCHANGED <<silence, gap, untilCheck, deaths>>

(* pkill; the autostart loop launches a new page, and its first beat is   *)
(* awaited.                                                               *)
RestartKiosk ==
  /\ decided /\ decided' = FALSE
  /\ page' = "starting" /\ silence' = NoBeat /\ seen' = FALSE /\ deadFor' = 0
  /\ UNCHANGED <<gap, untilCheck, deaths>>

WatchdogNext ==
  Beat \/ PageDies \/ BrowserExits \/ Tick \/ Check \/ RestartKiosk

WatchdogSpec == WatchdogInit /\ [][WatchdogNext]_watchdogVars
-----------------------------------------------------------------------------
(* A page is restarted only if it, or the one it followed without the    *)
(* watchdog's doing, was seen and has been silent for 45 seconds: not     *)
(* while it still loads after the watchdog's own restart, however long    *)
(* that takes, and not while it beats, but for the very moment between    *)
(* look and restart.                                                      *)
LivePageSpared == decided => seen /\ (page = "alive" => silence = 0)

(* A page that died after it had been seen is restarted within 70 seconds *)
(* (the longer of staleness and cooldown, and one interval).              *)
DeadPageRestarted == page = "dead" /\ silence # NoBeat => deadFor <= Longest
=============================================================================

-------------------------- MODULE MCTimerScheduler --------------------------
(* TimerScheduler with two requests, enough for one to overtake the other  *)
(* in the heap and for two to be due in one call of check_timers.           *)
EXTENDS TimerScheduler

MCDelays == {0, 1, 3}
=============================================================================

---------------------------- MODULE MCCronClock ----------------------------
(* CronClock on a small instance: the node refresh may take longer than    *)
(* its interval, and the loop has time to sleep when it does not.          *)
EXTENDS CronClock, TLC

TheIntervals == ("cleanup" :> 2) @@ ("pods" :> 3) @@ ("nodes" :> 1)

TheDurations == ("cleanup" :> 1) @@ ("pods" :> 0) @@ ("nodes" :> 2)
=============================================================================

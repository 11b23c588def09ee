----------------------------- MODULE MCWinWorker -----------------------------
(* One thread that posts beside the worker itself, two jobs that they post    *)
(* again and again, a queue of two, one timer beside the reactor's, which is   *)
(* due when the worker starts, and one more tick of the clock.               *)
EXTENDS WinWorker

CONSTANTS p1, w, none, j1, j2

MCPosters == {p1}
MCJobs == {j1, j2}
MCTimerIds == {1}
MCIntervals == {1}
=============================================================================

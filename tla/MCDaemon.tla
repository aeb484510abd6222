------------------------------ MODULE MCDaemon ------------------------------
(* Threads for checking Daemon with TLC: the loop of LEDs, the only one that *)
(* enqueues, and a test's thread.                                            *)
EXTENDS Daemon

MCLoopThreads == {"leds"}
MCCallers == {"test"}
MCNoCallers == {}

=============================================================================

--------------------------- MODULE MCTimerManager ---------------------------
\* Two timers with a period of two ticks on a counter of five, and at most one
\* tick between two runs: timers wrap, fire together and release each other.
EXTENDS TimerManager
=============================================================================

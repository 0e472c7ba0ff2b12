---------------------------- MODULE MCRingQueue -----------------------------
\* A ring of three elements, pushed and emptied by up to four at a time, so
\* that every operation wraps, overfills and overdraws.
EXTENDS RingQueue
=============================================================================

---------------------------- MODULE MCWebStream -----------------------------
\* One console over a log of two events, four events to a life.
EXTENDS WebStream
=============================================================================

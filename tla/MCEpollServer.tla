---- MODULE MCEpollServer ----
(* EpollServer for TLC. *)
EXTENDS EpollServer

\* A connection at rest, one that each thread is admitting, and a node that
\* has been freed while the worker still holds it in events[].
MCCells == 1 .. 4
MCFewCells == 1 .. 3
====

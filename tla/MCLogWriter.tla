----------------------------- MODULE MCLogWriter -----------------------------
(* A small instance of LogWriter: two handlers, a channel of two entries,  *)
(* batches of two.  Five entries can overflow the channel, fill a batch    *)
(* and leave one that only the timer or the drain flushes.                 *)
EXTENDS LogWriter

CONSTANTS h1, h2

TwoHandlers == {h1, h2}
=============================================================================

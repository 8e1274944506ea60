---------------------------- MODULE MCEngineLoop ----------------------------
(***************************************************************************)
(* The main loop with one other thread that sends.  Three events and two   *)
(* SDL events are enough for a pump, a callback and the other thread to    *)
(* meet in both pools; two layers and two windows are enough for each to   *)
(* be replaced while something for the old one is under way.               *)
(***************************************************************************)
EXTENDS EngineLoop

CONSTANTS main, worker

MCSenders == {main, worker}

\* An event of each kind, for each window where that matters: quit, close, and
\* a type that may come empty.
MCSdlEvents ==
  [type : {"WINDOW_CLOSE_REQUESTED"}, windowID : 1..2, data : {TRUE}]
  \cup [type : {"TEXT_INPUT"}, windowID : {1}, data : {TRUE}]
  \cup [type : {"QUIT"}, windowID : {1}, data : {TRUE}]

\* Asking a window to close that may have been replaced.
MCAppEvents == {[type |-> "WindowClose", window |-> 1]}
=============================================================================

----------------------------- MODULE MCLogServer -----------------------------
(***************************************************************************)
(* LogServer on small instances.                                           *)
(***************************************************************************)
EXTENDS LogServer

CONSTANTS game, editor,   \* engine processes
          kenzo           \* a TUI client
=============================================================================

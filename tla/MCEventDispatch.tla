--------------------------- MODULE MCEventDispatch ---------------------------
(***************************************************************************)
(* EventDispatch on small instances.                                       *)
(***************************************************************************)
EXTENDS EventDispatch

CONSTANTS KeyPress, Resize,   \* event types
          player, camera,     \* listeners
          unnamed             \* the name of a callback that was given none
=============================================================================

--------------------------- MODULE MCControlPlane ---------------------------
(***************************************************************************)
(* ControlPlane on small instances.  Two keys and two entries let two      *)
(* callbacks match one message, or one of them; two slots let the queue be *)
(* full in front of EXIT_REQUESTED.                                        *)
(***************************************************************************)
EXTENDS ControlPlane
=============================================================================

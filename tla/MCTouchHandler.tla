-------------------------- MODULE MCTouchHandler ---------------------------
(* The overlay and one mimgui renderer. *)
EXTENDS TouchHandler

MCChain == <<"overlay", "renderer">>
============================================================================

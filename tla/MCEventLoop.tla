---------------------------- MODULE MCEventLoop ----------------------------
(* EventLoop with a descriptor for the listener and for all peers but one, *)
(* so that descriptors run out and are handed out again.                   *)
EXTENDS EventLoop
=============================================================================

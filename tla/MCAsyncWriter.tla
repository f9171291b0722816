---------------------------- MODULE MCAsyncWriter ----------------------------
(* Two application threads that write and wait against each other.         *)
EXTENDS AsyncWriter
=============================================================================

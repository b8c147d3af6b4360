---------------------------- MODULE MCRemotePage ----------------------------
(***************************************************************************)
(* Three effects of one tab over two devices and two sessions: a page that *)
(* is left and come back to, with another one in between.                  *)
(***************************************************************************)
EXTENDS RemotePage
=============================================================================

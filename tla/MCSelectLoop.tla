---------------------------- MODULE MCSelectLoop ----------------------------
(***************************************************************************)
(* SelectLoop for TLC.  A SIP message is longer than a command, and both   *)
(* sockets get texts of two lengths, so that each can leave a tail behind. *)
(***************************************************************************)
EXTENDS SelectLoop

MCSipDatagrams == {<<"s", EOL>>, <<"i", EOL, "p", EOL, EOL>>}

MCClientDatagrams == {<<"u", EOL>>, <<"u", "a", EOL>>}
=============================================================================

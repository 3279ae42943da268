---------------------------- MODULE MCChatStream ----------------------------
(***************************************************************************)
(* Instances of ChatStream for TLC: one mishap of each kind, and a lost    *)
(* request after the void session, whose reset makes the pane send it.     *)
(***************************************************************************)
EXTENDS ChatStream

AllCourses   == {<<"void", "request">>, <<"crash">>, <<"drop">>, <<"unmount">>}
=============================================================================

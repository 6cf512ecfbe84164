----------------------------- MODULE MCUiServer -----------------------------
(***************************************************************************)
(* Three clients that come in any order: all of them may ask for a         *)
(* provider, one more than there are admissions, and one may ask for       *)
(* anything.                                                               *)
(***************************************************************************)
EXTENDS UiServer

MCAsks(c) ==
    IF c = "c3" THEN Requests ELSE {"provider"}
=============================================================================

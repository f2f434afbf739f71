------------------------------- MODULE MCScreens -------------------------------
(* All screens.                                                              *)
EXTENDS Screens
AllScreens == DOMAIN Screenful
=============================================================================

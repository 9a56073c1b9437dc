----------------------------- MODULE MCScreens ------------------------------
(* The handler changes the server twice.                                    *)
EXTENDS Screens
=============================================================================

---------------------------- MODULE MCNavigation ----------------------------
(* One account of each role, who may share a browser tab                    *)
EXTENDS Navigation
=============================================================================

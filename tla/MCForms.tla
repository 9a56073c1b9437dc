------------------------------- MODULE MCForms -------------------------------
(* Two records, two texts, and the button pressed twice.                    *)
EXTENDS Forms
=============================================================================

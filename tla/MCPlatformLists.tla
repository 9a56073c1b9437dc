-------------------------- MODULE MCPlatformLists ---------------------------
(* Two settings of the filters, two pages of the audit log                  *)
EXTENDS PlatformLists
=============================================================================

---------------------------- MODULE MCHttpClient ----------------------------
(* Two accounts that share a browser, and the calls of its pages.          *)
EXTENDS HttpClient
=============================================================================

------------------------------- MODULE HttpServer -------------------------------
(***************************************************************************)
(* What the components that handle requests share: the HTTP requests that  *)
(* may be in flight at once, each of which a handler may leave between two *)
(* statements, and the value of a column that is not set.                  *)
(***************************************************************************)

CONSTANTS Requests, NULL

===============================================================================

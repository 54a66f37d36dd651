---------------------------- MODULE MCLifecycle ----------------------------
(* Two connections, two of the three background loops (they share one     *)
(* control: check background_running_, body, sleep) and two requests, so  *)
(* one connection can be accepted during start() and one after it, and a   *)
(* request can wait while stop() runs.                                     *)
EXTENDS Lifecycle
====

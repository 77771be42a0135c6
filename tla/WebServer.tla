------------------------------- MODULE WebServer ------------------------------
(***************************************************************************)
(* The routes wifi_setup() gives the AsyncWebServer (src/src/wifi.cpp) and *)
(* what a client of the API in docs/json-api.md gets from them.            *)
(***************************************************************************)
CONSTANTS Documented,   \* the endpoints of docs/json-api.md
          Restart,      \* /api/restart
          Elsewhere     \* any other path

VARIABLES path, status, restart

vars == <<path, status, restart>>

Init == path = Elsewhere /\ status = "none" /\ restart = FALSE

(* server.on("/api/restart", ...): answered before the main loop restarts. *)
onRestartRequest ==
  /\ path' = Restart
  /\ restart' = TRUE
  /\ status' = "ok"

(* Every other path, documented or not.                                    *)
onNotFoundRequest(p) ==
  /\ p # Restart
  /\ path' = p
  /\ status' = "not found"
  /\ UNCHANGED restart

Next == onRestartRequest \/ \E p \in Documented \cup {Elsewhere} : onNotFoundRequest(p)

Spec == Init /\ [][Next]_vars

(* docs/json-api.md: every endpoint it lists can be read.                  *)
DocumentedIsServed == path \in Documented => status = "ok"
===============================================================================

---------------------------- MODULE SecureChannel ----------------------------
(***************************************************************************)
(* What a host session promises to the services above it, without bus,     *)
(* retries, counters or MACs: a protected command is accepted by the       *)
(* secure element at most once per call, however often its frame is sent,  *)
(* and a call that reports success had its command accepted in that call.  *)
(* A call may report a failure although its command was accepted: the      *)
(* answer can be lost.                                                     *)
(***************************************************************************)
EXTENDS Naturals

VARIABLES busy,      \* a protected call is under way
          accepted,  \* how often the secure element accepted its command
          outcome    \* what the last call reported

channelVars == <<busy, accepted, outcome>>

Outcomes == {"none", "pending", "ok", "failed"}

Init == /\ busy = FALSE
        /\ accepted = 0
        /\ outcome = "none"

\* A protected call starts.
Begin == /\ ~busy
         /\ busy' = TRUE
         /\ accepted' = 0
         /\ outcome' = "pending"

\* The secure element verifies and accepts the command, once.
Accept == /\ busy
          /\ accepted = 0
          /\ accepted' = 1
          /\ UNCHANGED <<busy, outcome>>

\* The call returns; success needs an acceptance.
Finish == /\ busy
          /\ busy' = FALSE
          /\ outcome' \in {"ok", "failed"}
          /\ outcome' = "ok" => accepted = 1
          /\ UNCHANGED accepted

\* The host restarts, or does something that is not a protected call.
Leave == /\ busy' = FALSE
         /\ accepted' = 0
         /\ outcome' \in {"none", "failed"}

Next == Begin \/ Accept \/ Finish \/ Leave

Spec == Init /\ [][Next]_channelVars
=============================================================================

---------------------------- MODULE MCHostSession ----------------------------
(***************************************************************************)
(* A small instance of HostSession: two sessions on one secure element and *)
(* one command of each kind of protection.  The counter has 4 values on    *)
(* the wire of the A110 and 8, the whole host word, on the A120.           *)
(***************************************************************************)
EXTENDS HostSession, TLC

CONSTANTS plain, mac, wrap, header, s1, s2

MCCommands == {plain, mac, wrap, header}
MCHeaderOnly == {header}
MCPerso ==
    (plain :> [ac |-> "FREE", cmd_enc |-> FALSE, rsp_enc |-> FALSE]) @@
    (mac :> [ac |-> "HOST", cmd_enc |-> FALSE, rsp_enc |-> FALSE]) @@
    (wrap :> [ac |-> "HOST", cmd_enc |-> TRUE, rsp_enc |-> TRUE]) @@
    (header :> [ac |-> "HOST", cmd_enc |-> FALSE, rsp_enc |-> FALSE])
MCDeviceTypes == {"STSAFE_A110", "STSAFE_A120"}
MCWireModulus == [d \in MCDeviceTypes |-> IF d = "STSAFE_A120" THEN 8 ELSE 4]
=============================================================================

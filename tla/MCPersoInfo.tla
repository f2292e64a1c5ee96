----------------------------- MODULE MCPersoInfo -----------------------------
(***************************************************************************)
(* PersoInfo with four codes, the last of them the prefix of the extended  *)
(* commands, and every table of up to two records in any order.            *)
(***************************************************************************)
EXTENDS PersoInfo

Plain(code, AC, cmd, rsp) ==
    [header |-> code, extended_header |-> 0, AC |-> AC, cmd |-> cmd, rsp |-> rsp]
Extended(code, AC, cmd, rsp) ==
    [header |-> Prefix, extended_header |-> code, AC |-> AC, cmd |-> cmd, rsp |-> rsp]

\* Every access condition, and either encryption flag.
Settings == {<<AC, 0, 0>> : AC \in AccessConditions}
            \cup {<<HOST, 1, 0>>, <<FREE, 0, 1>>}
MCRecords == {Plain(c, s[1], s[2], s[3]) : c \in 0..2, s \in Settings}
             \cup {Extended(c, s[1], s[2], s[3]) : c \in 0..1, s \in Settings}
SameCommand(r, s) == FamilyOf(r) = FamilyOf(s) /\ CodeOf(r) = CodeOf(s)
MCTables == {<<r>> : r \in MCRecords}
            \cup {<<p[1], p[2]>> : p \in {q \in MCRecords \X MCRecords :
                                           ~SameCommand(q[1], q[2])}}

\* One record is enough to show a divergence.
MCFreeZone == {<<Plain(1, FREE, 0, 0)>>}
MCHashOnly == {<<Extended(0, HOST, 0, 0)>>}
=============================================================================

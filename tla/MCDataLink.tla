------------------------------ MODULE MCDataLink ------------------------------
(***************************************************************************)
(* DataLink with calls of both families: whole, in chunks and beyond the   *)
(* end of the zone, lengths and amounts that do not fit their field, a     *)
(* zone index that does not fit a byte, and length fields that wrap, are   *)
(* too short or too long.                                                  *)
(***************************************************************************)
EXTENDS DataLink

Args(op, family, offset, length) ==
    [op |-> op, family |-> family, zone |-> 0, offset |-> offset, length |-> length,
     chunk |-> 0, amount |-> 1, version |-> "new", atomic |-> FALSE,
     protection |-> "NO_PROT"]

MCCalls ==
    {[Args("read", "A", 0, 3) EXCEPT !.chunk = 2],
     [Args("read", "A", 1, 4) EXCEPT !.chunk = 1],
     [Args("read", "A", 0, 1) EXCEPT !.protection = "C_WRAP"],
     Args("read", "L", 0, 2),
     [Args("read_counter", "L", 0, 2) EXCEPT !.chunk = 1],
     [Args("read_counter", "A", 2, 1) EXCEPT !.zone = 4],
     Args("update", "A", 0, 4),
     Args("update", "A", 1, 2),
     Args("update", "L", 1, 2),
     [Args("change_update", "A", 0, 3) EXCEPT !.atomic = TRUE],
     Args("change_read", "L", 0, 0),
     Args("decrement", "A", 0, 4),
     [Args("decrement", "A", 0, 3) EXCEPT !.amount = 2, !.protection = "C_MAC_R_MAC"],
     [Args("decrement", "L", 0, 3) EXCEPT !.amount = 2]}
===============================================================================

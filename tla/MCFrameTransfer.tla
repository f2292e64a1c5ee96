--------------------------- MODULE MCFrameTransfer ---------------------------
(***************************************************************************)
(* FrameTransfer with response frames of one to three elements, answers    *)
(* shorter, equal and longer than them, and a damaged length field that    *)
(* wraps, is too short, payload-less, too long or beyond the maximum.      *)
(***************************************************************************)
EXTENDS FrameTransfer

Header == Element("header", 1)
Short == <<Header, Element("input", 2)>>
TooLong == <<Header, Element("input", 8)>>

MCRequests ==
    {[cmd |-> Short, rsp |-> <<Header>>],
     [cmd |-> Short, rsp |-> <<Header, Element("a", 2)>>],
     [cmd |-> <<Header>>, rsp |-> <<Header, Element("a", 1), Element("b", 2)>>],
     [cmd |-> TooLong, rsp |-> <<Header>>]}
MCAnswers == [status : Statuses, payload : {0, 1, 3, 5}]
=============================================================================

-------------------------------- MODULE Frames --------------------------------
(***************************************************************************)
(* Frames (stse_frame.c): the list of elements a service owns and lends to *)
(* a transfer.  An element is a name and a length; the length of a frame   *)
(* is kept beside its elements in a PLAT_UI16 and does not always agree    *)
(* with them.                                                              *)
(***************************************************************************)
EXTENDS Naturals, SequencesExt

CONSTANT Word            \* 2^(bits of a PLAT_UI16)

Element(name, length) == [name |-> name, length |-> length]

TotalLength(elements) ==
    LET upto[i \in 0..Len(elements)] ==
            IF i = 0 THEN 0 ELSE upto[i - 1] + elements[i].length
    IN upto[Len(elements)]
Frame(elements) == [elements |-> elements, length |-> TotalLength(elements) % Word]

Push(f, e) == [elements |-> Append(f.elements, e),
               length |-> (f.length + e.length) % Word]
Pop(f) == IF Len(f.elements) > 1
          THEN [elements |-> Front(f.elements),
                length |-> (f.length + Word - Last(f.elements).length) % Word]
          ELSE [elements |-> << >>, length |-> 0]

\* Popping while there is more than one element.
HeaderOnly(f) ==
    [elements |-> <<Head(f.elements)>>,
     length |-> (f.length + Word - (TotalLength(Tail(f.elements)) % Word)) % Word]

\* Frames whose elements have names of the given ones.
ElementsOf(names) == [name : names, length : 0..(Word - 1)]
FramesOf(names) == [elements : Seq(ElementsOf(names)), length : 0..(Word - 1)]

CRC == Element("crc", 2)
Filler(n) == Element("filler", n)

\* The part of a payload that an element received.
Slice(from, n) == [from |-> from, n |-> n]
===============================================================================

----------------------------- MODULE ServiceFrames -----------------------------
(***************************************************************************)
(* How the STSAFE-A services describe what they lend to a transfer: the    *)
(* elements of a command and of its answer, with the length each one       *)
(* announces and the room the caller's buffer really has.                  *)
(***************************************************************************)
EXTENDS Frames

CONSTANTS Byte,           \* 2^(bits of a PLAT_UI8)
          EccInfo,        \* stse_ecc_info_table, by key type
          KeyTypes,       \* the key types before STSE_ECC_KT_INVALID
          HashIdLength    \* the length a hash identifier announces, by algorithm

(* Arguments                                                               *)

\* A buffer: its pointer, and the length that is passed with it.
Null == [null |-> TRUE, length |-> 0]
Buffer(n) == [null |-> FALSE, length |-> n]
Mismatched(b) == b.null # (b.length = 0)

(* Elements                                                                *)

Part(name, length, room, null) ==
    [name |-> name, length |-> length, room |-> room, null |-> null,
     says |-> 0, of |-> {}]

\* A variable of the service; a buffer of the caller with its own length; one
\* with the length of another argument.
Fixed(name, n) == Part(name, n, n, FALSE)
From(name, b) == Part(name, b.length, b.length, b.null)
Lent(name, n, b) == Part(name, n, n, b.null)

\* Two bytes that announce the length of other elements: written high byte
\* first, or as the host (little endian) keeps its PLAT_UI16, to be swapped.
Swapped(n) == ((n % Byte) * Byte) + (n \div Byte)
BigEndian(of, n) == [Fixed("length", 2) EXCEPT !.says = n % Word, !.of = of]
HostOrder(of, n) == BigEndian(of, Swapped(n))
SwapNone(e) == e
Swap(e) == [e EXCEPT !.says = Swapped(e.says)]
OneByte(of, n) == [Fixed("length", 1) EXCEPT !.says = n % Byte, !.of = of]

\* A number of two bytes and what it announces.
With(name, b) == <<Swap(HostOrder({name}, b.length)), From(name, b)>>

Header == <<Fixed("header", 1)>>
Extended == <<Fixed("header", 2)>>
Answer == <<Fixed("header", 1)>>
Slot == <<Fixed("slot_number", 1)>>
Tag == <<Fixed("tag", 1)>>

\* What a service does with its arguments: refuse them, or lend these frames.
Service(refuses, request, answer) ==
    IF refuses THEN [refuses |-> TRUE, request |-> << >>, answer |-> << >>]
    ELSE [refuses |-> FALSE, request |-> request, answer |-> answer]

(* Keys and signatures                                                     *)

CurveId(kt) == <<Fixed("curve_id", EccInfo[kt].id)>>

\* One number for the keys of Curve25519, two coordinates for the others; the
\* services differ in which key types they treat as "one number".
PublicKey(kt, compact, b) ==
    LET n == EccInfo[kt].coordinate
        first == <<BigEndian({"x"}, n), Lent("x", n, b)>>
        beyond == IF EccInfo[kt].public_key < 2 * n THEN 0 ELSE n
    IN IF kt \in compact THEN first
       ELSE <<Fixed("point_representation_id", 1)>> \o first
            \o <<BigEndian({"y"}, n), Part("y", n, IF b.null THEN 0 ELSE beyond, FALSE)>>

Signature(kt, b) ==
    LET half == EccInfo[kt].signature \div 2
    IN <<BigEndian({"r"}, half), Lent("r", half, b),
         BigEndian({"s"}, half), Lent("s", half, b)>>

\* The entry of stsafea_hash_info_table: always 2 + 9 bytes.
HashId(algorithm) ==
    <<BigEndian({"hash_id"}, HashIdLength[algorithm]), Fixed("hash_id", 9)>>

\* An EdDSA signature has no hash.
HashOf(kt, algorithm) ==
    IF kt = "ED25519" THEN <<Fixed("no_hash", 2)>> ELSE HashId(algorithm)
===============================================================================

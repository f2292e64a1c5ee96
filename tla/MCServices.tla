------------------------------ MODULE MCServices ------------------------------
(***************************************************************************)
(* The calls that are explored: every function with good arguments, and    *)
(* with one of them wrong: absent, empty, or too large for a frame or for  *)
(* the 16 bits of its length.  A CCM start without a place for the         *)
(* presence, which follows the NULL pointer after the transfer, is not made.*)
(***************************************************************************)
EXTENDS Services

Ecc(id, coordinate, public, secret, signature) ==
    [id |-> id, coordinate |-> coordinate, public_key |-> public,
     shared_secret |-> secret, signature |-> signature]
MCEccInfo == [P256 |-> Ecc(10, 32, 64, 32, 64), CURVE25519 |-> Ecc(5, 32, 32, 32, 0),
              ED25519 |-> Ecc(5, 32, 32, 0, 64)]
MCHashIdLength == [SHA_1 |-> 5, SHA_256 |-> 9]
MCDigestSize == [SHA_1 |-> 20, SHA_256 |-> 32]
MCHostKeySize == [AES_128 |-> 32, AES_256 |-> 64]
MCHostKeyRoom == [v1 |-> 5, v2 |-> 5]
MCMaxFrame == [A100 |-> 507, A110 |-> 507, A120 |-> 752, L010 |-> 752]

Blank == [op |-> "none", no_handle |-> FALSE,
          message |-> Buffer(16), output |-> Buffer(16), associated_data |-> Buffer(8),
          iv |-> Buffer(13), tag |-> Buffer(16), counter |-> Buffer(4), presence |-> 1,
          verification |-> Buffer(1), algorithm |-> "SHA_256", digest_size |-> Buffer(2),
          signature |-> Buffer(64), signature_key_type |-> "P256", key_type |-> "P256",
          public_key |-> Buffer(64), key_list |-> Buffer(1), infos |-> <<3, 9>>,
          symmetric_type |-> "AES_128", secret_length |-> 16, host_key_type |-> "AES_128",
          slot_count |-> SlotCount, slot |-> 0, input_null |-> FALSE, input |-> FromSlot,
          extract |-> TRUE, expand |-> TRUE, salt_null |-> FALSE,
          salt |-> FromCommand(Buffer(4)), salt_data |-> Buffer(4), info |-> Buffer(4),
          context |-> Buffer(4), okm_null |-> FALSE, okm |-> <<InResponse(Buffer(16))>>,
          password |-> Buffer(16), tries |-> Buffer(1), right |-> TRUE, address |-> 0,
          standby |-> 0, bus_known |-> TRUE, callback |-> TRUE, i2c |-> TRUE, session |-> 1]

Good(ops) == {[Blank EXCEPT !.op = op] : op \in ops}

Lengths == {Null, Buffer(0), Buffer(1), Buffer(600), Buffer(65530), [null |-> TRUE, length |-> 4]}
Wrong(b) == {Null, [null |-> TRUE, length |-> b.length]}

\* One argument at a time.
Messages(c) == {[c EXCEPT !.message = b] : b \in Lengths}
Outputs(c) == {[c EXCEPT !.output = b] : b \in Lengths}
AssociatedData(c) == {[c EXCEPT !.associated_data = b] : b \in Lengths}
Ciphered(c) ==
    {c} \cup Messages(c) \cup Outputs(c) \cup AssociatedData(c)
    \cup {[c EXCEPT !.message = Null, !.output = Null]}
    \cup {[c EXCEPT !.message = Null, !.output = Null, !.associated_data = Null]}
    \cup {[c EXCEPT !.iv = b] : b \in Wrong(c.iv) \cup {Buffer(0)}}
    \cup {[c EXCEPT !.tag = b] : b \in Wrong(c.tag) \cup {Buffer(0)}}
    \cup {[c EXCEPT !.verification = b] : b \in Wrong(c.verification)}
    \cup {[c EXCEPT !.presence = 0], [c EXCEPT !.counter = Null]}
Ciphers == EcbAndCcm \cup CcmDecryption \cup GcmEncryption \cup GcmDecryption \cup MacCalls
CipherCalls == UNION {Ciphered(c) : c \in Good(Ciphers)}

Keyed(c) ==
    {c} \cup {[c EXCEPT !.key_type = kt, !.public_key = Buffer(n)] :
                kt \in {"CURVE25519", "ED25519", "INVALID"}, n \in {32}}
    \cup {[c EXCEPT !.signature_key_type = kt] : kt \in {"ED25519", "INVALID"}}
    \cup {[c EXCEPT !.public_key = b] : b \in Wrong(c.public_key)}
    \cup {[c EXCEPT !.signature = b] : b \in Wrong(c.signature)}
    \cup {[c EXCEPT !.algorithm = "SHA_1"], [c EXCEPT !.host_key_type = "INVALID"],
          [c EXCEPT !.host_key_type = "AES_256", !.message = Buffer(80)]}
    \cup {[c EXCEPT !.message = Null], [c EXCEPT !.output = Null], [c EXCEPT !.verification = Null]}
KeyOps == EphemeralKeys \cup
    {"ecc_verify_signature", "ecc_generate_signature", "ecc_establish_shared_secret",
     "ecc_decompress_public_key", "generate_ecdhe_key_pair", "generate_ecc_key_pair",
     "write_generic_ecc_public_key", "query_generic_public_key_slot_value",
     "verify_entity_signature"}
\* The table of curves has no entry for STSE_ECC_KT_INVALID, which some services
\* read before they look at the key type.
KeyCalls == {c \in UNION {Keyed(c) : c \in Good(KeyOps)} :
               c.op = "establish_symmetric_key_authenticated" => c.signature_key_type # "INVALID"}

SlotOps == {"query_generic_public_key_slots_count", "query_generic_public_key_slot_info",
            "set_generic_public_slot_configuration_flag", "confirm_symmetric_key",
            "write_symmetric_key_wrapped", "generate_wrap_unwrap_key", "erase_symmetric_key_slot",
            "query_host_key_provisioning_ctrl_fields", "put_host_key_provisioning_ctrl_fields",
            "query_host_key", "query_host_key_v2", "put_attribute_host_key",
            "host_key_provisioning", "host_key_provisioning_wrapped", "stop_volatile_kek_session",
            "get_ecc_key_slots_count", "get_ecc_key_table_info", "get_ecc_key_slot_info",
            "get_symmetric_key_slot_info"} \cup SymmetricKeyCalls
Slots(c) ==
    {c} \cup {[c EXCEPT !.slot_count = n] : n \in {0, SlotCount + 1, 256 + SlotCount}}
    \cup {[c EXCEPT !.slot = SlotCount], [c EXCEPT !.key_list = Null], [c EXCEPT !.infos = << >>]}
    \cup {[c EXCEPT !.symmetric_type = t, !.message = Buffer(32)] : t \in {"AES_256", "GENERIC", "OTHER"}}
    \cup {[c EXCEPT !.message = b] : b \in {Null, Buffer(80), Buffer(300)}}
    \cup {[c EXCEPT !.output = Null], [c EXCEPT !.host_key_type = "INVALID"],
          [c EXCEPT !.host_key_type = "AES_256", !.message = Buffer(80)]}
\* A value or a key of the host is as long as its type says; the count that is
\* passed with a table is of one byte.
SlotCalls == {c \in UNION {Slots(c) : c \in Good(SlotOps)} :
                /\ c.op = "write_symmetric_key_plaintext" =>
                     c.infos # << >> /\ (c.message.null \/ c.message.length >= 32)
                /\ c.op \in {"host_key_provisioning", "host_key_provisioning_wrapped"} =>
                     c.message.null \/ c.message.length >= 80
                /\ c.op = "get_ecc_key_table_info" => c.slot_count < Byte}

Derive(c) ==
    {c} \cup {[c EXCEPT !.salt_data = b] : b \in {Null, [null |-> TRUE, length |-> 4]}}
    \cup {[c EXCEPT !.context = b] : b \in {Null, [null |-> TRUE, length |-> 4], Buffer(720)}}
    \cup {[c EXCEPT !.output = b] : b \in {Null, Buffer(0)}}
    \cup {[c EXCEPT !.message = b] : b \in {Null, Buffer(0), Buffer(300)}}
    \cup {[c EXCEPT !.key_list = Null], [c EXCEPT !.infos = <<1>>], [c EXCEPT !.infos = <<0>>]}
    \cup {[c EXCEPT !.okm_null = TRUE], [c EXCEPT !.okm = << >>],
          [c EXCEPT !.okm = <<InResponse(Buffer(16)), InResponse(Buffer(32))>>],
          [c EXCEPT !.okm = <<InResponse(Buffer(16)), InSlot(c)>>],
          [c EXCEPT !.okm = <<[InSlot(c) EXCEPT !.null = TRUE]>>]}
    \cup {[c EXCEPT !.input = FromCommand(Buffer(16))], [c EXCEPT !.input_null = TRUE],
          [c EXCEPT !.extract = FALSE], [c EXCEPT !.expand = FALSE],
          [c EXCEPT !.salt_null = TRUE], [c EXCEPT !.salt = FromSlot],
          [c EXCEPT !.salt = FromCommand([null |-> TRUE, length |-> 4])]}
DeriveCalls ==
    UNION {Derive(c) : c \in Good({"derive_key", "derive_key_simple", "derive_key_expand",
                                   "derive_key_to_slot", "derive_key_expand_multiple",
                                   "derive_key_from_ikm", "derive_keys"})}

Simple(c) ==
    {c, [c EXCEPT !.output = Null], [c EXCEPT !.output = Buffer(8)]} \cup Messages(c)
    \cup {[c EXCEPT !.address = MaxAddress + 1], [c EXCEPT !.standby = MaxStandby + 1]}
SimpleCalls ==
    UNION {Simple(c) : c \in Good({"device_echo", "device_get_life_cycle_state", "put_i2c_parameters",
                                   "query_i2c_parameters", "delete_password", "patch",
                                   "generate_challenge"})}
    \cup {[c EXCEPT !.output = Buffer((c.message.length + 8) % Word)] :
            c \in Messages([Blank EXCEPT !.op = "wrap_payload"])}
    \cup {[c EXCEPT !.output = Buffer(16)] :
            c \in {[Blank EXCEPT !.op = "unwrap_payload", !.message = b] :
                     b \in {Buffer(24), Buffer(23), Null}}}
    \cup {[Blank EXCEPT !.op = "generate_random", !.output = b] :
            b \in {Null, [null |-> TRUE, length |-> 4], Buffer(16), Buffer(255), Buffer(600)}}

\* Calls that change the secure element, in any order.
HashedCalls ==
    {[Blank EXCEPT !.op = "compute_hash", !.message = b] :
       b \in {Null, Buffer(0), Buffer(16), Buffer(494), Buffer(1000)}}
    \cup Good({"start_hash", "process_hash", "finish_hash"})
    \cup {[Blank EXCEPT !.op = "compute_hash", !.digest_size = Null]}
PasswordCalls ==
    {[Blank EXCEPT !.op = op, !.password = p, !.right = right] :
       op \in {"device_lock", "device_unlock"}, p \in {Null, Buffer(15), Buffer(16)},
       right \in BOOLEAN}
SessionCalls ==
    {[Blank EXCEPT !.op = "derive_session_keys", !.output = b, !.tag = t, !.session = i] :
       b \in {Null, Buffer(16)}, t \in {Buffer(16), Buffer(0)}, i \in {1, 2}}
    \cup Good({"derive_key_extract"})
DeviceCalls ==
    Good({"device_reset", "device_enter_hibernate", "device_power_on", "device_power_off", "init"})
    \cup {[Blank EXCEPT !.op = "init", !.bus_known = FALSE],
          [Blank EXCEPT !.op = "device_power_on", !.callback = FALSE],
          [Blank EXCEPT !.op = "init", !.no_handle = TRUE],
          [Blank EXCEPT !.op = "derive_key", !.no_handle = TRUE],
          [Blank EXCEPT !.op = "derive_session_keys", !.no_handle = TRUE]}

LCalls ==
    UNION {Simple(c) : c \in Good({"device_echo", "device_get_life_cycle_state"})}
    \cup UNION {Ciphered(c) : c \in Good({"stsafel_get_data", "stsafel_put_data"})}
    \cup {c \in UNION {Keyed(d) : d \in Good({"ecc_generate_signature"})} : c.key_type # "INVALID"}
    \cup Good({"generate_random"})
    \cup {[Blank EXCEPT !.op = "stsafel_wakeup", !.callback = callback, !.i2c = i2c] :
            callback, i2c \in BOOLEAN}

StatelessCalls == CipherCalls \cup KeyCalls \cup SlotCalls \cup DeriveCalls \cup SimpleCalls \cup LCalls
ACalls == (StatelessCalls \ LCalls) \cup {c \in LCalls : c.op \notin {"stsafel_get_data", "stsafel_put_data", "stsafel_wakeup"}}
          \cup HashedCalls \cup PasswordCalls \cup SessionCalls \cup DeviceCalls
MCCalls == [type \in DOMAIN MCMaxFrame |->
              CASE type = "L010" -> LCalls \cup PasswordCalls \cup DeviceCalls
                [] type = "A110" -> DeviceCalls
                [] OTHER -> ACalls]

\* The parts of the secure element are explored one at a time.
MCFinds == [hashing |-> {"hash", "powered"}, sessions |-> {"prk"}, passwords |-> {"life", "tries"},
            device |-> {"hash", "powered", "prk", "life", "tries"}, others |-> {}]
===============================================================================

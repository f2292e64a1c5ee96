------------------------------ MODULE KeyServices ------------------------------
(***************************************************************************)
(* The STSAFE-A services on keys that are one command and one answer: ECC, *)
(* the slots of public, private, symmetric and host keys, key derivation.  *)
(* As in CipherServices, a service is given by the arguments it refuses    *)
(* and by the elements of its two frames.                                  *)
(***************************************************************************)
EXTENDS ServiceFrames

CONSTANTS UsageLimitSize, ConfigurationSize,
          CurveIdSize,            \* sizeof(stsafea_ecc_curve_id_t)
          PrivateSlotSize,        \* sizeof(stsafea_private_key_slot_information_t)
          SymmetricSlotSize,      \* sizeof(stsafea_symmetric_key_slot_information_t)
          ConfirmationMac, HostKeySize, HostKeyRoom

-----------------------------------------------------------------------------
(* ECC                                                                     *)

CompactAgreement == {"CURVE25519"}
CompactSignature == {"ED25519"}
CompactKeys == CompactAgreement \cup CompactSignature

KeyRefused(c) == c.public_key.null \/ c.key_type \notin KeyTypes

\* The host's ephemeral key, and the signature over it: which slot verifies it,
\* with which hash.
Ephemeral(c) ==
    Extended \o CurveId(c.key_type) \o PublicKey(c.key_type, CompactAgreement, c.public_key)
Signed(c) ==
    Slot \o HashOf(c.signature_key_type, c.algorithm)
    \o Signature(c.signature_key_type, c.signature)
Algorithm == <<Fixed("algorithm_id", 1)>>
Padding(n) == <<Fixed("padding", n)>>

StartVolatileKekSession(c) ==
    Service(KeyRefused(c), Ephemeral(c) \o Algorithm, Answer)
StartVolatileKekSessionAuthenticated(c) ==
    Service(KeyRefused(c) \/ c.signature.null \/ c.signature_key_type \notin KeyTypes,
            Ephemeral(c) \o Algorithm \o Padding(1) \o Signed(c), Answer)
StopVolatileKekSession == Service(FALSE, Extended, Answer)

EccVerifySignature(c) ==
    Service(KeyRefused(c) \/ c.signature.null \/ c.message.null \/ c.verification.null,
            Header \o <<Fixed("subject", 1)>> \o CurveId(c.key_type)
            \o PublicKey(c.key_type, CompactSignature, c.public_key)
            \o Signature(c.key_type, c.signature)
            \o (IF c.key_type = "ED25519" THEN <<Fixed("eddsa_variant", 1)>> ELSE << >>)
            \o With("message", c.message),
            Answer \o <<Lent("signature_validity", 1, c.verification)>>)
EccGenerateSignature(c) ==
    Service(c.message.null \/ c.signature.null \/ c.key_type \notin KeyTypes,
            Header \o Slot \o With("message", c.message),
            Answer \o Signature(c.key_type, c.signature))

EccEstablishSharedSecret(c) ==
    LET n == EccInfo[c.key_type].shared_secret
    IN Service(KeyRefused(c) \/ c.output.null,
               Header \o Slot \o PublicKey(c.key_type, CompactKeys, c.public_key),
               Answer \o <<BigEndian({"shared_secret"}, n), Lent("shared_secret", n, c.output)>>)
EccDecompressPublicKey(c) ==
    LET n == EccInfo[c.key_type].coordinate
    IN Service(KeyRefused(c) \/ c.output.null,
               Extended \o CurveId(c.key_type) \o <<Fixed("point_representation_id", 1)>>
               \o <<Lent("x", n, c.public_key)>>,
               Answer \o <<Lent("y", n, c.output)>>)

-----------------------------------------------------------------------------
(* Public and private key slots                                            *)

QueryCount(c) ==
    Service(c.output.null, Header \o Tag, Answer \o <<Lent("slot_count", 1, c.output)>>)
QueryGenericPublicKeySlotsCount(c) == QueryCount(c)
QueryPrivateKeySlotsCount(c) == QueryCount(c)

Presence == <<Fixed("presence_flag", 1)>>
Configuration == <<Fixed("configuration_flags", ConfigurationSize)>>

QueryGenericPublicKeySlotInfo(c) ==
    Service(c.output.null,
            Header \o Tag \o Slot,
            Answer \o Presence \o Configuration \o <<Fixed("curve_id", CurveIdSize)>>)
QueryGenericPublicKeySlotValue(c) ==
    Service(KeyRefused(c),
            Header \o Tag \o Slot,
            Answer \o Presence \o Configuration \o CurveId(c.key_type)
            \o PublicKey(c.key_type, CompactSignature, c.public_key))
WriteGenericEccPublicKey(c) ==
    Service(KeyRefused(c),
            Extended \o Slot \o CurveId(c.key_type)
            \o PublicKey(c.key_type, CompactKeys, c.public_key),
            Answer)
SetGenericPublicSlotConfigurationFlag ==
    Service(FALSE, Header \o Tag \o Slot \o Configuration, Answer)

\* The table arrives as it is on the line, and is unpacked after the answer.
QueryPrivateKeyTable(c) ==
    Service(c.output.null,
            Header \o Tag,
            Answer \o <<Fixed("slot_count", 1)>> \o Padding(1)
            \o <<Fixed("global_usage_limit", UsageLimitSize),
                 Fixed("table_raw", c.slot_count * PrivateSlotSize)>>)

GenerateEccKeyPair(c) ==
    Service(KeyRefused(c),
            Header \o Tag \o Slot \o <<Fixed("usage_limit", UsageLimitSize)>> \o Padding(2)
            \o CurveId(c.key_type),
            Answer \o PublicKey(c.key_type, CompactKeys, c.public_key))

\* The only one of these services that does not look at the pointer.
GenerateEcdheKeyPair(c) ==
    Service(c.key_type \notin KeyTypes,
            Extended \o CurveId(c.key_type),
            Answer \o CurveId(c.key_type)
            \o PublicKey(c.key_type, CompactAgreement, c.public_key))

-----------------------------------------------------------------------------
(* Symmetric keys                                                          *)

QueryAttribute(c, name, n) ==
    Service(c.output.null, Header \o Tag, Answer \o <<Lent(name, n, c.output)>>)
PutAttribute(c, name, n) ==
    Service(c.message.null, Header \o Tag \o <<Lent(name, n, c.message)>>, Answer)

\* The control fields of a slot: the query names the slot.
QuerySymmetricKeySlotProvisioningCtrlFields(c) ==
    Service(c.output.null, Header \o Tag \o Slot,
            Answer \o <<Lent("ctrl_fields", ConfigurationSize, c.output)>>)
PutSymmetricKeySlotProvisioningCtrlFields(c) ==
    Service(c.message.null,
            Header \o Tag \o Slot \o <<Lent("ctrl_fields", ConfigurationSize, c.message)>>,
            Answer)

QuerySymmetricKeySlotsCount(c) == QueryCount(c)
QuerySymmetricKeyTable(c) ==
    Service(c.output.null, Header \o Tag,
            Answer \o <<Fixed("rsp_raw", c.slot_count * SymmetricSlotSize)>>)

EstablishSymmetricKey(c) == StartVolatileKekSession(c)
EstablishSymmetricKeyAuthenticated(c) ==
    Service(KeyRefused(c) \/ c.signature.null,
            Ephemeral(c) \o Algorithm \o Padding(1) \o Signed(c), Answer)

\* A description of a key is its length, swapped in place, and its fields.
ConfirmSymmetricKey(c) ==
    Service(c.message.null \/ c.key_list.null \/ c.infos = << >>,
            Extended \o <<Fixed("confirmation_mac", ConfirmationMac)>>
            \o [i \in 1..Len(c.infos) |-> Fixed("key_information", c.infos[i] + 2)],
            Answer)

WriteSymmetricKeyWrapped(c) ==
    Service(c.message.null,
            Extended \o <<Part("envelope", c.message.length % Byte, c.message.length, FALSE)>>,
            Answer)

\* The length of the value follows from the type of the key, of a generic
\* secret from its description.
PlaintextLength == [AES_128 |-> 16, AES_256 |-> 32]
WriteSymmetricKeyPlaintext(c) ==
    LET n == IF c.symmetric_type = "GENERIC" THEN c.secret_length
             ELSE PlaintextLength[c.symmetric_type]
    IN Service(c.message.null \/ c.key_list.null
               \/ c.symmetric_type \notin DOMAIN PlaintextLength \cup {"GENERIC"},
               Extended \o <<Fixed("key_info", Head(c.infos)),
                             Part("value", n, c.message.length, FALSE)>>,
               Answer)

GenerateWrapUnwrapKey ==
    Service(FALSE, Header \o Tag \o Slot \o <<Fixed("key_length", 1)>>, Answer)
EraseSymmetricKeySlot == Service(FALSE, Extended \o Slot, Answer)

-----------------------------------------------------------------------------
(* Host keys                                                               *)

QueryHostKeyProvisioningCtrlFields(c) == QueryAttribute(c, "ctrl_fields", ConfigurationSize)
PutHostKeyProvisioningCtrlFields(c) == PutAttribute(c, "ctrl_fields", ConfigurationSize)
QueryHostKey(c) == QueryAttribute(c, "host_key_slot", HostKeyRoom.v1)
QueryHostKeyV2(c) == QueryAttribute(c, "host_key_slot", HostKeyRoom.v2)
PutAttributeHostKey(c) == PutAttribute(c, "host_keys", HostKeySize.AES_128)

HostKeyType == <<Fixed("host_key_type", 1)>>

\* Every type but AES-128 that is not the invalid one is taken for AES-256.
HostKeyProvisioning(c) ==
    Service(c.message.null \/ c.host_key_type = "INVALID",
            Extended \o Padding(3) \o HostKeyType
            \o <<Part("host_keys", HostKeySize[c.host_key_type], c.message.length, FALSE)>>,
            Answer)
HostKeyProvisioningWrapped(c) ==
    Service(c.message.null \/ c.host_key_type = "INVALID",
            Extended \o <<Part("host_keys", HostKeySize[c.host_key_type] + 16,
                               c.message.length, FALSE)>>,
            Answer)

EstablishHostKey(c) ==
    Service(KeyRefused(c) \/ c.host_key_type = "INVALID",
            Ephemeral(c) \o Algorithm \o HostKeyType, Answer)
EstablishHostKeyAuthenticated(c) ==
    Service(\/ KeyRefused(c) \/ c.signature.null \/ c.signature_key_type \notin KeyTypes
            \/ c.algorithm \notin DOMAIN HashIdLength \/ c.host_key_type = "INVALID",
            Ephemeral(c) \o Algorithm \o HostKeyType \o Padding(1) \o Signed(c), Answer)

-----------------------------------------------------------------------------
(* Key derivation                                                          *)

\* Where an input or a salt comes from: a slot, or the command itself.
FromSlot == [slot |-> TRUE, buffer |-> Null]
FromCommand(b) == [slot |-> FALSE, buffer |-> b]

\* A salt or an info without data keeps the length it announces.
Data(name, b) ==
    <<BigEndian({name}, b.length)>>
    \o (IF b.length > 0 /\ ~b.null THEN <<From(name, b)>> ELSE << >>)

\* What is derived: a key for the answer, or for a slot, described by key_info.
Description(k) ==
    IF k.response
    THEN <<BigEndian({"destination", "key_length"}, 3), Fixed("destination", 1),
           Fixed("key_length", 2)>>
    ELSE <<BigEndian({"destination", "lock_indicator", "key_info"}, 1 + k.length),
           Fixed("destination", 1), Fixed("lock_indicator", 1)>>
         \o IF k.length > 1 THEN <<Fixed("key_info", k.length - 1)>> ELSE << >>
Derived(k) ==
    IF k.response THEN Part("derived_key", k.length, k.room, k.null) ELSE Fixed("slot_number", 1)

DeriveKeys(c) ==
    Service(\/ c.input_null \/ c.output.null
            \/ c.expand /\ c.okm_null
            \/ c.extract /\ c.salt_null
            \/ c.expand /\ \E i \in 1..Len(c.okm) : ~c.okm[i].response /\ c.okm[i].null,
            Extended \o <<Fixed("input_source", 1)>>
            \o (IF c.input.slot THEN Slot
                ELSE <<Fixed("mode_of_operation", 1),
                       BigEndian({"input"}, c.input.buffer.length),
                       From("input", c.input.buffer)>>)
            \o <<Fixed("hkdf_flags", 1), Fixed("hash_algo", 11)>>
            \o (IF ~c.extract THEN << >>
                ELSE <<Fixed("salt_source", 1)>>
                     \o IF c.salt.slot THEN Slot ELSE Data("salt", c.salt.buffer))
            \o (IF ~c.expand THEN << >>
                ELSE Data("info", c.info)
                     \o FlattenSeq([i \in 1..Len(c.okm) |-> Description(c.okm[i])])),
            Answer
            \o (IF c.extract /\ ~c.expand THEN <<Fixed("prk_slot", 1)>> ELSE << >>)
            \o (IF c.expand THEN [i \in 1..Len(c.okm) |-> Derived(c.okm[i])] ELSE << >>))
================================================================================

------------------------------- MODULE Services --------------------------------
(***************************************************************************)
(* An application that calls the library on one handle, and the secure     *)
(* element behind it.  A call is a sequence of exchanges (DeviceApi): the  *)
(* host lays out a command, the transfer takes it to the secure element    *)
(* once or twice, the answer is brought back or lost, and what the call    *)
(* does next depends on it.  Between two exchanges another user of the     *)
(* secure element may have his turn.                                       *)
(***************************************************************************)
EXTENDS DeviceApi

CONSTANTS Calls,          \* calls the application makes on each type of device:
                          \* records of arguments
          Finds,          \* by kind of call, the parts of the secure element that
                          \* may not be as new when it is made (a bound)
          Types,          \* device types a handle can be given
          Masks,          \* mask numbers secure elements come with
          MaxTries,       \* password tries of a new secure element
          SlotCount,      \* key slots of the secure element
          GarbageCounts,  \* values of an uninitialised count
          PrkSlots,       \* slots for pseudo-random keys
          OtherSession    \* the session another user extracts a key for

\* Commands that only functions of several exchanges send.
Internal == {"verify_password", "lock", "unlock", "query_mask_id", "perso_info_update",
             "extract", "expand_enc", "expand_mac"}

ASSUME CallsAssumption ==
    /\ Types \cup {"A100", "A110", "A120"} \subseteq DOMAIN Calls
    /\ \A type \in DOMAIN Calls : \A c \in Calls[type] :
          "op" \in DOMAIN c /\ c.op \notin Internal
ASSUME MaskAssumption ==
    /\ Masks \subseteq Nat /\ {MaskA100, MaskA110, MaskA120} \subseteq Nat
    /\ MaskA100 < MaskA110 /\ MaskA110 < MaskA120

\* The sizes that the loops over a message or a buffer depend on: a frame has room
\* for the identifier of an algorithm, and for the 26 bytes of an expansion.
ASSUME SizeAssumption ==
    /\ Word \in Nat \ {0} /\ HashIdSize \in Nat \ {0} /\ MaxRng \in Nat \ {0}
    /\ DOMAIN Calls \subseteq DOMAIN MaxFrame
    /\ \A type \in DOMAIN Calls :
          MaxFrame[type] \in Nat /\ MaxFrame[type] >= HashIdSize + 3 /\ MaxFrame[type] >= 26
    /\ MaxTries \in Nat /\ SlotCount \in Nat /\ GarbageCounts \subseteq Nat
    /\ PrkSlots \subseteq Nat /\ OtherSession \in Nat \ {0}
\* Lengths are of two bytes; the number of a session is not 0, which marks a slot
\* without a key.
ASSUME ArgumentAssumption ==
    \A type \in DOMAIN Calls : \A c \in Calls[type] :
        /\ {"message", "output", "tag", "digest_size", "session", "salt_data", "context"}
             \cup {"input_null", "input", "extract", "expand", "salt_null", "salt", "info",
                   "okm_null", "okm"} \subseteq DOMAIN c
        /\ \A b \in {c.message, c.output} : "length" \in DOMAIN b /\ b.length \in 0..(Word - 1)
        /\ c.session \in Nat \ {0}

\* What the library can be lent: a pointer and a length of two bytes.
Lendable == [null : BOOLEAN, length : 0..(Word - 1)]
ASSUME BufferAssumption ==
    \A type \in DOMAIN Calls : \A c \in Calls[type] :
        /\ {"associated_data", "iv", "counter", "verification", "signature", "public_key",
            "key_type", "slot_count", "password", "tries"} \subseteq DOMAIN c
        /\ {c.message, c.output, c.associated_data, c.iv, c.tag, c.password, c.salt_data,
            c.context, c.info, c.input.buffer, c.salt.buffer} \subseteq Lendable
        /\ c.infos \in Seq(Nat) /\ c.slot_count \in Nat
        /\ c.okm \in Seq([response : BOOLEAN, length : Nat, room : Nat, null : BOOLEAN])
        /\ \A i \in DOMAIN c.okm : c.okm[i].length <= c.okm[i].room \/ ~c.okm[i].response

\* The sizes of the tables and of the types of C.  Only a key of Curve25519 or
\* Ed25519 has one coordinate.
ASSUME TableAssumption ==
    /\ {NonceSize, CounterSize, PasswordLength, MaskIdSize, ChallengeSize, I2CParameters,
        UsageLimitSize, ConfigurationSize, CurveIdSize, PrivateSlotSize, SymmetricSlotSize,
        ConfirmationMac, HostKeyRoom.v1, HostKeyRoom.v2, SessionIdSize} \subseteq Nat
    /\ Byte \in Nat \ {0} /\ SessionIdSize < Word /\ 3 < Word
    /\ \A kt \in KeyTypes :
          /\ {EccInfo[kt].id, EccInfo[kt].coordinate, EccInfo[kt].public_key,
              EccInfo[kt].shared_secret, EccInfo[kt].signature} \subseteq Nat
          /\ kt \in {"CURVE25519", "ED25519"} \/ EccInfo[kt].public_key >= 2 * EccInfo[kt].coordinate
    /\ \A algorithm \in DOMAIN DigestSize : DigestSize[algorithm] \in Nat
    /\ "AES_128" \in DOMAIN HostKeySize /\ \A kt \in DOMAIN HostKeySize : HostKeySize[kt] \in Nat

\* What is asked of a caller whose pointer comes without a length of its own: a
\* value is as long as its type says, and the type is one of the tables where
\* the function does not look at it.
ASSUME CallerAssumption ==
    \A type \in DOMAIN Calls : \A c \in Calls[type] :
        /\ c.op \in {"finish_hash", "compute_hash"} => c.algorithm \in DOMAIN DigestSize
        /\ c.op = "establish_symmetric_key_authenticated" => c.signature_key_type \in KeyTypes
        /\ c.op = "ecc_generate_signature" /\ type = "L010" => c.key_type \in KeyTypes
        /\ c.op \in {"write_symmetric_key_plaintext", "derive_key_to_slot"} => c.infos # << >>
        /\ c.op = "write_symmetric_key_plaintext" /\ ~c.message.null =>
              /\ c.symmetric_type = "GENERIC" => c.secret_length \in 0..c.message.length
              /\ c.symmetric_type \in DOMAIN PlaintextLength =>
                    c.message.length >= PlaintextLength[c.symmetric_type]
        /\ c.op \in {"host_key_provisioning", "host_key_provisioning_wrapped"}
           /\ ~c.message.null /\ c.host_key_type # "INVALID" =>
              /\ c.host_key_type \in DOMAIN HostKeySize
              /\ c.message.length >= HostKeySize[c.host_key_type]
                                      + IF c.op = "host_key_provisioning" THEN 0 ELSE 16
        /\ c.op = "get_ecc_key_table_info" => c.slot_count < Byte
        /\ c.op = "cmac_hmac_verify" => c.tag.length < Byte
        /\ c.op \in {"start_hash", "compute_hash", "start_volatile_kek_session_authenticated",
                    "establish_symmetric_key_authenticated"} => c.algorithm \in DOMAIN HashIdLength

\* What a length of two bytes can count: the sizes of the keys and the signatures,
\* and the nine bytes of every identifier of an algorithm but that of SHA-1.
ASSUME WidthAssumption ==
    /\ Word = Byte * Byte
    /\ \A kt \in KeyTypes : {EccInfo[kt].coordinate, EccInfo[kt].shared_secret,
                              EccInfo[kt].signature} \subseteq 0..(Word - 1)
    /\ 9 < Word /\ \A algorithm \in DOMAIN HashIdLength \ {"SHA_1"} : HashIdLength[algorithm] = 9

VARIABLES handle,  \* pSTSE: device_type, and whether stse_init has returned STSE_OK
          se,      \* the secure element
          phase,   \* idle, host, bus, answered, returned
          call,    \* the arguments of the call
          local,   \* its variables
          cmd,     \* the exchange it is in
          reply,   \* what the secure element answered
          result,  \* what the call returned
          past     \* what happened during the call

vars == <<handle, se, phase, call, local, cmd, reply, result, past>>

NoCall == [op |-> "none"]
NoExchange == [kind |-> "none"]

\* The part of a message, or of a buffer, that was handled: the bytes up to upto,
\* each of them once (whole), or some of them twice, or with bytes of others.
Nothing == [open |-> FALSE, whole |-> TRUE, upto |-> 0]
Covered(c, from, n) ==
    [open |-> TRUE, whole |-> c.whole /\ from = c.upto, upto |-> from + n]

NoReply == [status |-> "none", number |-> 0, digest |-> Nothing]
\* platform, finished: what was done already.  covered: what a digest is of, or
\* which bytes of a buffer are random.  wrote, room: entries written to a table,
\* and those it has.
NoLocal == [n |-> 0, done |-> 0, count |-> 0, verdict |-> FALSE, prk |-> 0, mask |-> 0,
            platform |-> FALSE, finished |-> FALSE, covered |-> Nothing,
            wrote |-> 0, room |-> 0, enc |-> 0, mac |-> 0]
NoPast == [executed |-> {}, resent |-> FALSE, disturbed |-> FALSE, powerless |-> FALSE,
           accepted |-> FALSE]

\* A secure element: its mask, its life cycle, the tries of the password, and
\* what it keeps while it has power: a hash that was started, and the session
\* that each pseudo-random key was extracted for.
NoPrk == [i \in PrkSlots |-> 0]
NewElement(mask) == [mask |-> mask, life |-> "OPERATIONAL", tries |-> MaxTries,
                     hash |-> Nothing, prk |-> NoPrk, powered |-> TRUE]
Used == {part \in {"hash", "prk", "life", "tries", "powered"} : se[part] # NewElement(se.mask)[part]}
WithoutPower(s) == [s EXCEPT !.hash = Nothing, !.prk = NoPrk]

-----------------------------------------------------------------------------
(* What a call does next                                                   *)

EcbAndCcm == {"aes_ecb_encrypt", "aes_ecb_decrypt", "aes_ccm_encrypt",
              "aes_ccm_encrypt_start", "aes_ccm_encrypt_process"}
CcmDecryption == {"aes_ccm_encrypt_finish", "aes_ccm_decrypt", "aes_gcm_encrypt",
                  "aes_ccm_decrypt_start"}
GcmEncryption == {"aes_ccm_decrypt_process", "aes_ccm_decrypt_finish", "aes_gcm_encrypt_start",
                  "aes_gcm_encrypt_process", "aes_gcm_encrypt_finish"}
GcmDecryption == {"aes_gcm_decrypt", "aes_gcm_decrypt_start", "aes_gcm_decrypt_process",
                  "aes_gcm_decrypt_finish"}
MacCalls == {"cmac_hmac_compute", "cmac_hmac_verify", "aes_gmac_compute", "aes_gmac_verify"}
HashCalls == {"start_hash", "process_hash", "finish_hash"}
SymmetricKeyCalls ==
    {"get_symmetric_key_slots_count", "get_symmetric_key_table_info",
     "get_symmetric_key_slot_provisioning_ctrl_fields",
     "set_symmetric_key_slot_provisioning_ctrl_fields", "write_symmetric_key_plaintext"}

EphemeralKeys == {"start_volatile_kek_session", "start_volatile_kek_session_authenticated",
                  "establish_symmetric_key", "establish_symmetric_key_authenticated",
                  "establish_host_key", "establish_host_key_authenticated"}
Counts == {"query_private_key_slots_count", "query_symmetric_key_slots_count",
           "get_ecc_key_slots_count", "get_symmetric_key_slots_count",
           "query_generic_public_key_slots_count"}
PrivateTables == {"query_private_key_table", "get_ecc_key_table_info"}
SymmetricTables == {"query_symmetric_key_table", "get_symmetric_key_table_info"}

Kind(c) == CASE c.op \in HashCalls \cup {"compute_hash"} -> "hashing"
             [] c.op \in {"derive_session_keys", "derive_key_extract"} -> "sessions"
             [] c.op \in {"device_lock", "device_unlock"} -> "passwords"
             [] c.op \in {"init", "device_reset", "device_enter_hibernate",
                         "device_power_on", "device_power_off"} -> "device"
             [] OTHER -> "others"

\* Services that have no function of their own in the API.
DirectService(c) ==
    CASE c.op = "wrap_payload" -> WrapPayload(c)
      [] c.op = "unwrap_payload" -> UnwrapPayload(c)
      [] c.op = "generate_challenge" -> GenerateChallenge(c)
      [] c.op = "verify_entity_signature" -> VerifyEntitySignature(c)
      [] c.op = "delete_password" -> DeletePassword
      [] c.op = "query_i2c_parameters" -> QueryI2CParameters(c)
      [] c.op = "start_volatile_kek_session" -> StartVolatileKekSession(c)
      [] c.op = "start_volatile_kek_session_authenticated" -> StartVolatileKekSessionAuthenticated(c)
      [] c.op = "stop_volatile_kek_session" -> StopVolatileKekSession
      [] c.op = "query_generic_public_key_slots_count" -> QueryGenericPublicKeySlotsCount(c)
      [] c.op = "query_generic_public_key_slot_info" -> QueryGenericPublicKeySlotInfo(c)
      [] c.op = "query_generic_public_key_slot_value" -> QueryGenericPublicKeySlotValue(c)
      [] c.op = "set_generic_public_slot_configuration_flag" -> SetGenericPublicSlotConfigurationFlag
      [] c.op = "establish_symmetric_key" -> EstablishSymmetricKey(c)
      [] c.op = "establish_symmetric_key_authenticated" -> EstablishSymmetricKeyAuthenticated(c)
      [] c.op = "confirm_symmetric_key" -> ConfirmSymmetricKey(c)
      [] c.op = "write_symmetric_key_wrapped" -> WriteSymmetricKeyWrapped(c)
      [] c.op = "generate_wrap_unwrap_key" -> GenerateWrapUnwrapKey
      [] c.op = "erase_symmetric_key_slot" -> EraseSymmetricKeySlot
      [] c.op = "query_host_key_provisioning_ctrl_fields" -> QueryHostKeyProvisioningCtrlFields(c)
      [] c.op = "put_host_key_provisioning_ctrl_fields" -> PutHostKeyProvisioningCtrlFields(c)
      [] c.op = "query_host_key" -> QueryHostKey(c)
      [] c.op = "query_host_key_v2" -> QueryHostKeyV2(c)
      [] c.op = "put_attribute_host_key" -> PutAttributeHostKey(c)
      [] c.op = "host_key_provisioning" -> HostKeyProvisioning(c)
      [] c.op = "host_key_provisioning_wrapped" -> HostKeyProvisioningWrapped(c)
      [] c.op = "establish_host_key" -> EstablishHostKey(c)
      [] c.op = "establish_host_key_authenticated" -> EstablishHostKeyAuthenticated(c)
      [] c.op = "derive_keys" -> DeriveKeys(c)
      [] c.op = "patch" -> Patch
      [] c.op = "stsafel_get_data" -> LGetData(c)
      [] c.op = "stsafel_put_data" -> LPutData(c)

\* All others are refused alike without a handle.
Derivations == {"derive_key", "derive_key_simple", "derive_key_extract", "derive_key_expand",
                "derive_session_keys", "derive_key_to_slot", "derive_key_expand_multiple",
                "derive_key_from_ikm"}
Step(c, l, type) ==
    IF c.no_handle /\ c.op \notin Derivations THEN Finish("HANDLER_NOT_INITIALISED") ELSE
    CASE c.op \in EcbAndCcm -> Once(c, l, AesEcbAndCcmEncryption(c))
      [] c.op \in CcmDecryption -> Once(c, l, AesCcmDecryption(c))
      [] c.op \in GcmEncryption -> Once(c, l, AesGcmEncryption(c))
      [] c.op \in GcmDecryption -> Once(c, l, AesGcmDecryption(c))
      [] c.op \in MacCalls -> Once(c, l, Mac(c))
      [] c.op \in HashCalls -> OnceChecked(HashApiRefused(c), c, l, HashApi(c))
      [] c.op \in SymmetricKeyCalls -> Once(c, l, SymmetricKeyApi(c))
      [] c.op = "compute_hash" -> ComputeHash(c, l, type)
      [] c.op = "generate_random" -> RandomNumbers(c, l, type)
      [] c.op = "ecc_verify_signature" -> EccVerifySignatureApi(c, l)
      [] c.op = "ecc_generate_signature" -> EccGenerateSignatureApi(c, l, type)
      [] c.op = "ecc_establish_shared_secret" -> EccEstablishSharedSecretApi(c, l)
      [] c.op = "ecc_decompress_public_key" -> EccDecompressPublicKeyApi(c, l)
      [] c.op = "get_ecc_key_slots_count" -> GetEccKeySlotsCount(c, l)
      [] c.op = "get_ecc_key_table_info" -> GetEccKeyTableInfo(c, l)
      [] c.op = "get_ecc_key_slot_info" -> GetEccKeySlotInfo(c, l)
      [] c.op = "get_symmetric_key_slot_info" -> GetSymmetricKeySlotInfo(c, l)
      [] c.op = "generate_ecdhe_key_pair" -> GenerateEcdheKeyPairApi(c, l)
      [] c.op = "generate_ecc_key_pair" -> GenerateEccKeyPairApi(c, l)
      [] c.op = "write_generic_ecc_public_key" -> WriteGenericEccPublicKeyApi(c, l)
      [] c.op = "derive_key" -> DeriveKey(c, l)
      [] c.op = "derive_key_simple" -> DeriveKeySimple(c, l)
      [] c.op = "derive_key_extract" -> DeriveKeyExtract(c, l)
      [] c.op = "derive_key_expand" -> DeriveKeyExpand(c, l)
      [] c.op = "derive_session_keys" -> DeriveSessionKeys(c, l)
      [] c.op = "derive_key_to_slot" -> DeriveKeyToSlot(c, l)
      [] c.op = "derive_key_expand_multiple" -> DeriveKeyExpandMultiple(c, l)
      [] c.op = "derive_key_from_ikm" -> DeriveKeyFromIkm(c, l)
      [] c.op = "init" -> InitHandle(c, l, type)
      [] c.op = "device_enter_hibernate" -> DeviceEnterHibernate(c, l, type)
      [] c.op \in {"device_power_on", "device_power_off"} -> DevicePower(c, l)
      [] c.op = "device_echo" -> DeviceEcho(c, l, type)
      [] c.op = "device_lock" -> DeviceLock(c, l, type)
      [] c.op = "device_unlock" -> DeviceUnlock(c, l, type)
      [] c.op = "device_reset" -> DeviceReset(c, l, type)
      [] c.op = "device_get_life_cycle_state" -> DeviceGetLifeCycleState(c, l, type)
      [] c.op = "put_i2c_parameters" -> PutI2CParametersApi(c, l)
      [] c.op = "stsafel_wakeup" -> LWakeup(c, l)
      [] OTHER -> Once(c, l, DirectService(c))

\* The calls are calls of these functions.
ComposedCalls ==
    EcbAndCcm \cup CcmDecryption \cup GcmEncryption \cup GcmDecryption \cup MacCalls
    \cup HashCalls \cup SymmetricKeyCalls
    \cup {"compute_hash", "generate_random", "ecc_verify_signature", "ecc_generate_signature",
          "ecc_establish_shared_secret", "ecc_decompress_public_key",
          "get_ecc_key_slots_count", "get_ecc_key_table_info", "get_ecc_key_slot_info",
          "get_symmetric_key_slot_info", "generate_ecdhe_key_pair", "generate_ecc_key_pair",
          "write_generic_ecc_public_key", "derive_key", "derive_key_simple", "derive_key_extract",
          "derive_key_expand", "derive_session_keys", "derive_key_to_slot",
          "derive_key_expand_multiple", "derive_key_from_ikm"}
    \cup {"init", "device_enter_hibernate", "device_power_on", "device_power_off", "device_echo",
          "device_lock", "device_unlock", "device_reset", "device_get_life_cycle_state",
          "put_i2c_parameters", "stsafel_wakeup"}
DirectCalls ==
    EphemeralKeys
    \cup {"wrap_payload", "unwrap_payload", "generate_challenge", "verify_entity_signature",
          "delete_password", "query_i2c_parameters", "stop_volatile_kek_session",
          "query_generic_public_key_slots_count", "query_generic_public_key_slot_info",
          "query_generic_public_key_slot_value", "set_generic_public_slot_configuration_flag",
          "confirm_symmetric_key", "write_symmetric_key_wrapped", "generate_wrap_unwrap_key",
          "erase_symmetric_key_slot", "query_host_key_provisioning_ctrl_fields",
          "put_host_key_provisioning_ctrl_fields", "query_host_key", "query_host_key_v2",
          "put_attribute_host_key", "host_key_provisioning", "host_key_provisioning_wrapped",
          "derive_keys", "patch", "stsafel_get_data", "stsafel_put_data"}
ASSUME FunctionAssumption ==
    \A type \in DOMAIN Calls : \A c \in Calls[type] : c.op \in ComposedCalls \cup DirectCalls

-----------------------------------------------------------------------------
(* The host                                                                *)

Returns(ret) == phase' = "returned" /\ result' = ret /\ cmd' = NoExchange

\* A handle is used before stse_init has succeeded only by mistake.
Call(c) ==
    /\ phase = "idle"
    /\ handle.ready \/ c.op = "init" \/ c.no_handle
    /\ Used \subseteq Finds[Kind(c)]
    /\ phase' = "host" /\ call' = c
    /\ UNCHANGED <<handle, se, local, cmd, reply, result, past>>

NextStep == Step(call, local, handle.type)

HostReturns ==
    /\ phase = "host" /\ NextStep.kind = "return"
    /\ Returns(NextStep.ret)
    /\ handle' = [handle EXCEPT !.ready = @ \/ (call.op = "init" /\ NextStep.ret = "OK")]
    /\ UNCHANGED <<se, call, local, reply, past>>

\* stse_init prepares the platform, every part of which may fail.
PreparesPlatform ==
    /\ phase = "host" /\ NextStep.kind = "platform"
    /\ \/ /\ local' = [local EXCEPT !.platform = TRUE]
          /\ UNCHANGED <<phase, result, cmd>>
       \/ Returns("PLATFORM_ERROR") /\ UNCHANGED local
    /\ UNCHANGED <<handle, se, call, reply, past>>

\* The power line of the secure element, through the callback.
SwitchesPower ==
    /\ phase = "host" /\ NextStep.kind = "power"
    /\ local' = [local EXCEPT !.platform = TRUE]
    /\ se' = [WithoutPower(se) EXCEPT !.powered = (call.op = "device_power_on")]
    /\ UNCHANGED <<handle, phase, call, cmd, reply, result, past>>

\* An element after the first one that has a length and no data stops the
\* computation of the CRC.
Unreadable(frame) == \E i \in 2..Len(frame) : frame[i].null /\ frame[i].length # 0
TooLong(frame) == (TotalLength(frame) % Word) > MaxFrame[handle.type]
RefusalOf(service) ==
    IF service.refuses THEN "INVALID_PARAMETER"
    ELSE IF TooLong(service.request) THEN "FRAME_SIZE_ERROR"
    ELSE IF Unreadable(service.request) THEN "INCONSISTENT_FRAME" ELSE "NONE"

\* stse_get_ecc_key_slot_info does not look at what the query of the count
\* returned; stsafea_query_mask_id looks at a byte of the answer first.
IgnoresResultOfKey ==
    \/ call.op = "get_ecc_key_slot_info" /\ local.n = 0
    \/ call.op = "derive_session_keys" /\ local.n = 1
IgnoresResult == call.op = "get_ecc_key_slot_info" /\ local.n = 0
ExchangeFails(ret) ==
    IF IgnoresResult
    THEN /\ \E k \in GarbageCounts : local' = [local EXCEPT !.n = @ + 1, !.count = k]
         /\ phase' = "host" /\ cmd' = NoExchange
         /\ UNCHANGED result
    ELSE /\ Returns(ret) \/ (call.op = "init" /\ local.n = 0 /\ Returns("INCOMPATIBLE_DEVICE_TYPE"))
         /\ UNCHANGED local

HostSends ==
    /\ phase = "host" /\ NextStep.kind = "send"
    /\ IF RefusalOf(NextStep.service) = "NONE"
       THEN phase' = "bus" /\ cmd' = NextStep /\ UNCHANGED <<local, result>>
       ELSE ExchangeFails(RefusalOf(NextStep.service))
    /\ UNCHANGED <<handle, se, call, reply, past>>

-----------------------------------------------------------------------------
(* The secure element                                                      *)

Carried(name) ==
    LET request == cmd.service.request
    IN request[CHOOSE i \in DOMAIN request : request[i].name = name].length

Free(s) == {i \in PrkSlots : s.prk[i] = 0}

\* What a command does to a secure element s, and what it answers.  A command
\* may always be refused: access conditions, arguments, life cycle.
Done(s) == [se |-> s, reply |-> [NoReply EXCEPT !.status = "OK"]]
DoneWith(s, number) == [se |-> s, reply |-> [NoReply EXCEPT !.status = "OK", !.number = number]]
Refusal(s) == [se |-> s, reply |-> [NoReply EXCEPT !.status = "ERROR"]]

Passwords(s) ==
    IF s.tries = 0 THEN {Refusal(s)}
    ELSE IF call.right THEN {DoneWith([s EXCEPT !.tries = MaxTries], 1)}
    ELSE {DoneWith([s EXCEPT !.tries = @ - 1], 0)}
Hashing(s) ==
    LET piece(h) == Covered(h, local.done, Carried("message"))
    IN CASE cmd.command = "start_hash" -> {Done([s EXCEPT !.hash = piece(Nothing)])}
         [] cmd.command # "start_hash" /\ ~s.hash.open -> {Refusal(s)}
         [] cmd.command = "process_hash" /\ s.hash.open -> {Done([s EXCEPT !.hash = piece(@)])}
         [] cmd.command = "finish_hash" /\ s.hash.open ->
              {[se |-> [s EXCEPT !.hash = Nothing],
                reply |-> [NoReply EXCEPT !.status = "OK", !.digest = s.hash]]}

Performed(s) ==
    CASE cmd.command = "verify_password" -> Passwords(s)
      [] cmd.command = "lock" -> {Done([s EXCEPT !.life = "LOCKED"])}
      [] cmd.command = "unlock" -> {Done([s EXCEPT !.life = "OPERATIONAL"])}
      [] cmd.command \in HashCalls -> Hashing(s)
      [] cmd.command \in {"extract", "derive_key_extract"} ->
           {DoneWith([s EXCEPT !.prk[i] = call.session], i) : i \in Free(s)}
      [] cmd.command \in {"expand_enc", "expand_mac"} ->
           IF s.prk[local.prk] = 0 THEN {Refusal(s)} ELSE {DoneWith(s, s.prk[local.prk])}
      [] cmd.command \in Counts -> {DoneWith(s, SlotCount)}
      [] cmd.command = "query_mask_id" -> {DoneWith(s, s.mask)}
      [] cmd.command \in {"device_reset", "device_enter_hibernate"} -> {Done(WithoutPower(s))}
      [] OTHER -> {Done(s)}

Executes ==
    \E o \in Performed(se) \cup {Refusal(se)} :
        /\ se' = o.se /\ reply' = o.reply
        /\ past' = [past EXCEPT
               !.executed = IF o.reply.status = "OK" THEN @ \cup {cmd.command} ELSE @,
               !.accepted = @ \/ (cmd.command = "verify_password" /\ o.reply.number = 1),
               !.resent = @ \/ phase = "answered"]

Execute ==
    /\ phase = "bus" /\ se.powered
    /\ Executes
    /\ phase' = "answered"
    /\ UNCHANGED <<handle, call, local, cmd, result>>

\* The acknowledge is lost and the transfer sends the command again (once is
\* enough to see what that does).
Retransmit ==
    /\ phase = "answered" /\ se.powered /\ ~past.resent
    /\ Executes
    /\ UNCHANGED <<handle, phase, call, local, cmd, result>>

PowerLoss ==
    /\ phase # "idle"
    /\ se' = WithoutPower(se) /\ se' # se
    /\ past' = [past EXCEPT !.powerless = TRUE]
    /\ UNCHANGED <<handle, phase, call, local, cmd, reply, result>>

\* Another user of the secure element, between two transfers of a call: he hashes
\* during a hash, or he extracts a key of his own when one is extracted.
OtherTask ==
    /\ phase = "host" /\ se.powered
    /\ \/ /\ Kind(call) = "hashing"
          /\ se' = [se EXCEPT !.hash = [open |-> TRUE, whole |-> FALSE, upto |-> 0]]
       \/ /\ Kind(call) = "sessions"
          /\ \E i \in Free(se) : se' = [se EXCEPT !.prk[i] = OtherSession]
    /\ se' # se
    /\ past' = [past EXCEPT !.disturbed = TRUE]
    /\ UNCHANGED <<handle, phase, call, local, cmd, reply, result>>

-----------------------------------------------------------------------------
(* The end of an exchange                                                  *)

Fails ==
    /\ \/ phase \in {"bus", "answered"} /\ ExchangeFails("FAILED")
       \/ phase = "answered" /\ reply.status = "ERROR" /\ ExchangeFails("ERROR")
       \/ phase = "answered" /\ reply.status = "OK" /\ Unreadable(cmd.service.answer)
          /\ ExchangeFails("INCONSISTENT_FRAME")
    /\ reply' = NoReply
    /\ UNCHANGED <<handle, se, call, past>>

ProgressForgotten(n) == local.done
ProgressPastIdentifier(n) == local.done + n + IF local.n = 0 THEN HashIdSize ELSE 0
Progress(n) == local.done + n

\* How many entries the caller asked of a table, and what is done with the
\* count in the answer.
Asked == IF local.n = 1 THEN local.count ELSE call.slot_count % Byte
WrongTablePrivate == cmd.command \in PrivateTables /\ Asked > SlotCount
WrongTable == \/ cmd.command \in PrivateTables /\ Asked > SlotCount
              \/ cmd.command \in SymmetricTables /\ Asked < SlotCount

After ==
    LET l == [local EXCEPT !.n = Min({@ + 1, 3})]
    IN CASE cmd.command \in {"start_hash", "process_hash"} ->
              [l EXCEPT !.done = Progress(Carried("message"))]
         [] cmd.command = "finish_hash" ->
              [l EXCEPT !.finished = TRUE, !.covered = reply.digest]
         [] cmd.command = "generate_random" ->
              LET n == RandomChunk(call, local)
              IN [l EXCEPT !.done = Progress(n), !.covered = Covered(@, local.done, n)]
         [] cmd.command = "verify_password" -> [l EXCEPT !.verdict = (reply.number # 0)]
         [] cmd.command \in Counts -> [l EXCEPT !.count = reply.number]
         [] cmd.command \in PrivateTables \cup SymmetricTables ->
              [l EXCEPT !.wrote = SlotCount, !.room = Asked]
         [] cmd.command = "query_mask_id" -> [l EXCEPT !.mask = reply.number]
         [] cmd.command = "extract" -> [l EXCEPT !.prk = reply.number]
         [] cmd.command = "expand_enc" -> [l EXCEPT !.enc = reply.number]
         [] cmd.command = "expand_mac" -> [l EXCEPT !.mac = reply.number]
         [] OTHER -> l

Deliver ==
    /\ phase = "answered" /\ reply.status = "OK" /\ ~Unreadable(cmd.service.answer)
    /\ reply' = NoReply
    /\ IF WrongTable
       THEN Returns("INVALID_PARAMETER") /\ UNCHANGED local
       ELSE phase' = "host" /\ local' = After /\ cmd' = NoExchange /\ UNCHANGED result
    /\ handle' = IF cmd.command = "query_mask_id" /\ reply.number >= MaskA100
                 THEN [handle EXCEPT !.type = ProductOf(reply.number)] ELSE handle
    /\ UNCHANGED <<se, call, past>>

\* Back in the application.
Return ==
    /\ phase = "returned"
    /\ phase' = "idle" /\ call' = NoCall /\ local' = NoLocal /\ past' = NoPast
    /\ result' = "NONE"
    /\ UNCHANGED <<handle, se, cmd, reply>>

Init ==
    /\ \E type \in Types, mask \in Masks, life \in {"OPERATIONAL", "LOCKED"} :
          /\ handle = [type |-> type, ready |-> FALSE]
          /\ se = [NewElement(IF type = "L010" THEN 0 ELSE mask) EXCEPT !.life = life]
    /\ phase = "idle" /\ call = NoCall /\ local = NoLocal /\ cmd = NoExchange
    /\ reply = NoReply /\ result = "NONE" /\ past = NoPast

Host == HostReturns \/ PreparesPlatform \/ SwitchesPower \/ HostSends \/ Deliver \/ Fails
Next == \/ \E c \in Calls[handle.type] : Call(c)
        \/ Host \/ Execute \/ Retransmit \/ PowerLoss \/ OtherTask \/ Return

\* A call goes on by itself and so does a transfer, which answers or fails within
\* its retries; the application, other users and the power are free.
Spec == Init /\ [][Next]_vars
FairSpec == Spec /\ WF_vars(Host) /\ WF_vars(Return)

-----------------------------------------------------------------------------
\* Type invariant of the call, the handle and the secure element.
TypeOK ==
    /\ phase \in {"idle", "host", "bus", "answered", "returned"}
    /\ handle.type \in DOMAIN MaxFrame /\ handle.ready \in BOOLEAN
    /\ se.life \in {"OPERATIONAL", "LOCKED"} /\ se.tries \in 0..MaxTries
    /\ reply.status \in {"none", "OK", "ERROR"} /\ reply.number \in Nat
    /\ cmd.kind = "send" <=> phase \in {"bus", "answered"}
    /\ result \in {"NONE", "OK", "ERROR", "FAILED", "INVALID_PARAMETER", "INCONSISTENT_FRAME",
                   "FRAME_SIZE_ERROR", "INCOMPATIBLE_DEVICE_TYPE", "PLATFORM_ERROR",
                   "KEY_NOT_FOUND", "HANDLER_NOT_INITIALISED"}
    /\ local.n \in 0..3 /\ local.done \in 0..(Word - 1)
    /\ call.op \in {"compute_hash", "generate_random"} => local.covered.upto <= local.done

\* Every length that a command announces, or that the service expects in an
\* answer, is the length of the elements that follow it and that it stands for, in
\* the byte order of the line, through all tables, sums and cuts to two bytes.
\* Five arguments are known to break it: a CCM message without associated data (it
\* is announced and left out) or with a tag that no two bytes count, SHA-1, of
\* which the identifier is shorter than its element, a salt or info that has a
\* length and no data, and a key without description (or with one too long).
Announced(frame, i) ==
    LET until == Min({j \in (i + 1)..Len(frame) : frame[j].name \notin frame[i].of}
                     \cup {Len(frame) + 1})
    IN TotalLength(SubSeq(frame, i + 1, until - 1))
Undescribed(n) == n = 0 \/ 1 + n >= Word
BreaksLengths ==
    \/ call.op = "aes_ccm_encrypt" /\ call.associated_data.length = 0 /\ call.message.length # 0
    \/ call.op = "aes_ccm_decrypt" /\ call.message.length + call.tag.length >= Word
    \/ call.algorithm = "SHA_1"
    \/ \E b \in {call.salt_data, call.context, call.info, call.salt.buffer} : b.null /\ b.length # 0
    \/ \E i \in DOMAIN call.infos : Undescribed(call.infos[i])
    \/ \E i \in DOMAIN call.okm : ~call.okm[i].response /\ Undescribed(call.okm[i].length)
LengthsTrue ==
    phase = "bus" /\ ~BreaksLengths =>
        \A frame \in {cmd.service.request, cmd.service.answer} : \A i \in DOMAIN frame :
            frame[i].of # {} => frame[i].says = Announced(frame, i)

\* Nothing is read or written beyond the buffer that was lent for it, whatever
\* lengths the caller, the tables and the secure element give.  Known exceptions:
\* keys of Curve25519 and Ed25519, of which some services take a second
\* coordinate; the coordinates after a NULL key, which one service does not look
\* at; the four bytes read of a two-byte total; a table shorter than the secure
\* element's, or of a count that was never received.
PastBuffers ==
    \/ call.op \in {"ecc_verify_signature", "query_generic_public_key_slot_value"}
          /\ call.key_type = "CURVE25519"
    \/ call.op \in EphemeralKeys /\ call.key_type = "ED25519"
    \/ call.op = "generate_ecdhe_key_pair" /\ call.key_type = "ED25519"
    \/ call.op = "aes_ccm_decrypt_start"
PastTable ==
    \/ call.op = "get_ecc_key_table_info" /\ call.slot_count < SlotCount
    \/ call.op = "get_ecc_key_slot_info" /\ local.room < SlotCount
Inside(frame) == \A i \in DOMAIN frame : frame[i].null \/ frame[i].length <= frame[i].room
InsideBuffers ==
    /\ phase = "bus" /\ ~PastBuffers =>
          Inside(cmd.service.request) /\ Inside(cmd.service.answer)
    /\ local.wrote > local.room => PastTable

\* A call that returns because of its arguments has changed nothing in the secure
\* element, although it may have had several steps and the last of them is the
\* one that was refused.  Known exceptions: a lost byte for the tries is found
\* when the answer is read, after the password was taken (device_lock); a wrong
\* password costs a try; and the MAC key's length is looked at after the
\* extraction.
Changing == {"lock", "unlock", "verify_password", "extract", "start_hash", "process_hash",
             "finish_hash"}
LateRefusal == \/ call.op \in {"device_lock", "device_unlock"}
               \/ call.op = "derive_session_keys" /\ (NoKey(call.output) \/ NoKey(call.tag))
RefusedUnsent ==
    phase = "returned" /\ result \in {"INVALID_PARAMETER", "INCONSISTENT_FRAME", "FRAME_SIZE_ERROR"}
    /\ ~LateRefusal => past.executed \cap Changing = {}

\* What a successful call hands out is of the whole message or buffer, each byte
\* once and in order, across all its commands, their failures and the loss of
\* power; a hash may only differ if a piece was sent twice or another user
\* hashed in between, which the library does not notice.
WholeMessage ==
    phase = "returned" /\ result = "OK" =>
        /\ call.op = "compute_hash" /\ ~past.resent /\ ~past.disturbed =>
              local.covered = Covered(Nothing, 0, call.message.length)
        /\ call.op = "generate_random" /\ call.output.length # 0 =>
              local.covered = Covered(Nothing, 0, call.output.length)

\* The life cycle changes only in a call for which the secure element accepted
\* the password: not after a refused one, a lost answer, or an earlier call.
PasswordFirst == [][se'.life # se.life => past.accepted]_vars

\* The two keys of a session come from the key that was extracted for this very
\* session, whichever slot it is in and whoever else extracts keys, unless power
\* was lost in between (the slot may then be another's).
SessionKeys ==
    phase = "returned" /\ result = "OK" /\ call.op = "derive_session_keys"
    /\ ~past.powerless => local.enc = call.session /\ local.mac = call.session

\* A handle that was initialised is of the type of its secure element, so that
\* tables of commands and lengths are read at the right product, also when a
\* later stse_init fails half way.
InitKnowsDevice ==
    handle.ready /\ handle.type # "L010" =>
        handle.type = CASE se.mask >= MaskA120 -> "A120"
                        [] se.mask \in MaskA110..(MaskA120 - 1) -> "A110"
                        [] se.mask \in MaskA100..(MaskA110 - 1) -> "A100"
                        [] OTHER -> "none"

\* What PasswordFirst and InitKnowsDevice rest on: an acceptance of the password
\* is remembered until the life cycle is changed; the type of the handle follows
\* the mask that was answered, before the call that asked for it goes on; and the
\* records have the fields that both are about.
OnTheWay == phase \in {"bus", "answered"}
Shape ==
    /\ phase \in {"idle", "host", "bus", "answered", "returned"}
    /\ {"type", "ready"} \subseteq DOMAIN handle /\ handle.type \in DOMAIN Calls
    /\ {"mask", "life"} \subseteq DOMAIN se /\ se.mask \in Nat
    /\ {"n", "verdict", "mask", "platform"} \subseteq DOMAIN local /\ local.n \in Nat
    /\ "accepted" \in DOMAIN past
    /\ "op" \in DOMAIN call /\ call.op \notin Internal
    /\ phase = "idle" => local = NoLocal
AcceptInv ==
    /\ local.verdict => past.accepted
    /\ OnTheWay /\ cmd.command \in {"lock", "unlock"} => past.accepted
    /\ phase = "answered" /\ cmd.command = "verify_password" /\ reply.number # 0 => past.accepted
TypeFollows == handle.type # "L010" => se.mask >= MaskA100 /\ handle.type = ProductOf(se.mask)
InitInv ==
    /\ handle.ready => TypeFollows
    /\ OnTheWay /\ cmd.command = "query_mask_id" => call.op = "init" /\ local.n = 0
    /\ phase = "answered" /\ cmd.command = "query_mask_id" /\ reply.status = "OK" =>
          reply.number = se.mask
    /\ OnTheWay /\ cmd.command = "perso_info_update" => se.mask >= MaskA100
    /\ call.op = "init" /\ local.n = 1 =>
          local.mask = se.mask /\ (se.mask >= MaskA100 => TypeFollows)
    /\ call.op = "init" /\ local.n > 1 => TypeFollows
    /\ call.op = "init" /\ OnTheWay =>
          cmd.command = IF local.n = 0 THEN "query_mask_id" ELSE "perso_info_update"

\* What SessionKeys and WholeMessage rest on: the fields that they are about; the
\* steps of a derivation, and the slot that it extracted its key into, ...
Fields ==
    /\ DOMAIN se = {"mask", "life", "tries", "hash", "prk", "powered"}
    /\ se.prk \in [PrkSlots -> Nat]
    /\ DOMAIN local = DOMAIN NoLocal /\ DOMAIN past = DOMAIN NoPast /\ local.n \in 0..3
    /\ phase # "idle" => \E type \in DOMAIN Calls : call \in Calls[type]
SessionInv ==
    phase # "idle" /\ call.op = "derive_session_keys" =>
        /\ OnTheWay => /\ local.n \in 0..2
                       /\ cmd.command = <<"extract", "expand_enc", "expand_mac">>[local.n + 1]
        /\ local.n > 0 => local.prk \in PrkSlots
        /\ phase = "answered" /\ reply.status = "OK" /\ local.n = 0 => reply.number \in PrkSlots
        /\ ~past.powerless =>
              /\ phase = "answered" /\ reply.status = "OK" =>
                    call.session = IF local.n = 0 THEN se.prk[reply.number] ELSE reply.number
              /\ local.n > 0 => se.prk[local.prk] = call.session
              /\ local.n > 1 => local.enc = call.session
              /\ local.n > 2 => local.mac = call.session
        /\ phase = "returned" /\ result = "OK" => local.n = 3

\* ... how far a buffer is filled, ...
RandomInv ==
    phase # "idle" /\ call.op = "generate_random" =>
        /\ local.done \in 0..call.output.length
        /\ local.covered = IF local.done = 0 THEN Nothing ELSE Covered(Nothing, 0, local.done)
        /\ OnTheWay => cmd.command = "generate_random" /\ local.done # call.output.length
        /\ phase = "returned" /\ result = "OK" => local.done = call.output.length

\* ... and what the hash in the secure element is of, while nothing was sent twice
\* and nobody else hashed: of the pieces so far, or of nothing.
Piecewise == cmd.command \in {"start_hash", "process_hash"}
Hashes(upto) == ~past.resent /\ ~past.disturbed /\ se.hash.open => se.hash = Covered(Nothing, 0, upto)
HashInv ==
    phase # "idle" /\ call.op = "compute_hash" =>
        /\ local.done \in 0..call.message.length
        /\ local.n = 0 => local.done = 0 /\ ~local.finished
        /\ OnTheWay =>
              /\ cmd.command \in HashCalls /\ ~local.finished
              /\ local.n = 0 <=> cmd.command = "start_hash"
              /\ Piecewise => Carried("message") \in 0..(call.message.length - local.done)
              /\ cmd.command = "finish_hash" => local.done = call.message.length
        /\ phase \in {"host", "bus"} /\ local.n > 0 /\ ~local.finished => Hashes(local.done)
        /\ phase = "answered" /\ reply.status = "OK" /\ Piecewise =>
              Hashes(local.done + Carried("message"))
        /\ phase = "answered" /\ reply.status = "OK" /\ ~Piecewise /\ ~past.resent /\ ~past.disturbed =>
              reply.digest = Covered(Nothing, 0, call.message.length)
        /\ local.finished /\ ~past.resent /\ ~past.disturbed =>
              local.covered = Covered(Nothing, 0, call.message.length)
        /\ phase = "returned" /\ result = "OK" => local.finished

\* What TypeOK rests on: the commands that a call sends, ...
Commands(op) ==
    {op}
    \cup (IF op = "get_ecc_key_slot_info"
          THEN {"query_private_key_slots_count", "query_private_key_table"} ELSE {})
    \cup (IF op = "get_symmetric_key_slot_info"
          THEN {"query_symmetric_key_slots_count", "query_symmetric_key_table"} ELSE {})
    \cup (IF op = "compute_hash" THEN HashCalls ELSE {})
    \cup (IF op = "derive_session_keys" THEN {"extract", "expand_enc", "expand_mac"} ELSE {})
    \cup (IF op \in {"device_lock", "device_unlock"}
          THEN {"verify_password", "lock", "unlock"} ELSE {})
    \cup (IF op = "init" THEN {"query_mask_id", "perso_info_update"} ELSE {})
SentInv == OnTheWay => cmd.command \in Commands(call.op)
\* ... how much of its message it has sent, ...
DoneInv ==
    phase # "idle" =>
        /\ call.op \in HashCalls =>
              /\ local.n = 0 => local.done = 0
              /\ local.done \in {0, call.message.length}
              /\ OnTheWay => /\ local.n = 0 /\ cmd.command = call.op
                             /\ Piecewise => Carried("message") = call.message.length
        /\ call.op \notin HashCalls \cup {"compute_hash", "generate_random"} => local.done = 0
\* ... and that the hash is of no more than that, whoever hashed and whatever was
\* sent twice.
UptoInv ==
    phase # "idle" /\ call.op = "compute_hash" =>
        /\ local.covered.upto \in 0..local.done
        /\ phase \in {"host", "bus"} /\ local.n > 0 /\ ~local.finished =>
              se.hash.upto \in 0..local.done
        /\ OnTheWay /\ cmd.command = "finish_hash" => se.hash.upto \in 0..local.done
        /\ phase = "answered" /\ reply.status = "OK" /\ Piecewise =>
              se.hash.upto \in 0..(local.done + Carried("message"))
        /\ phase = "answered" /\ reply.status = "OK" /\ ~Piecewise =>
              reply.digest.upto \in 0..local.done

\* What RefusedUnsent rests on: nothing is executed before the first exchange; a
\* call that changes something in several exchanges has looked at its arguments
\* before the first one, and the answers to its commands can be read.
ChangesInSteps == HashCalls \cup {"compute_hash", "derive_session_keys"}
ArgumentsSeen ==
    CASE call.op = "derive_session_keys" ->
           ~call.no_handle /\ ~call.output.null /\ ~call.tag.null
      [] call.op = "compute_hash" ->
           ~call.message.null /\ ~call.output.null /\ ~call.digest_size.null
      [] OTHER -> ~HashApiRefused(call)
UnsentInv ==
    /\ phase \in {"idle", "host", "bus"} /\ local.n = 0 => past.executed = {}
    /\ past.executed \cap Changing # {} =>
          call.op \in ChangesInSteps \cup {"device_lock", "device_unlock"}
    /\ phase # "idle" /\ call.op \in ChangesInSteps /\ (OnTheWay \/ local.n > 0) => ArgumentsSeen
    /\ OnTheWay /\ call.op \in ChangesInSteps => ~Unreadable(cmd.service.answer)

\* What InsideBuffers rests on: the call is one of those on this type of device,
\* unless it is the one that finds the type; and a table is asked for in the
\* length that the caller gave, or that was received before.
AsksTable == \/ call.op = "get_ecc_key_table_info" /\ local.n = 0
             \/ call.op = "get_ecc_key_slot_info" /\ local.n = 1
LendInv ==
    /\ phase # "idle" /\ call.op # "init" => call \in Calls[handle.type]
    /\ {local.count, local.wrote, local.room} \subseteq Nat
    /\ OnTheWay /\ cmd.command \in PrivateTables => AsksTable
    /\ OnTheWay /\ ~PastBuffers => Inside(cmd.service.request) /\ Inside(cmd.service.answer)
    /\ local.wrote > local.room => PastTable

\* Every call returns, whatever is lost, refused or retransmitted.
CallsEnd == phase # "idle" ~> phase = "idle"

\* stse_device_lock locks the device ("This function lock the target device using
\* the password in argument"): with the right password, which the secure element
\* accepted, and no failure of the bus or the power, the device is locked.
LockTakesEffect ==
    phase = "returned" /\ call.op = "device_lock" /\ past.accepted
    /\ result \notin {"FAILED", "ERROR"} /\ ~past.powerless =>
        se.life = "LOCKED"
================================================================================

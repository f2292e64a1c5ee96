------------------------------- MODULE DeviceApi -------------------------------
(***************************************************************************)
(* The functions an application calls on a handle (src/api), and the       *)
(* services of the STSAFE-L010.  A function is the exchange it does next,  *)
(* given its arguments c, the variables l it keeps between exchanges and   *)
(* the type of the device the handle is for, or the code it returns.       *)
(***************************************************************************)
EXTENDS CipherServices, KeyServices

CONSTANTS MaxFrame,           \* stsafea_maximum_frame_length, by product
          MaxRng,             \* STSAFEA_MAXIMUM_RNG_SIZE
          HashIdSize,         \* STSAFEA_HASH_ALGO_ID_SIZE
          LChallenge,         \* STSAFEL_ECC_SIGNATURE_CHALLENGE_LENGTH
          MaskA100, MaskA110, MaskA120, MaxAddress, MaxStandby,
          SessionIdSize, MaxDerivedKeys

\* An exchange; or the end of the call.
Send(command, service) == [kind |-> "send", command |-> command, service |-> service]
Finish(ret) == [kind |-> "return", ret |-> ret]
Invalid == Finish("INVALID_PARAMETER")

Checked(refuses, step) == IF refuses THEN Invalid ELSE step

\* A function that does one exchange and returns what it returned.
Once(c, l, service) == IF l.n = 0 THEN Send(c.op, service) ELSE Finish("OK")
OnceChecked(refuses, c, l, service) == Checked(refuses, Once(c, l, service))

-----------------------------------------------------------------------------
(* Services of the STSAFE-L010                                             *)

LEcho(c, l) ==
    IF c.message.null \/ c.output.null THEN Invalid
    ELSE IF c.message.length = 0 THEN Finish("OK")
    ELSE Once(c, l, Service(FALSE, Header \o <<From("message", c.message)>>,
                            Answer \o OutputOf(c)))
LEccGenerateSignature(c) ==
    LET n == EccInfo[c.key_type].signature
    IN Service(c.message.length # LChallenge \/ c.message.null \/ c.signature.null,
               Header \o <<From("challenge", c.message), Fixed("internal_data_subject", 1)>>,
               Answer \o <<Lent("signature", n, c.signature)>>)
LHibernate == Service(FALSE, Header, Answer)
LReset == Service(FALSE, Header, Answer)
LGetData(c) ==
    Service((c.associated_data.null /\ c.associated_data.length # 0) \/ c.output.null,
            Header \o Tag \o <<From("additional_data", c.associated_data)>>,
            Answer \o <<From("device_info", c.output)>>)
LPutData(c) ==
    Service(c.message.null, Header \o Tag \o <<From("device_info", c.message)>>, Answer)

\* Waking up: the callback of the platform, or over I2C an echo of one byte.
LWakeup(c, l) ==
    IF c.callback THEN Finish("OK")
    ELSE Checked(~c.i2c, LEcho([c EXCEPT !.message = Buffer(1), !.output = Buffer(1)], l))

-----------------------------------------------------------------------------
(* Ciphers, MAC, hash, random numbers                                      *)

AesEcbAndCcmEncryption(c) ==
    CASE c.op = "aes_ecb_encrypt" -> AesEcbEncrypt(c)
      [] c.op = "aes_ecb_decrypt" -> AesEcbDecrypt(c)
      [] c.op = "aes_ccm_encrypt" -> AesCcmEncrypt(c)
      [] c.op = "aes_ccm_encrypt_start" -> AesCcmEncryptStart(c)
      [] c.op = "aes_ccm_encrypt_process" -> AesCcmEncryptProcess(c)
AesCcmDecryption(c) ==
    CASE c.op = "aes_ccm_encrypt_finish" -> AesCcmEncryptFinish(c)
      [] c.op = "aes_ccm_decrypt" -> AesCcmDecrypt(c)
      [] c.op = "aes_gcm_encrypt" -> AesGcmEncrypt(c)
      [] c.op = "aes_ccm_decrypt_start" -> AesCcmDecryptStart(c)
AesGcmEncryption(c) ==
    CASE c.op = "aes_ccm_decrypt_process" -> AesCcmDecryptProcess(c)
      [] c.op = "aes_ccm_decrypt_finish" -> AesCcmDecryptFinish(c)
      [] c.op = "aes_gcm_encrypt_start" -> AesGcmEncryptStart(c)
      [] c.op = "aes_gcm_encrypt_process" -> AesGcmEncryptProcess(c)
      [] c.op = "aes_gcm_encrypt_finish" -> AesGcmEncryptFinish(c)
AesGcmDecryption(c) ==
    CASE c.op = "aes_gcm_decrypt" -> AesGcmDecrypt(c)
      [] c.op = "aes_gcm_decrypt_start" -> AesGcmDecryptStart(c)
      [] c.op = "aes_gcm_decrypt_process" -> AesGcmDecryptProcess(c)
      [] c.op = "aes_gcm_decrypt_finish" -> AesGcmDecryptFinish(c)

Mac(c) ==
    CASE c.op = "cmac_hmac_compute" -> CmacHmacCompute(c)
      [] c.op = "cmac_hmac_verify" -> CmacHmacVerify(c)
      [] c.op = "aes_gmac_compute" -> AesGmacCompute(c)
      [] c.op = "aes_gmac_verify" -> AesGmacVerify(c)

\* A message is hashed in pieces: a frame less its CRC and one byte of header
\* (the header has two), and in the first one the identifier of the algorithm.
MaximumChunk(type) == MaxFrame[type] - 2 - 1
FirstChunk(c, type) ==
    IF c.message.length + HashIdSize > MaximumChunk(type)
    THEN MaximumChunk(type) - HashIdSize ELSE c.message.length
NextChunk(c, l, type) == Min({c.message.length - l.done, MaximumChunk(type)})

HashApi(c) ==
    CASE c.op = "start_hash" -> StartHash(c)
      [] c.op = "process_hash" -> ProcessHash(c)
      [] c.op = "finish_hash" -> FinishHash(c)
HashApiRefused(c) ==
    c.message.null \/ (c.op = "finish_hash" /\ (c.output.null \/ c.digest_size.null))

Piece(c, n) == [c EXCEPT !.message = Buffer(n)]
Hashed(c, l, type) ==
    IF l.n = 0 THEN Send("start_hash", StartHash(Piece(c, FirstChunk(c, type))))
    ELSE IF l.finished THEN Finish("OK")
    ELSE IF l.done < c.message.length
         THEN Send("process_hash", ProcessHash(Piece(c, NextChunk(c, l, type))))
    ELSE Send("finish_hash", FinishHash([c EXCEPT !.message = Null]))
ComputeHashUnchecked(c, l, type) ==
    IF c.message.null \/ c.output.null THEN Invalid ELSE Hashed(c, l, type)
ComputeHash(c, l, type) ==
    IF c.message.null \/ c.output.null \/ c.digest_size.null THEN Invalid
    ELSE Hashed(c, l, type)

RandomChunkUncounted(c, l) == Min({c.output.length, MaxRng})
RandomChunk(c, l) == Min({c.output.length - l.done, MaxRng})
RandomNumbers(c, l, type) ==
    IF c.output.length = 0 THEN Finish("OK")
    ELSE IF c.output.null THEN Invalid
    ELSE IF type = "L010" THEN Finish("INCOMPATIBLE_DEVICE_TYPE")
    ELSE IF l.done = c.output.length THEN Finish("OK")
    ELSE Send("generate_random", GenerateRandom([c EXCEPT !.output = Buffer(RandomChunk(c, l))]))

-----------------------------------------------------------------------------
(* Keys                                                                    *)

EccVerifySignatureApi(c, l) ==
    OnceChecked(c.public_key.null \/ c.signature.null \/ c.message.null \/ c.verification.null,
                c, l, EccVerifySignature(c))
EccGenerateSignatureApi(c, l, type) ==
    OnceChecked(c.message.null \/ c.signature.null, c, l,
                IF type = "L010" THEN LEccGenerateSignature(c) ELSE EccGenerateSignature(c))
EccEstablishSharedSecretApi(c, l) ==
    OnceChecked(c.public_key.null \/ c.output.null, c, l, EccEstablishSharedSecret(c))
EccDecompressPublicKeyApi(c, l) ==
    OnceChecked(c.public_key.null \/ c.output.null, c, l, EccDecompressPublicKey(c))

GetEccKeySlotsCount(c, l) == OnceChecked(c.output.null, c, l, QueryPrivateKeySlotsCount(c))
GetEccKeyTableInfo(c, l) == OnceChecked(c.output.null, c, l, QueryPrivateKeyTable(c))
GenerateEcdheKeyPairApi(c, l) == OnceChecked(c.public_key.null, c, l, GenerateEcdheKeyPair(c))
GenerateEccKeyPairApi(c, l) == OnceChecked(c.public_key.null, c, l, GenerateEccKeyPair(c))
WriteGenericEccPublicKeyApi(c, l) ==
    OnceChecked(c.public_key.null, c, l, WriteGenericEccPublicKey(c))

\* The count of the slots, of which the result is not looked at; the table, of
\* that many entries; the entry of the slot.
GetEccKeySlotInfo(c, l) ==
    IF c.output.null THEN Invalid
    ELSE IF l.n = 0 THEN Send("query_private_key_slots_count", QueryCount(c))
    ELSE IF l.n = 1
         THEN Send("query_private_key_table", QueryPrivateKeyTable([c EXCEPT !.slot_count = l.count]))
    ELSE IF c.slot < l.count THEN Finish("OK") ELSE Finish("KEY_NOT_FOUND")
\* This one looks at the result of the count, and at the slot before the table.
GetSymmetricKeySlotInfo(c, l) ==
    IF l.n = 0 THEN Send("query_symmetric_key_slots_count", QueryCount([c EXCEPT !.output = Buffer(1)]))
    ELSE IF l.n = 1
         THEN Checked(c.slot >= l.count,
                      Send("query_symmetric_key_table",
                           QuerySymmetricKeyTable([c EXCEPT !.slot_count = l.count,
                                                            !.output = Buffer(1)])))
    ELSE Finish("OK")

SymmetricKeyApi(c) ==
    CASE c.op = "get_symmetric_key_slots_count" -> QuerySymmetricKeySlotsCount(c)
      [] c.op = "get_symmetric_key_table_info" ->
           QuerySymmetricKeyTable([c EXCEPT !.slot_count = c.slot_count % Byte])
      [] c.op = "get_symmetric_key_slot_provisioning_ctrl_fields" ->
           QuerySymmetricKeySlotProvisioningCtrlFields(c)
      [] c.op = "set_symmetric_key_slot_provisioning_ctrl_fields" ->
           PutSymmetricKeySlotProvisioningCtrlFields(c)
      [] c.op = "write_symmetric_key_plaintext" -> WriteSymmetricKeyPlaintext(c)

-----------------------------------------------------------------------------
(* Key derivation                                                          *)

InResponse(b) == [response |-> TRUE, length |-> b.length, room |-> b.length, null |-> b.null]
InSlot(c) == [response |-> FALSE, length |-> Head(c.infos), room |-> 0, null |-> FALSE]

Derivation(c, input, extract, expand, okm) ==
    DeriveKeys([c EXCEPT !.input_null = FALSE, !.output = Buffer(1), !.input = input,
                         !.extract = extract, !.expand = expand, !.salt_null = ~extract,
                         !.salt = FromCommand(c.salt_data), !.info = c.context,
                         !.okm_null = ~expand, !.okm = okm])
Extraction(c) == Derivation(c, FromSlot, TRUE, FALSE, << >>)
Expansion(c, b) == Derivation(c, FromSlot, FALSE, TRUE, <<InResponse(b)>>)

\* These look at the handle themselves, and return what they return for any other
\* pointer that is NULL.
NoKey(b) == b.null \/ b.length = 0
DeriveKey(c, l) ==
    OnceChecked(c.no_handle \/ NoKey(c.output), c, l,
                Derivation(c, FromSlot, TRUE, TRUE, <<InResponse(c.output)>>))
DeriveKeySimple(c, l) == DeriveKey([c EXCEPT !.salt_data = Null], l)
DeriveKeyExtract(c, l) ==
    OnceChecked(c.no_handle \/ c.output.null, c, l, Extraction(c))
DeriveKeyExpand(c, l) ==
    OnceChecked(c.no_handle \/ NoKey(c.output), c, l, Expansion(c, c.output))

\* One extraction with the session for salt, an expansion for each of the two
\* keys; the length of a key is looked at when its turn comes.
DeriveSessionKeys(c, l) ==
    LET named == [c EXCEPT !.context = Buffer(3)]
    IN IF c.no_handle \/ c.output.null \/ c.tag.null THEN Invalid
       ELSE IF l.n = 0 THEN Send("extract", Extraction([c EXCEPT !.salt_data = Buffer(SessionIdSize)]))
       ELSE IF l.n = 1 THEN Checked(NoKey(c.output), Send("expand_enc", Expansion(named, c.output)))
       ELSE IF l.n = 2 THEN Checked(NoKey(c.tag), Send("expand_mac", Expansion(named, c.tag)))
       ELSE Finish("OK")

DeriveKeyToSlot(c, l) ==
    OnceChecked(c.no_handle \/ c.key_list.null \/ c.output.null, c, l,
                Derivation(c, FromSlot, TRUE, TRUE, <<InSlot(c)>>))

\* The context of the first key is used for all of them.
DeriveKeyExpandMultiple(c, l) ==
    OnceChecked(c.no_handle \/ c.output.null \/ c.okm_null \/ Len(c.okm) \notin 1..MaxDerivedKeys,
                c, l,
                Derivation(c, FromSlot, FALSE, TRUE, c.okm))
DeriveKeyFromIkm(c, l) ==
    OnceChecked(c.no_handle \/ NoKey(c.message) \/ NoKey(c.output), c, l,
                Derivation(c, FromCommand(c.message), TRUE, TRUE, <<InResponse(c.output)>>))

-----------------------------------------------------------------------------
(* Device                                                                  *)

\* The product is told by the number of the mask; too old a mask is refused.
ProductOfAny(mask) ==
    IF mask >= MaskA110 THEN "A120" ELSE IF mask >= MaskA100 THEN "A110" ELSE "A100"
ProductOf(mask) ==
    IF mask >= MaskA120 THEN "A120" ELSE IF mask >= MaskA110 THEN "A110" ELSE "A100"

\* perso_info_update stands for its queries (module PersoInfo) as one exchange.
InitHandle(c, l, type) ==
    IF ~c.bus_known THEN Invalid
    ELSE IF ~l.platform THEN [kind |-> "platform"]
    ELSE IF type = "L010" THEN Finish("OK")
    ELSE IF l.n = 0 THEN Send("query_mask_id", QueryMaskId)
    ELSE IF l.n = 1
         THEN IF l.mask < MaskA100 THEN Finish("INCOMPATIBLE_DEVICE_TYPE")
              ELSE Send("perso_info_update", Service(FALSE, Header \o Tag, Answer))
    ELSE Finish("OK")

DeviceEnterHibernate(c, l, type) ==
    IF type = "A120" THEN Finish("INCOMPATIBLE_DEVICE_TYPE")
    ELSE Once(c, l, IF type = "L010" THEN LHibernate ELSE Hibernate)
DevicePower(c, l) ==
    IF l.platform THEN Finish("OK") ELSE Checked(~c.callback, [kind |-> "power"])
DeviceEcho(c, l, type) == IF type = "L010" THEN LEcho(c, l) ELSE Once(c, l, Echo(c))
DeviceReset(c, l, type) == Once(c, l, IF type = "L010" THEN LReset ELSE Reset)

\* Both take the password first; only the unlocking lends a byte for the number
\* of tries that are left.
PasswordRefused(c) == c.password.null \/ c.password.length # PasswordLength
AcceptedAlways(l) == TRUE
Accepted(l) == l.verdict

ChangeLifeCycle(c, l, type, tries, command) ==
    IF type = "L010" THEN Finish("INCOMPATIBLE_DEVICE_TYPE")
    ELSE IF PasswordRefused(c) THEN Invalid
    ELSE IF l.n = 0
         THEN Send("verify_password",
                   VerifyPassword([c EXCEPT !.verification = Buffer(1), !.tries = tries]))
    ELSE IF l.n = 1 THEN Checked(~Accepted(l), Send(command, PutLifeCycleState))
    ELSE Finish("OK")
DeviceLock(c, l, type) == ChangeLifeCycle(c, l, type, Null, "lock")
DeviceUnlock(c, l, type) == ChangeLifeCycle(c, l, type, Buffer(1), "unlock")

DeviceGetLifeCycleState(c, l, type) ==
    IF type = "L010" THEN Finish("INCOMPATIBLE_DEVICE_TYPE")
    ELSE Once(c, l, QueryLifeCycleState(c))
PutI2CParametersApi(c, l) ==
    OnceChecked(c.address > MaxAddress \/ c.standby > MaxStandby, c, l, PutI2CParameters)
================================================================================

---------------------------- MODULE CipherServices ----------------------------
(***************************************************************************)
(* The STSAFE-A services that are one command and one answer: ciphers, MAC *)
(* and hash, envelopes, random numbers, entity authentication, passwords   *)
(* and attributes.  A service is given by the arguments it refuses and by  *)
(* the elements of its two frames, in the order in which they are pushed.  *)
(* c is the record of the arguments of a call.                             *)
(***************************************************************************)
EXTENDS ServiceFrames

CONSTANTS DigestSize,     \* stsafea_hash_info_table, by algorithm
          NonceSize, CounterSize, PasswordLength, MaskIdSize, ChallengeSize,
          I2CParameters   \* sizeof(stsafea_i2c_parameters_t)

-----------------------------------------------------------------------------
(* AES                                                                     *)

SubCommand == <<Fixed("sub_command_distinguisher", 1)>>
Associated(c) == With("associated_data", c.associated_data)
Message(c) == With("message", c.message)
OutputOf(c) == <<Lent("output", c.message.length, c.output)>>
Tagged(c) == <<From("authentication_tag", c.tag)>>
Verdict(c) == <<Lent("verification_result", 1, c.verification)>>

AesEcbEncrypt(c) ==
    Service(c.message.null \/ c.output.null,
            Header \o SubCommand \o Slot \o <<From("message", c.message)>>,
            Answer \o OutputOf(c))
AesEcbDecrypt(c) ==
    Service(c.output.null \/ c.message.null,
            Header \o SubCommand \o Slot \o <<From("message", c.message)>>,
            Answer \o OutputOf(c))

\* A CCM output must be there exactly when there is a message.
CcmChunkRefused(c) ==
    \/ c.iv.null
    \/ Mismatched(c.associated_data) \/ Mismatched(c.message)
    \/ c.output.null # (c.message.length = 0)

CounterPresence == <<Fixed("counter_presence", 1)>>

\* The message goes with the associated data: it is not sent without them.
AesCcmEncrypt(c) ==
    Service(\/ CcmChunkRefused(c) \/ Mismatched(c.tag)
            \/ c.presence = 1 /\ c.counter.null,
            Header \o SubCommand \o Slot \o <<Lent("nonce", NonceSize, c.iv)>>
            \o IF c.associated_data.length # 0 THEN Associated(c) \o Message(c)
               ELSE <<Head(Associated(c)), Head(Message(c))>>,
            Answer \o OutputOf(c) \o Tagged(c) \o CounterPresence
            \o IF c.presence = 0 THEN << >>
               ELSE <<Lent("counter", CounterSize, c.counter)>>)

\* In the answer a NULL presence or counter is replaced by a variable of the
\* service; the presence is then read through the caller's pointer all the same.
AesCcmEncryptStart(c) ==
    Service(CcmChunkRefused(c),
            Extended \o Slot \o With("nonce", c.iv)
            \o <<Fixed("total_associated_data_length", 2), Fixed("total_message_length", 4)>>
            \o Associated(c) \o Message(c),
            Answer \o OutputOf(c) \o CounterPresence \o <<Fixed("counter", CounterSize)>>)

AesCcmDecrypt(c) ==
    LET both == (c.message.length + c.tag.length) % Word
    IN Service(\/ CcmChunkRefused(c) \/ Mismatched(c.tag) \/ c.verification.null,
               Header \o SubCommand \o Slot \o <<Lent("nonce", NonceSize, c.iv)>>
               \o Associated(c)
               \o <<Swap(HostOrder({"message", "authentication_tag"}, both)),
                    From("message", c.message)>>
               \o Tagged(c),
               Answer \o Verdict(c) \o OutputOf(c))

\* The four bytes of the total are a PLAT_UI16 and what follows it in memory.
AesCcmDecryptStart(c) ==
    Service(CcmChunkRefused(c),
            Extended \o Slot \o With("nonce", c.iv)
            \o <<Fixed("total_associated_data_length", 2),
                 Part("total_ciphertext_length", 4, 2, FALSE)>>
            \o Associated(c) \o Message(c),
            Answer \o OutputOf(c))

GcmChunkRefused(c) == Mismatched(c.associated_data) \/ Mismatched(c.message)
GcmOutputRefused(c) == c.output.null /\ ~c.message.null
GcmRefused(c) ==
    \/ c.iv.null \/ c.iv.length = 0
    \/ c.associated_data.null /\ c.message.null
    \/ GcmChunkRefused(c) \/ GcmOutputRefused(c) \/ c.tag.null

AesGcmEncrypt(c) ==
    Service(GcmRefused(c),
            Header \o SubCommand \o Slot \o With("iv", c.iv) \o Associated(c) \o Message(c),
            Answer \o OutputOf(c) \o Tagged(c))
AesGcmDecrypt(c) ==
    Service(GcmRefused(c),
            Header \o SubCommand \o Slot \o With("iv", c.iv) \o Associated(c) \o Message(c)
            \o Tagged(c),
            Answer \o Verdict(c) \o OutputOf(c))

\* The check of the output is written against the message itself.
AesGcmEncryptStart(c) ==
    Service(c.iv.null \/ c.iv.length = 0 \/ GcmChunkRefused(c),
            Extended \o Slot \o With("iv", c.iv) \o Associated(c) \o Message(c),
            Answer \o OutputOf(c))
AesGcmDecryptStart(c) ==
    Service(c.iv.null \/ c.iv.length = 0 \/ GcmChunkRefused(c) \/ GcmOutputRefused(c),
            Extended \o Slot \o With("iv", c.iv) \o Associated(c) \o Message(c),
            Answer \o OutputOf(c))

AesGcmEncryptProcess(c) ==
    Service(GcmChunkRefused(c) \/ GcmOutputRefused(c),
            Extended \o Associated(c) \o Message(c), Answer \o OutputOf(c))
AesGcmDecryptProcess(c) ==
    Service(GcmChunkRefused(c) \/ GcmOutputRefused(c),
            Extended \o Associated(c) \o Message(c), Answer \o OutputOf(c))

\* A tag is refused only when it has neither a buffer nor a length.
NoTag(c) == c.tag.null /\ c.tag.length = 0
AesGcmEncryptFinish(c) ==
    Service(GcmChunkRefused(c) \/ GcmOutputRefused(c) \/ NoTag(c),
            Extended \o Associated(c) \o Message(c), Answer \o OutputOf(c) \o Tagged(c))
AesGcmDecryptFinish(c) ==
    Service(GcmChunkRefused(c) \/ GcmOutputRefused(c) \/ NoTag(c) \/ c.verification.null,
            Extended \o Associated(c) \o Message(c) \o Tagged(c),
            Answer \o Verdict(c) \o OutputOf(c))

\* The later commands of CCM are those of GCM.
AesCcmEncryptProcess(c) == AesGcmEncryptProcess(c)
AesCcmEncryptFinish(c) == AesGcmEncryptFinish(c)
AesCcmDecryptProcess(c) == AesGcmDecryptProcess(c)
AesCcmDecryptFinish(c) == AesGcmDecryptFinish(c)

-----------------------------------------------------------------------------
(* MAC and hash                                                            *)

CmacHmacCompute(c) ==
    Service(c.tag.null \/ c.message.null,
            Header \o SubCommand \o Slot \o <<Fixed("mac_length", 1), From("message", c.message)>>,
            Answer \o Tagged(c))
CmacHmacVerify(c) ==
    Service(c.tag.null \/ c.message.null \/ c.verification.null,
            Header \o SubCommand \o Slot
            \o <<OneByte({"authentication_tag"}, c.tag.length)>> \o Tagged(c)
            \o <<From("message", c.message)>>,
            Answer \o Verdict(c))

WithoutMessage(c) == [c EXCEPT !.message = Null, !.output = Null]
AesGmacCompute(c) == AesGcmEncrypt(WithoutMessage(c))
AesGmacVerify(c) == AesGcmDecrypt(WithoutMessage(c))

StartHash(c) ==
    Service(c.message.null \/ c.message.length = 0,
            Extended \o HashId(c.algorithm) \o <<From("message", c.message)>>, Answer)
ProcessHash(c) ==
    Service(c.message.null \/ c.message.length = 0,
            Extended \o <<From("message", c.message)>>, Answer)
FinishHash(c) ==
    Service(c.output.null \/ c.digest_size.null \/ Mismatched(c.message),
            Extended \o <<From("message", c.message)>>,
            Answer \o <<Fixed("digest_size", 2), Lent("digest", DigestSize[c.algorithm], c.output)>>)

-----------------------------------------------------------------------------
(* Envelopes, random numbers, entities                                     *)

WrapPayload(c) ==
    Service(\/ c.message.null \/ c.output.null
            \/ c.message.length \notin 1..480 \/ c.output.length # c.message.length + 8,
            Header \o Slot \o <<From("payload", c.message)>>,
            Answer \o <<From("wrapped", c.output)>>)
UnwrapPayload(c) ==
    Service(\/ c.message.null \/ c.output.null
            \/ c.message.length \notin 8..488 \/ c.message.length # c.output.length + 8,
            Header \o Slot \o <<From("payload", c.message)>>,
            Answer \o <<From("unwrapped", c.output)>>)

GenerateRandom(c) ==
    Service(c.output.null \/ c.output.length = 0,
            Header \o <<Fixed("subject", 1), Fixed("size", 1)>>,
            Answer \o <<From("random", c.output)>>)

GenerateChallenge(c) ==
    Service(c.output.null \/ c.output.length < ChallengeSize,
            Extended,
            Answer \o <<Part("challenge", ChallengeSize, c.output.length, c.output.null)>>)
VerifyEntitySignature(c) ==
    Service(c.signature.null \/ c.verification.null \/ c.key_type \notin KeyTypes,
            Extended \o <<Fixed("filler", 1)>> \o Slot \o Signature(c.key_type, c.signature),
            Answer \o Verdict(c))

-----------------------------------------------------------------------------
(* Passwords, attributes, life of the device                               *)

Echo(c) ==
    Service(c.message.null \/ c.output.null \/ c.message.length = 0,
            Header \o <<From("message", c.message)>>, Answer \o OutputOf(c))

VerifyPassword(c) ==
    Service(c.password.length # PasswordLength,
            Header \o <<From("password", c.password)>>,
            Answer \o Verdict(c) \o <<Lent("remaining_tries", 1, c.tries)>>)
DeletePassword == Service(FALSE, Header \o Tag, Answer)

PutLifeCycleState == Service(FALSE, Header \o Tag \o <<Fixed("life_cycle_state", 1)>>, Answer)
QueryLifeCycleState(c) ==
    Service(FALSE, Header \o Tag, Answer \o <<Lent("life_cycle_state", 1, c.output)>>)
PutI2CParameters ==
    Service(FALSE, Header \o Tag \o <<Fixed("i2c_parameters", I2CParameters)>>, Answer)
QueryI2CParameters(c) ==
    Service(FALSE, Header \o Tag, Answer \o <<Lent("i2c_parameters", I2CParameters, c.output)>>)
QueryMaskId ==
    Service(FALSE, Header \o Tag,
            Answer \o <<Fixed("sub_tag", 1), Fixed("sub_tag_size", 1), Fixed("mask_id", MaskIdSize)>>)

Reset == Service(FALSE, Header, Answer)
Hibernate == Service(FALSE, Header \o <<Fixed("wake_up_mode", 1)>>, Answer)

\* Declared, and not written yet.
Patch == Service(TRUE, << >>, << >>)
===============================================================================

---------------------------- MODULE Services_proofs ----------------------------
(***************************************************************************)
(* Proofs about the calls of an application (Services), for every set of   *)
(* calls, of devices, of slots and of masks, and frames of every size: the *)
(* life cycle changes only after an accepted password; an initialised      *)
(* handle knows its device; the keys of a session are derived from its own *)
(* key; a hash is of the whole message and a buffer is filled from its     *)
(* beginning to its end, or the call does not succeed; the types; a call   *)
(* that is refused has changed nothing; no frame goes past a buffer; and   *)
(* every length that is announced is that of what it stands for.           *)
(***************************************************************************)
EXTENDS Services, Frames_proofs, SequenceTheorems, TLAPS

-----------------------------------------------------------------------------
(* What a call sends                                                       *)

\* The commands about the device itself, and an exchange of another one.
Device == {"verify_password", "lock", "unlock", "query_mask_id", "perso_info_update"}
Quiet(step) == step.kind = "send" => step.command \notin Device

LEMMA SendIs ==
    ASSUME NEW command, NEW service
    PROVE  /\ Send(command, service).kind = "send"
           /\ Send(command, service).command = command
           /\ command \notin Device => Quiet(Send(command, service))
  BY DEF Send, Quiet

LEMMA FinishIs ==
    ASSUME NEW ret
    PROVE  /\ Finish(ret).kind = "return" /\ Finish(ret).ret = ret
           /\ Quiet(Finish(ret)) /\ Quiet(Invalid)
  BY DEF Finish, Invalid, Quiet

LEMMA SendKind ==
    /\ \A command, service : /\ Send(command, service).kind = "send"
                             /\ Send(command, service).command = command
                             /\ Send(command, service).service = service
    /\ \A ret : Finish(ret).kind = "return" /\ Finish(ret).ret = ret
    /\ Invalid.kind = "return" /\ Invalid.ret = "INVALID_PARAMETER"
  BY DEF Send, Finish, Invalid

\* What a call returns by itself, and what it does next.
Codes == {"OK", "INVALID_PARAMETER", "INCOMPATIBLE_DEVICE_TYPE", "KEY_NOT_FOUND",
          "HANDLER_NOT_INITIALISED"}
Proper(op, step) ==
    /\ step.kind \in {"send", "return", "platform", "power"}
    /\ step.kind = "send" => step.command \in Commands(op)
    /\ step.kind = "return" => step.ret \in Codes

LEMMA ProperSend ==
    ASSUME NEW op, NEW command \in Commands(op), NEW service
    PROVE  Proper(op, Send(command, service))
  BY SendKind DEF Proper

LEMMA ProperFinish ==
    ASSUME NEW op
    PROVE  Proper(op, Invalid) /\ \A ret \in Codes : Proper(op, Finish(ret))
  <1>1. "INVALID_PARAMETER" \in Codes
    BY DEF Codes
  <1> QED
    BY <1>1, SendKind DEF Proper

LEMMA ProperChecked ==
    ASSUME NEW op, NEW refuses, NEW step, Proper(op, step)
    PROVE  Proper(op, Checked(refuses, step))
  BY ProperFinish DEF Checked

LEMMA ProperOnce ==
    ASSUME NEW c, NEW l, NEW service, NEW refuses
    PROVE  Proper(c.op, Once(c, l, service)) /\ Proper(c.op, OnceChecked(refuses, c, l, service))
  <1>1. Proper(c.op, Once(c, l, service))
    <2>1. c.op \in Commands(c.op) /\ "OK" \in Codes
      BY DEF Commands, Codes
    <2> QED
      BY <2>1, ProperSend, ProperFinish DEF Once
  <1> QED
    BY <1>1, ProperChecked DEF OnceChecked

LEMMA ProperEcho ==
    ASSUME NEW c, NEW l
    PROVE  Proper(c.op, LEcho(c, l))
  <1>1. "OK" \in Codes
    BY DEF Codes
  <1> QED
    BY <1>1, ProperOnce, ProperFinish DEF LEcho

\* Which commands the functions of several exchanges send.
LEMMA ProperSeveral ==
    ASSUME NEW c, NEW l, NEW type
    PROVE  /\ c.op = "compute_hash" => Proper(c.op, ComputeHash(c, l, type))
           /\ c.op = "generate_random" => Proper(c.op, RandomNumbers(c, l, type))
           /\ c.op = "get_ecc_key_slot_info" => Proper(c.op, GetEccKeySlotInfo(c, l))
           /\ c.op = "get_symmetric_key_slot_info" => Proper(c.op, GetSymmetricKeySlotInfo(c, l))
           /\ c.op = "derive_session_keys" => Proper(c.op, DeriveSessionKeys(c, l))
           /\ c.op = "init" => Proper(c.op, InitHandle(c, l, type))
           /\ c.op \in {"device_lock", "device_unlock"} =>
                Proper(c.op, DeviceLock(c, l, type)) /\ Proper(c.op, DeviceUnlock(c, l, type))
           /\ Proper(c.op, DevicePower(c, l))
  <1>0. {"OK", "INCOMPATIBLE_DEVICE_TYPE", "KEY_NOT_FOUND"} \subseteq Codes
    BY DEF Codes
  <1> USE <1>0, ProperSend, ProperFinish, ProperChecked
  <1>1. ASSUME c.op = "compute_hash" PROVE Proper(c.op, ComputeHash(c, l, type))
    <2>1. {"start_hash", "process_hash", "finish_hash"} \subseteq Commands(c.op)
      BY <1>1 DEF Commands, HashCalls
    <2> QED
      BY <2>1 DEF ComputeHash, Hashed
  <1>2. ASSUME c.op = "generate_random" PROVE Proper(c.op, RandomNumbers(c, l, type))
    <2>1. "generate_random" \in Commands(c.op)
      BY <1>2 DEF Commands
    <2> QED
      BY <2>1 DEF RandomNumbers
  <1>3. /\ c.op = "get_ecc_key_slot_info" => Proper(c.op, GetEccKeySlotInfo(c, l))
        /\ c.op = "get_symmetric_key_slot_info" => Proper(c.op, GetSymmetricKeySlotInfo(c, l))
    <2>1. /\ c.op = "get_ecc_key_slot_info" =>
               {"query_private_key_slots_count", "query_private_key_table"} \subseteq Commands(c.op)
          /\ c.op = "get_symmetric_key_slot_info" =>
               {"query_symmetric_key_slots_count", "query_symmetric_key_table"}
                 \subseteq Commands(c.op)
      BY DEF Commands
    <2> QED
      BY <2>1 DEF GetEccKeySlotInfo, GetSymmetricKeySlotInfo
  <1>4. ASSUME c.op = "derive_session_keys" PROVE Proper(c.op, DeriveSessionKeys(c, l))
    <2>1. {"extract", "expand_enc", "expand_mac"} \subseteq Commands(c.op)
      BY <1>4 DEF Commands
    <2> QED
      BY <2>1 DEF DeriveSessionKeys
  <1>5. Proper(c.op, [kind |-> "platform"]) /\ Proper(c.op, [kind |-> "power"])
    BY DEF Proper
  <1>6. ASSUME c.op = "init" PROVE Proper(c.op, InitHandle(c, l, type))
    <2>1. {"query_mask_id", "perso_info_update"} \subseteq Commands(c.op)
      BY <1>6 DEF Commands
    <2> QED
      BY <1>5, <2>1 DEF InitHandle
  <1>7. ASSUME c.op \in {"device_lock", "device_unlock"}
        PROVE  Proper(c.op, DeviceLock(c, l, type)) /\ Proper(c.op, DeviceUnlock(c, l, type))
    <2>1. {"verify_password", "lock", "unlock"} \subseteq Commands(c.op)
      BY <1>7 DEF Commands
    <2>2. ASSUME NEW tries, NEW command \in {"lock", "unlock"}
          PROVE  Proper(c.op, ChangeLifeCycle(c, l, type, tries, command))
      BY <2>1 DEF ChangeLifeCycle
    <2> QED
      BY <2>2 DEF DeviceLock, DeviceUnlock
  <1>8. Proper(c.op, DevicePower(c, l))
    BY <1>5 DEF DevicePower
  <1> QED
    BY <1>1, <1>2, <1>3, <1>4, <1>6, <1>7, <1>8

LEMMA ProperStep ==
    ASSUME NEW c, "op" \in DOMAIN c, NEW l, NEW type
    PROVE  Proper(c.op, Step(c, l, type))
  <1> DEFINE Ciphering ==
          /\ Proper(c.op, Once(c, l, AesEcbAndCcmEncryption(c)))
          /\ Proper(c.op, Once(c, l, AesCcmDecryption(c)))
          /\ Proper(c.op, Once(c, l, AesGcmEncryption(c)))
          /\ Proper(c.op, Once(c, l, AesGcmDecryption(c)))
          /\ Proper(c.op, Once(c, l, Mac(c))) /\ Proper(c.op, Once(c, l, SymmetricKeyApi(c)))
          /\ Proper(c.op, OnceChecked(HashApiRefused(c), c, l, HashApi(c)))
          /\ Proper(c.op, Once(c, l, DirectService(c)))
  <1>1. Ciphering
    BY ProperOnce
  <1>4. Proper(c.op, EccVerifySignatureApi(c, l)) /\ Proper(c.op, EccGenerateSignatureApi(c, l, type))
        /\ Proper(c.op, EccEstablishSharedSecretApi(c, l))
        /\ Proper(c.op, EccDecompressPublicKeyApi(c, l))
    BY ProperOnce DEF EccVerifySignatureApi, EccGenerateSignatureApi, EccEstablishSharedSecretApi,
                      EccDecompressPublicKeyApi
  <1>5. Proper(c.op, GetEccKeySlotsCount(c, l)) /\ Proper(c.op, GetEccKeyTableInfo(c, l))
        /\ Proper(c.op, GenerateEcdheKeyPairApi(c, l)) /\ Proper(c.op, GenerateEccKeyPairApi(c, l))
        /\ Proper(c.op, WriteGenericEccPublicKeyApi(c, l))
    BY ProperOnce DEF GetEccKeySlotsCount, GetEccKeyTableInfo, GenerateEcdheKeyPairApi,
                      GenerateEccKeyPairApi, WriteGenericEccPublicKeyApi
  <1>8. Proper(c.op, DeriveKey(c, l)) /\ Proper(c.op, DeriveKeyExtract(c, l))
        /\ Proper(c.op, DeriveKeyExpand(c, l))
        /\ Proper(c.op, DeriveKeyToSlot(c, l)) /\ Proper(c.op, DeriveKeyExpandMultiple(c, l))
        /\ Proper(c.op, DeriveKeyFromIkm(c, l))
    BY ProperOnce DEF DeriveKey, DeriveKeyExtract, DeriveKeyExpand, DeriveKeyToSlot,
                      DeriveKeyExpandMultiple, DeriveKeyFromIkm
  <1>9. Proper(c.op, DeriveKeySimple(c, l))
    <2> DEFINE unsalted == [c EXCEPT !.salt_data = Null]
    <2>1. unsalted.op = c.op
      OBVIOUS
    <2> HIDE DEF unsalted
    <2>2. Proper(unsalted.op, DeriveKey(unsalted, l))
      BY ProperOnce DEF DeriveKey
    <2> QED
      BY <2>1, <2>2 DEF DeriveKeySimple, unsalted
  <1>10. {"OK", "INCOMPATIBLE_DEVICE_TYPE", "HANDLER_NOT_INITIALISED"} \subseteq Codes
    BY DEF Codes
  <1>11. Proper(c.op, DeviceEnterHibernate(c, l, type)) /\ Proper(c.op, DeviceEcho(c, l, type))
         /\ Proper(c.op, DeviceReset(c, l, type)) /\ Proper(c.op, DeviceGetLifeCycleState(c, l, type))
         /\ Proper(c.op, PutI2CParametersApi(c, l))
    BY <1>10, ProperOnce, ProperFinish, ProperEcho
    DEF DeviceEnterHibernate, DeviceEcho, DeviceReset, DeviceGetLifeCycleState, PutI2CParametersApi
  <1>13. Proper(c.op, LWakeup(c, l))
    <2> DEFINE probe == [c EXCEPT !.message = Buffer(1), !.output = Buffer(1)]
    <2>1. probe.op = c.op
      OBVIOUS
    <2> HIDE DEF probe
    <2>2. Proper(c.op, LEcho(probe, l))
      BY <2>1, ProperEcho
    <2> QED
      BY <1>10, <2>2, ProperFinish, ProperChecked DEF LWakeup, probe
  <1> HIDE DEF Ciphering
  <1>14. Proper(c.op, Finish("HANDLER_NOT_INITIALISED"))
    BY <1>10, ProperFinish
  <1> QED
    BY <1>1, <1>4, <1>5, <1>8, <1>9, <1>11, <1>13, <1>14, ProperSeveral DEF Step, Ciphering

\* Only stse_init, stse_device_lock and stse_device_unlock send these.
LEMMA StepIs ==
    ASSUME NEW c, "op" \in DOMAIN c, c.op \notin Internal, NEW l, NEW type,
           c.op \notin {"init", "device_lock", "device_unlock"}
    PROVE  Quiet(Step(c, l, type))
  <1>1. Commands(c.op) \cap Device = {}
    BY DEF Commands, Device, HashCalls, Internal
  <1> QED
    BY <1>1, ProperStep DEF Proper, Quiet

\* A lock or an unlock is sent after a password that was found right.
LEMMA LockStep ==
    ASSUME NEW c, NEW l, NEW type, c.op \in {"device_lock", "device_unlock"},
           Step(c, l, type).kind = "send"
    PROVE  /\ Step(c, l, type).command \in {"verify_password", "lock", "unlock"}
           /\ Step(c, l, type).command # "verify_password" => l.verdict
  <1>1. ASSUME NEW tries, NEW command, command \in {"lock", "unlock"},
               ChangeLifeCycle(c, l, type, tries, command).kind = "send"
        PROVE  LET step == ChangeLifeCycle(c, l, type, tries, command)
               IN /\ step.command \in {"verify_password", "lock", "unlock"}
                  /\ step.command # "verify_password" => l.verdict
    BY <1>1, SendIs, FinishIs DEF ChangeLifeCycle, Checked, Accepted, Invalid
  <1>2. \/ Step(c, l, type) = Finish("HANDLER_NOT_INITIALISED")
        \/ Step(c, l, type) = DeviceLock(c, l, type)
        \/ Step(c, l, type) = DeviceUnlock(c, l, type)
    BY DEF Step, EcbAndCcm, CcmDecryption, GcmEncryption, GcmDecryption, MacCalls, HashCalls,
           SymmetricKeyCalls
  <1> QED
    BY <1>1, <1>2, FinishIs DEF DeviceLock, DeviceUnlock

\* stse_init is InitHandle, unless the handle is absent.
LEMMA InitStep ==
    ASSUME NEW c, NEW l, NEW type, c.op = "init"
    PROVE  \/ Step(c, l, type) = Finish("HANDLER_NOT_INITIALISED")
           \/ Step(c, l, type) = InitHandle(c, l, type)
  BY DEF Step, EcbAndCcm, CcmDecryption, GcmEncryption, GcmDecryption, MacCalls, HashCalls,
         SymmetricKeyCalls

\* It asks for the mask, and looks at it before it asks for the rest.
LEMMA InitSends ==
    ASSUME NEW c, NEW l, NEW type, c.op = "init", Step(c, l, type).kind = "send"
    PROVE  /\ type # "L010"
           /\ \/ l.n = 0 /\ Step(c, l, type).command = "query_mask_id"
              \/ /\ l.n = 1 /\ ~(l.mask < MaskA100)
                 /\ Step(c, l, type).command = "perso_info_update"
  <1>1. Step(c, l, type) = InitHandle(c, l, type)
    BY InitStep, FinishIs
  <1> QED
    BY <1>1 DEF InitHandle, Invalid, Finish, Send

LEMMA InitReturns ==
    ASSUME NEW c, NEW l, NEW type, c.op = "init",
           Step(c, l, type).kind = "return", Step(c, l, type).ret = "OK"
    PROVE  type = "L010" \/ l.n \notin {0, 1}
  <1>1. Step(c, l, type) = InitHandle(c, l, type)
    BY InitStep, FinishIs
  <1> QED
    BY <1>1 DEF InitHandle, Invalid, Finish, Send

-----------------------------------------------------------------------------
(* What an exchange does                                                   *)

\* The secure element keeps its mask; lock and unlock change its life cycle.
LEMMA PerformedIs ==
    ASSUME Shape, NEW o \in Performed(se) \cup {Refusal(se)}
    PROVE  /\ {"mask", "life"} \subseteq DOMAIN o.se /\ o.se.mask = se.mask
           /\ cmd.command \notin {"lock", "unlock"} => o.se.life = se.life
           /\ cmd.command = "query_mask_id" /\ o.reply.status = "OK" => o.reply.number = se.mask
           /\ cmd.command = "verify_password" /\ o.reply.number # 0 => o.reply.number = 1
  <1> DEFINE Kept(s) == {"mask", "life"} \subseteq DOMAIN s /\ s.mask = se.mask /\ s.life = se.life
  <1>0. {"mask", "life"} \subseteq DOMAIN se
    BY DEF Shape
  <1>1. \A s : /\ Done(s).se = s /\ Done(s).reply.number = 0
               /\ Refusal(s).se = s /\ Refusal(s).reply.number = 0
               /\ Refusal(s).reply.status = "ERROR"
               /\ \A n : DoneWith(s, n).se = s /\ DoneWith(s, n).reply.number = n
    BY DEF Done, Refusal, DoneWith, NoReply
  <1>2. CASE o = Refusal(se)
    BY <1>0, <1>1, <1>2
  <1>3. CASE o \in Performed(se)
    <2>1. CASE cmd.command = "verify_password"
      <3>1. o \in Passwords(se)
        BY <1>3, <2>1 DEF Performed, HashCalls, Counts
      <3> QED
        BY <1>0, <1>1, <2>1, <3>1 DEF Passwords
    <2>2. CASE cmd.command = "lock"
      <3>1. o = Done([se EXCEPT !.life = "LOCKED"])
        BY <1>3, <2>2 DEF Performed, HashCalls, Counts
      <3> QED
        BY <1>0, <1>1, <2>2, <3>1
    <2>3. CASE cmd.command = "unlock"
      <3>1. o = Done([se EXCEPT !.life = "OPERATIONAL"])
        BY <1>3, <2>3 DEF Performed, HashCalls, Counts
      <3> QED
        BY <1>0, <1>1, <2>3, <3>1
    <2>4. CASE cmd.command \in HashCalls
      <3>1. o \in Hashing(se)
        BY <1>3, <2>4 DEF Performed, HashCalls, Counts
      <3>2. \A v : Kept([se EXCEPT !.hash = v])
        BY <1>0
      <3>3. CASE cmd.command = "start_hash"
        <4>1. \E v : o = Done([se EXCEPT !.hash = v])
          BY <3>1, <3>3 DEF Hashing
        <4> QED
          BY <1>1, <3>2, <3>3, <4>1
      <3>4. CASE cmd.command # "start_hash" /\ ~se.hash.open
        <4>1. o = Refusal(se)
          BY <2>4, <3>1, <3>4 DEF Hashing, HashCalls
        <4> QED
          BY <1>0, <1>1, <3>4, <4>1
      <3>5. CASE cmd.command = "process_hash" /\ se.hash.open
        <4>1. \E v : o = Done([se EXCEPT !.hash = v])
          BY <3>1, <3>5 DEF Hashing
        <4> QED
          BY <1>1, <3>2, <3>5, <4>1
      <3>6. CASE cmd.command = "finish_hash" /\ se.hash.open
        <4>1. o.se = [se EXCEPT !.hash = Nothing]
          BY <3>1, <3>6 DEF Hashing
        <4> QED
          BY <3>2, <3>6, <4>1
      <3> QED
        BY <2>4, <3>3, <3>4, <3>5, <3>6 DEF HashCalls
    <2>5. CASE cmd.command \in {"extract", "derive_key_extract"}
      <3>1. \E i \in Free(se) : o = DoneWith([se EXCEPT !.prk[i] = call.session], i)
        BY <1>3, <2>5 DEF Performed, HashCalls, Counts
      <3> QED
        BY <1>0, <1>1, <2>5, <3>1
    <2>6. CASE cmd.command \in {"expand_enc", "expand_mac"}
      <3>1. o = Refusal(se) \/ \E n : o = DoneWith(se, n)
        BY <1>3, <2>6 DEF Performed, HashCalls, Counts
      <3> QED
        BY <1>0, <1>1, <2>6, <3>1
    <2>7. CASE cmd.command \in Counts
      <3>1. o = DoneWith(se, SlotCount)
        BY <1>3, <2>7 DEF Performed, HashCalls, Counts
      <3> QED
        BY <1>0, <1>1, <2>7, <3>1 DEF Counts
    <2>8. CASE cmd.command = "query_mask_id"
      <3>1. o = DoneWith(se, se.mask)
        BY <1>3, <2>8 DEF Performed, HashCalls, Counts
      <3> QED
        BY <1>0, <1>1, <2>8, <3>1
    <2>9. CASE cmd.command \in {"device_reset", "device_enter_hibernate"}
      <3>1. o = Done(WithoutPower(se))
        BY <1>3, <2>9 DEF Performed, HashCalls, Counts
      <3>2. Kept(WithoutPower(se))
        BY <1>0 DEF WithoutPower
      <3> QED
        BY <1>1, <2>9, <3>1, <3>2
    <2>10. CASE cmd.command \notin {"verify_password", "lock", "unlock", "extract",
                    "derive_key_extract", "expand_enc", "expand_mac", "query_mask_id",
                    "device_reset", "device_enter_hibernate"} \cup HashCalls \cup Counts
      <3>1. o = Done(se)
        BY <1>3, <2>10 DEF Performed
      <3> QED
        BY <1>0, <1>1, <2>10, <3>1
    <2> QED
      BY <2>1, <2>2, <2>3, <2>4, <2>5, <2>6, <2>7, <2>8, <2>9, <2>10
  <1> QED
    BY <1>2, <1>3

LEMMA MinIs ==
    ASSUME NEW n \in Nat
    PROVE  Min({n + 1, 3}) = IF n < 2 THEN n + 1 ELSE 3
  BY DEF Min

\* What the call keeps of an answer.
LEMMA AfterIs ==
    ASSUME Shape
    PROVE  /\ {"n", "verdict", "mask", "platform"} \subseteq DOMAIN After
           /\ After.n = IF local.n < 2 THEN local.n + 1 ELSE 3
           /\ After.verdict = IF cmd.command = "verify_password"
                              THEN reply.number # 0 ELSE local.verdict
           /\ After.mask = IF cmd.command = "query_mask_id" THEN reply.number ELSE local.mask
  <1> DEFINE l == [local EXCEPT !.n = Min({@ + 1, 3})]
             Kept(k) == /\ {"n", "verdict", "mask", "platform"} \subseteq DOMAIN k
                        /\ k.n = l.n /\ k.verdict = l.verdict /\ k.mask = l.mask
  <1>1. /\ {"n", "verdict", "mask", "platform"} \subseteq DOMAIN l
        /\ l.n = (IF local.n < 2 THEN local.n + 1 ELSE 3)
        /\ l.verdict = local.verdict /\ l.mask = local.mask
    BY MinIs DEF Shape
  <1> HIDE DEF l
  <1>2. CASE cmd.command = "verify_password"
    <2>1. After = [l EXCEPT !.verdict = (reply.number # 0)]
      BY <1>2 DEF After, l, Counts, PrivateTables, SymmetricTables
    <2> QED
      BY <1>1, <1>2, <2>1
  <1>3. CASE cmd.command = "query_mask_id"
    <2>1. After = [l EXCEPT !.mask = reply.number]
      BY <1>3 DEF After, l, Counts, PrivateTables, SymmetricTables
    <2> QED
      BY <1>1, <1>3, <2>1
  <1>4. CASE cmd.command \notin {"verify_password", "query_mask_id"}
    <2>1. Kept(After)
      <3>1. \/ After = l
            \/ \E v : After = [l EXCEPT !.done = v]
            \/ \E v, w : After = [l EXCEPT !.finished = v, !.covered = w]
            \/ \E v, w : After = [l EXCEPT !.done = v, !.covered = w]
            \/ \E v : After = [l EXCEPT !.count = v]
            \/ \E v, w : After = [l EXCEPT !.wrote = v, !.room = w]
            \/ \E v : After = [l EXCEPT !.prk = v]
            \/ \E v : After = [l EXCEPT !.enc = v]
            \/ \E v : After = [l EXCEPT !.mac = v]
        BY <1>4 DEF After, l, Counts, PrivateTables, SymmetricTables
      <3> QED
        BY <1>1, <3>1
    <2> QED
      BY <1>1, <1>4, <2>1
  <1> QED
    BY <1>2, <1>3, <1>4

-----------------------------------------------------------------------------
(* The shape of the state                                                  *)

\* What becomes of the call when an exchange fails: it goes on only in
\* stse_get_ecc_key_slot_info.
LEMMA ExchangeFailsIs ==
    ASSUME Shape, NEW ret, ExchangeFails(ret)
    PROVE  \/ /\ phase' = "host" /\ call.op = "get_ecc_key_slot_info"
              /\ {"n", "verdict", "mask", "platform"} \subseteq DOMAIN local'
              /\ local'.n \in Nat /\ local'.verdict = local.verdict
           \/ phase' = "returned" /\ local' = local
  <1>1. CASE IgnoresResult
    <2>1. PICK k \in GarbageCounts : local' = [local EXCEPT !.n = @ + 1, !.count = k]
      BY <1>1 DEF ExchangeFails
    <2>2. phase' = "host" /\ call.op = "get_ecc_key_slot_info"
      BY <1>1 DEF ExchangeFails, IgnoresResult
    <2> QED
      BY <2>1, <2>2 DEF Shape
  <1>2. CASE ~IgnoresResult
    BY <1>2 DEF ExchangeFails, Returns
  <1> QED
    BY <1>1, <1>2

\* The records have their fields, from the start and after every step.
LEMMA InitShape == Init => Shape
  <1> SUFFICES ASSUME Init PROVE Shape
    OBVIOUS
  <1>1. PICK type \in Types, mask \in Masks, life \in {"OPERATIONAL", "LOCKED"} :
          /\ handle = [type |-> type, ready |-> FALSE]
          /\ se = [NewElement(IF type = "L010" THEN 0 ELSE mask) EXCEPT !.life = life]
    BY DEF Init
  <1>2. {"mask", "life"} \subseteq DOMAIN se /\ se.mask \in Nat
    BY <1>1, MaskAssumption DEF NewElement
  <1>3. {"type", "ready"} \subseteq DOMAIN handle /\ handle.type \in DOMAIN Calls
    BY <1>1, CallsAssumption
  <1>4. "op" \in DOMAIN NoCall /\ NoCall.op \notin Internal
    BY DEF NoCall, Internal
  <1>5. {"n", "verdict", "mask", "platform"} \subseteq DOMAIN NoLocal /\ NoLocal.n \in Nat
        /\ "accepted" \in DOMAIN NoPast
    BY DEF NoLocal, NoPast
  <1> QED
    BY <1>2, <1>3, <1>4, <1>5 DEF Init, Shape

LEMMA NextShape == Shape /\ [Next]_vars => Shape'
  <1> SUFFICES ASSUME Shape, [Next]_vars PROVE Shape'
    OBVIOUS
  <1> USE DEF Shape
  <1>1. CASE \E c \in Calls[handle.type] : Call(c)
    BY <1>1, CallsAssumption DEF Call
  <1>2. CASE HostReturns
    BY <1>2 DEF HostReturns, Returns
  <1>3. CASE PreparesPlatform
    BY <1>3 DEF PreparesPlatform, Returns
  <1>4. CASE SwitchesPower
    BY <1>4 DEF SwitchesPower, WithoutPower
  <1>5. CASE HostSends
    <2>1. CASE RefusalOf(NextStep.service) = "NONE"
      BY <1>5, <2>1 DEF HostSends
    <2>2. CASE RefusalOf(NextStep.service) # "NONE"
      BY <1>5, <2>2, ExchangeFailsIs DEF HostSends
    <2> QED
      BY <2>1, <2>2
  <1>6. CASE Deliver
    <2>1. phase' \in {"returned", "host"} /\ local' \in {local, After}
      BY <1>6 DEF Deliver, Returns
    <2>2. {"type", "ready"} \subseteq DOMAIN handle' /\ handle'.type \in DOMAIN Calls
      <3>1. CASE handle' = handle
        BY <3>1
      <3>2. CASE handle' # handle
        <4>1. handle' = [handle EXCEPT !.type = ProductOf(reply.number)]
          BY <1>6, <3>2 DEF Deliver
        <4>2. ProductOf(reply.number) \in {"A100", "A110", "A120"}
          BY DEF ProductOf
        <4> QED
          BY <4>1, <4>2, CallsAssumption
      <3> QED
        BY <3>1, <3>2
    <2> QED
      BY <1>6, <2>1, <2>2, AfterIs DEF Deliver
  <1>7. CASE Fails
    <2>1. PICK ret : ExchangeFails(ret)
      BY <1>7 DEF Fails
    <2> QED
      BY <1>7, <2>1, ExchangeFailsIs DEF Fails
  <1>8. CASE Execute \/ Retransmit
    <2>1. PICK o \in Performed(se) \cup {Refusal(se)} : Executes!(o)
      BY <1>8 DEF Execute, Retransmit, Executes
    <2>2. {"mask", "life"} \subseteq DOMAIN se' /\ se'.mask \in Nat
      BY <2>1, PerformedIs
    <2>3. "accepted" \in DOMAIN past'
      BY <2>1
    <2> QED
      BY <1>8, <2>2, <2>3 DEF Execute, Retransmit
  <1>9. CASE PowerLoss
    BY <1>9 DEF PowerLoss, WithoutPower
  <1>10. CASE OtherTask
    BY <1>10 DEF OtherTask
  <1>11. CASE Return
    BY <1>11 DEF Return, NoCall, NoLocal, NoPast, Internal
  <1>12. CASE UNCHANGED vars
    BY <1>12 DEF vars
  <1> QED
    BY <1>1, <1>2, <1>3, <1>4, <1>5, <1>6, <1>7, <1>8, <1>9, <1>10, <1>11, <1>12 DEF Next, Host

-----------------------------------------------------------------------------
(* The password comes first                                                *)

\* The acceptance is remembered by every step.
LEMMA AcceptStep ==
    ASSUME Shape, AcceptInv, [Next]_vars
    PROVE  AcceptInv'
  <1> USE DEF AcceptInv, OnTheWay
  <1>1. CASE \E c \in Calls[handle.type] : Call(c)
    BY <1>1 DEF Call
  <1>2. CASE HostReturns
    BY <1>2 DEF HostReturns, Returns
  <1>3. CASE PreparesPlatform
    <2>1. local'.verdict = local.verdict
      BY <1>3 DEF PreparesPlatform, Shape
    <2> QED
      BY <1>3, <2>1 DEF PreparesPlatform, Returns
  <1>4. CASE SwitchesPower
    <2>1. local'.verdict = local.verdict
      BY <1>4 DEF SwitchesPower, Shape
    <2> QED
      BY <1>4, <2>1 DEF SwitchesPower
  <1>5. CASE HostSends
    <2>1. CASE RefusalOf(NextStep.service) = "NONE"
      <3>1. NextStep.kind = "send" /\ cmd' = NextStep /\ phase' = "bus"
            /\ UNCHANGED <<local, past>>
        BY <1>5, <2>1 DEF HostSends
      <3>2. NextStep.command \in {"lock", "unlock"} => local.verdict
        <4>1. CASE call.op \in {"device_lock", "device_unlock"}
          BY <3>1, <4>1, LockStep DEF NextStep
        <4>2. CASE call.op = "init"
          BY <3>1, <4>2, InitSends DEF NextStep
        <4>3. CASE call.op \notin {"init", "device_lock", "device_unlock"}
          <5>1. Quiet(NextStep)
            BY <4>3, StepIs DEF NextStep, Shape
          <5> QED
            BY <3>1, <5>1 DEF Quiet, Device
        <4> QED
          BY <4>1, <4>2, <4>3
      <3> QED
        BY <3>1, <3>2
    <2>2. CASE RefusalOf(NextStep.service) # "NONE"
      BY <1>5, <2>2, ExchangeFailsIs DEF HostSends
    <2> QED
      BY <2>1, <2>2
  <1>6. CASE Deliver
    <2>1. phase' \in {"returned", "host"} /\ local' \in {local, After} /\ past' = past
      BY <1>6 DEF Deliver, Returns
    <2>2. After.verdict => past.accepted
      BY <1>6, AfterIs DEF Deliver
    <2> QED
      BY <2>1, <2>2
  <1>7. CASE Fails
    <2>1. PICK ret : ExchangeFails(ret)
      BY <1>7 DEF Fails
    <2> QED
      BY <1>7, <2>1, ExchangeFailsIs DEF Fails
  <1>8. CASE Execute \/ Retransmit
    <2>1. PICK o \in Performed(se) \cup {Refusal(se)} : Executes!(o)
      BY <1>8 DEF Execute, Retransmit, Executes
    <2>2. past'.accepted = (past.accepted \/ (cmd.command = "verify_password" /\ reply'.number = 1))
      BY <2>1 DEF Shape
    <2>3. cmd.command = "verify_password" /\ reply'.number # 0 => reply'.number = 1
      BY <2>1, PerformedIs
    <2>4. OnTheWay /\ phase' = "answered" /\ UNCHANGED <<cmd, local>>
      BY <1>8 DEF Execute, Retransmit
    <2> QED
      BY <2>2, <2>3, <2>4
  <1>9. CASE PowerLoss
    <2>1. past'.accepted = past.accepted
      BY <1>9 DEF PowerLoss, Shape
    <2> QED
      BY <1>9, <2>1 DEF PowerLoss
  <1>10. CASE OtherTask
    <2>1. past'.accepted = past.accepted
      BY <1>10 DEF OtherTask, Shape
    <2> QED
      BY <1>10, <2>1 DEF OtherTask
  <1>11. CASE Return
    BY <1>11 DEF Return, NoLocal
  <1>12. CASE UNCHANGED vars
    BY <1>12 DEF vars
  <1> QED
    BY <1>1, <1>2, <1>3, <1>4, <1>5, <1>6, <1>7, <1>8, <1>9, <1>10, <1>11, <1>12 DEF Next, Host

\* Only the execution of lock and unlock changes the life cycle.
LEMMA LifeStep ==
    ASSUME Shape, AcceptInv, [Next]_vars, se'.life # se.life
    PROVE  past.accepted
  <1>1. CASE Execute \/ Retransmit
    <2>1. PICK o \in Performed(se) \cup {Refusal(se)} : Executes!(o)
      BY <1>1 DEF Execute, Retransmit, Executes
    <2>2. cmd.command \in {"lock", "unlock"}
      BY <2>1, PerformedIs
    <2> QED
      BY <1>1, <2>2 DEF AcceptInv, OnTheWay, Execute, Retransmit
  <1>2. CASE SwitchesPower
    BY <1>2 DEF SwitchesPower, WithoutPower, Shape
  <1>3. CASE PowerLoss
    BY <1>3 DEF PowerLoss, WithoutPower, Shape
  <1>4. CASE OtherTask
    BY <1>4 DEF OtherTask, Shape
  <1>5. CASE UNCHANGED se
    BY <1>5
  <1> QED
    BY <1>1, <1>2, <1>3, <1>4, <1>5
    DEF Next, Host, Call, HostReturns, PreparesPlatform, HostSends, Deliver, Fails, Return, vars

\* The life cycle changes only in a call for which the secure element accepted
\* the password (stse_device_lock, stse_device_unlock), for every set of calls.
THEOREM PasswordIsFirst == Spec => PasswordFirst
  <1>1. Init => AcceptInv
    BY DEF Init, AcceptInv, OnTheWay, NoLocal
  <1>2. Shape /\ AcceptInv /\ [Next]_vars => Shape' /\ AcceptInv'
    BY NextShape, AcceptStep
  <1>3. Shape /\ AcceptInv /\ [Next]_vars => [se'.life # se.life => past.accepted]_vars
    BY LifeStep
  <1> QED
    BY <1>1, <1>2, <1>3, InitShape, PTL DEF Spec, PasswordFirst

-----------------------------------------------------------------------------
(* An initialised handle knows its device                                  *)

\* The product that is computed is the one whose range of masks has the mask.
LEMMA ProductFollows ==
    ASSUME NEW mask \in Nat, mask >= MaskA100
    PROVE  ProductOf(mask) = CASE mask >= MaskA120 -> "A120"
                               [] mask \in MaskA110..(MaskA120 - 1) -> "A110"
                               [] mask \in MaskA100..(MaskA110 - 1) -> "A100"
                               [] OTHER -> "none"
  <1>1. CASE mask >= MaskA120
    <2>1. mask \notin MaskA110..(MaskA120 - 1) /\ mask \notin MaskA100..(MaskA110 - 1)
      BY <1>1, MaskAssumption
    <2> QED
      BY <1>1, <2>1 DEF ProductOf
  <1>2. CASE mask < MaskA120 /\ mask >= MaskA110
    <2>1. /\ ~(mask >= MaskA120) /\ mask \in MaskA110..(MaskA120 - 1)
          /\ mask \notin MaskA100..(MaskA110 - 1)
      BY <1>2, MaskAssumption
    <2> QED
      BY <1>2, <2>1 DEF ProductOf
  <1>3. CASE mask < MaskA110
    <2>1. /\ ~(mask >= MaskA120) /\ ~(mask >= MaskA110)
          /\ mask \notin MaskA110..(MaskA120 - 1) /\ mask \in MaskA100..(MaskA110 - 1)
      BY <1>3, MaskAssumption
    <2> QED
      BY <2>1 DEF ProductOf
  <1> QED
    BY <1>1, <1>2, <1>3, MaskAssumption

\* A step that changes nothing of them keeps the conjuncts of InitInv.
LEMMA InitInvKept ==
    ASSUME Shape, InitInv, handle' = handle, se'.mask = se.mask, call' = call,
           local'.n = local.n, local'.mask = local.mask,
           phase' \notin {"bus", "answered"}
    PROVE  InitInv'
  BY DEF InitInv, OnTheWay, TypeFollows

\* The type of the handle follows the mask through every step.
LEMMA InitInvStep ==
    ASSUME Shape, InitInv, [Next]_vars
    PROVE  InitInv'
  <1>1. CASE \E c \in Calls[handle.type] : Call(c)
    <2>1. phase' = "host" /\ local.n = 0 /\ UNCHANGED <<handle, se, local>>
      BY <1>1 DEF Call, Shape, NoLocal
    <2> QED
      BY <2>1 DEF InitInv, OnTheWay, TypeFollows
  <1>2. CASE HostReturns
    <2>1. /\ phase' = "returned" /\ UNCHANGED <<se, call, local>>
          /\ NextStep.kind = "return"
          /\ handle' = [handle EXCEPT !.ready = @ \/ (call.op = "init" /\ NextStep.ret = "OK")]
      BY <1>2 DEF HostReturns, Returns
    <2>2. handle'.type = handle.type
          /\ handle'.ready = (handle.ready \/ (call.op = "init" /\ NextStep.ret = "OK"))
      BY <2>1 DEF Shape
    <2>3. call.op = "init" /\ NextStep.ret = "OK" => TypeFollows
      <3>1. SUFFICES ASSUME call.op = "init", NextStep.ret = "OK" PROVE TypeFollows
        OBVIOUS
      <3>2. handle.type = "L010" \/ local.n > 1
        BY <2>1, <3>1, InitReturns DEF NextStep, Shape
      <3> QED
        BY <3>1, <3>2 DEF InitInv, TypeFollows
    <2> QED
      BY <2>1, <2>2, <2>3 DEF InitInv, OnTheWay, TypeFollows
  <1>3. CASE PreparesPlatform
    <2>1. local'.n = local.n /\ local'.mask = local.mask /\ phase' \in {"host", "returned"}
      BY <1>3 DEF PreparesPlatform, Returns, Shape
    <2> QED
      BY <1>3, <2>1, InitInvKept DEF PreparesPlatform
  <1>4. CASE SwitchesPower
    <2>1. /\ local'.n = local.n /\ local'.mask = local.mask /\ phase' = "host"
          /\ se'.mask = se.mask
      BY <1>4 DEF SwitchesPower, WithoutPower, Shape
    <2> QED
      BY <1>4, <2>1, InitInvKept DEF SwitchesPower
  <1>5. CASE HostSends
    <2>1. CASE RefusalOf(NextStep.service) = "NONE"
      <3>1. /\ NextStep.kind = "send" /\ cmd' = NextStep /\ phase' = "bus"
            /\ UNCHANGED <<local, handle, se, call>>
        BY <1>5, <2>1 DEF HostSends
      <3>2. CASE call.op = "init"
        <4>1. \/ local.n = 0 /\ NextStep.command = "query_mask_id"
              \/ /\ local.n = 1 /\ ~(local.mask < MaskA100)
                 /\ NextStep.command = "perso_info_update"
          BY <3>1, <3>2, InitSends DEF NextStep
        <4> QED
          BY <3>1, <3>2, <4>1, MaskAssumption DEF InitInv, OnTheWay, TypeFollows, Shape
      <3>3. CASE call.op # "init"
        <4>1. NextStep.command \notin {"query_mask_id", "perso_info_update"}
          <5>1. CASE call.op \in {"device_lock", "device_unlock"}
            BY <3>1, <5>1, LockStep DEF NextStep
          <5>2. CASE call.op \notin {"init", "device_lock", "device_unlock"}
            <6>1. Quiet(NextStep)
              BY <5>2, StepIs DEF NextStep, Shape
            <6> QED
              BY <3>1, <6>1 DEF Quiet, Device
          <5> QED
            BY <3>3, <5>1, <5>2
        <4> QED
          BY <3>1, <3>3, <4>1 DEF InitInv, OnTheWay, TypeFollows
      <3> QED
        BY <3>2, <3>3
    <2>2. CASE RefusalOf(NextStep.service) # "NONE"
      <3>1. UNCHANGED <<handle, se, call>> /\ ExchangeFails(RefusalOf(NextStep.service))
        BY <1>5, <2>2 DEF HostSends
      <3> QED
        BY <3>1, ExchangeFailsIs, InitInvKept DEF InitInv, OnTheWay, TypeFollows
    <2> QED
      BY <2>1, <2>2
  <1>6. CASE Deliver
    <2>1. /\ phase = "answered" /\ reply.status = "OK" /\ UNCHANGED <<se, call>>
          /\ \/ phase' = "returned" /\ local' = local
             \/ phase' = "host" /\ local' = After
          /\ handle' = IF cmd.command = "query_mask_id" /\ reply.number >= MaskA100
                       THEN [handle EXCEPT !.type = ProductOf(reply.number)] ELSE handle
      BY <1>6 DEF Deliver, Returns
    <2>2. CASE cmd.command = "query_mask_id"
      <3>1. call.op = "init" /\ local.n = 0 /\ reply.number = se.mask
        BY <2>1, <2>2 DEF InitInv, OnTheWay
      <3>2. /\ handle'.ready = handle.ready
            /\ se.mask >= MaskA100 => TypeFollows'
            /\ ~(se.mask >= MaskA100) => handle' = handle
        BY <2>1, <2>2, <3>1 DEF Shape, TypeFollows
      <3>3. handle.ready => TypeFollows'
        <4>1. CASE se.mask >= MaskA100
          BY <3>2, <4>1
        <4>2. CASE ~(se.mask >= MaskA100)
          BY <2>1, <3>2, <4>2 DEF InitInv, TypeFollows
        <4> QED
          BY <4>1, <4>2
      <3>4. local'.n = 0 \/ (local'.n = 1 /\ local'.mask = se.mask)
        BY <2>1, <2>2, <3>1, AfterIs
      <3> QED
        BY <2>1, <3>2, <3>3, <3>4 DEF InitInv, OnTheWay
    <2>3. CASE cmd.command # "query_mask_id"
      <3>1. handle' = handle
        BY <2>1, <2>3
      <3>2. call.op = "init" => TypeFollows /\ local.n # 0
        <4>1. SUFFICES ASSUME call.op = "init" PROVE TypeFollows /\ local.n # 0
          OBVIOUS
        <4>2. cmd.command = "perso_info_update" /\ local.n # 0
          BY <2>1, <2>3, <4>1 DEF InitInv, OnTheWay
        <4>3. se.mask >= MaskA100
          BY <2>1, <4>2 DEF InitInv, OnTheWay
        <4> QED
          BY <4>1, <4>2, <4>3 DEF InitInv, Shape
      <3>3. local' # local => local'.n # 1 \/ call.op # "init"
        BY <2>1, <3>2, AfterIs DEF Shape
      <3> QED
        BY <2>1, <3>1, <3>2, <3>3 DEF InitInv, OnTheWay, TypeFollows
    <2> QED
      BY <2>2, <2>3
  <1>7. CASE Fails
    <2>1. PICK ret : ExchangeFails(ret)
      BY <1>7 DEF Fails
    <2>2. UNCHANGED <<handle, se, call>>
      BY <1>7 DEF Fails
    <2> QED
      BY <2>1, <2>2, ExchangeFailsIs, InitInvKept DEF InitInv, OnTheWay, TypeFollows
  <1>8. CASE Execute \/ Retransmit
    <2>1. PICK o \in Performed(se) \cup {Refusal(se)} : Executes!(o)
      BY <1>8 DEF Execute, Retransmit, Executes
    <2>2. /\ se'.mask = se.mask
          /\ cmd.command = "query_mask_id" /\ reply'.status = "OK" => reply'.number = se'.mask
      BY <2>1, PerformedIs
    <2>3. OnTheWay /\ phase' = "answered" /\ UNCHANGED <<handle, call, local, cmd>>
      BY <1>8 DEF Execute, Retransmit, OnTheWay
    <2> QED
      BY <2>2, <2>3 DEF InitInv, OnTheWay, TypeFollows
  <1>9. CASE PowerLoss
    <2>1. se'.mask = se.mask
      BY <1>9 DEF PowerLoss, WithoutPower, Shape
    <2> QED
      BY <1>9, <2>1 DEF PowerLoss, InitInv, OnTheWay, TypeFollows
  <1>10. CASE OtherTask
    <2>1. se'.mask = se.mask
      BY <1>10 DEF OtherTask, Shape
    <2> QED
      BY <1>10, <2>1 DEF OtherTask, InitInv, OnTheWay, TypeFollows
  <1>11. CASE Return
    BY <1>11 DEF Return, NoCall, InitInv, OnTheWay, TypeFollows
  <1>12. CASE UNCHANGED vars
    BY <1>12 DEF vars, InitInv, OnTheWay, TypeFollows
  <1> QED
    BY <1>1, <1>2, <1>3, <1>4, <1>5, <1>6, <1>7, <1>8, <1>9, <1>10, <1>11, <1>12 DEF Next, Host

\* A handle that was initialised (stse_init) is of the product whose mask is in
\* its secure element, for every set of calls, of devices and of masks.
THEOREM HandleKnowsDevice == Spec => []InitKnowsDevice
  <1>1. Init => InitInv
    BY DEF Init, InitInv, OnTheWay, NoCall
  <1>2. Shape /\ InitInv /\ [Next]_vars => Shape' /\ InitInv'
    BY NextShape, InitInvStep
  <1>3. Shape /\ InitInv => InitKnowsDevice
    <2> SUFFICES ASSUME Shape, InitInv, handle.ready, handle.type # "L010"
                 PROVE  InitKnowsDevice
      BY DEF InitKnowsDevice
    <2>1. se.mask \in Nat /\ se.mask >= MaskA100 /\ handle.type = ProductOf(se.mask)
      BY DEF Shape, InitInv, TypeFollows
    <2> QED
      BY <2>1, ProductFollows DEF InitKnowsDevice
  <1> QED
    BY <1>1, <1>2, <1>3, InitShape, PTL DEF Spec

-----------------------------------------------------------------------------
(* The fields of the records                                               *)

\* What a command does to the secure element, and what it answers.
LEMMA Outcomes ==
    ASSUME NEW o \in Performed(se) \cup {Refusal(se)}
    PROVE  \/ o = Refusal(se)
           \/ cmd.command = "verify_password" /\ o \in Passwords(se)
           \/ cmd.command = "lock" /\ o = Done([se EXCEPT !.life = "LOCKED"])
           \/ cmd.command = "unlock" /\ o = Done([se EXCEPT !.life = "OPERATIONAL"])
           \/ cmd.command \in HashCalls /\ o \in Hashing(se)
           \/ /\ cmd.command \in {"extract", "derive_key_extract"}
              /\ \E i \in Free(se) : o = DoneWith([se EXCEPT !.prk[i] = call.session], i)
           \/ cmd.command \in {"expand_enc", "expand_mac"} /\ o = DoneWith(se, se.prk[local.prk])
           \/ cmd.command \in Counts /\ o = DoneWith(se, SlotCount)
           \/ cmd.command = "query_mask_id" /\ o = DoneWith(se, se.mask)
           \/ /\ cmd.command \in {"device_reset", "device_enter_hibernate"}
              /\ o = Done(WithoutPower(se))
           \/ o = Done(se)
  <1>1. CASE o = Refusal(se)
    BY <1>1
  <1>2. CASE o \in Performed(se)
    <2>1. CASE cmd.command = "verify_password"
      BY <1>2, <2>1 DEF Performed, HashCalls, Counts
    <2>2. CASE cmd.command = "lock"
      BY <1>2, <2>2 DEF Performed, HashCalls, Counts
    <2>3. CASE cmd.command = "unlock"
      BY <1>2, <2>3 DEF Performed, HashCalls, Counts
    <2>4. CASE cmd.command \in HashCalls
      BY <1>2, <2>4 DEF Performed, HashCalls, Counts
    <2>5. CASE cmd.command \in {"extract", "derive_key_extract"}
      BY <1>2, <2>5 DEF Performed, HashCalls, Counts
    <2>6. CASE cmd.command \in {"expand_enc", "expand_mac"}
      BY <1>2, <2>6 DEF Performed, HashCalls, Counts
    <2>7. CASE cmd.command \in Counts
      BY <1>2, <2>7 DEF Performed, HashCalls, Counts
    <2>8. CASE cmd.command = "query_mask_id"
      BY <1>2, <2>8 DEF Performed, HashCalls, Counts
    <2>9. CASE cmd.command \in {"device_reset", "device_enter_hibernate"}
      BY <1>2, <2>9 DEF Performed, HashCalls, Counts
    <2>10. CASE cmd.command \notin {"verify_password", "lock", "unlock", "extract",
                    "derive_key_extract", "expand_enc", "expand_mac", "query_mask_id",
                    "device_reset", "device_enter_hibernate"} \cup HashCalls \cup Counts
      BY <1>2, <2>10 DEF Performed
    <2> QED
      BY <2>1, <2>2, <2>3, <2>4, <2>5, <2>6, <2>7, <2>8, <2>9, <2>10
  <1> QED
    BY <1>1, <1>2

\* What a hash command does.
LEMMA HashOutcomes ==
    ASSUME cmd.command \in HashCalls, NEW o \in Hashing(se)
    PROVE  \/ o = Refusal(se)
           \/ /\ cmd.command = "start_hash"
              /\ o = Done([se EXCEPT !.hash = Covered(Nothing, local.done, Carried("message"))])
           \/ /\ cmd.command = "process_hash" /\ se.hash.open
              /\ o = Done([se EXCEPT !.hash = Covered(@, local.done, Carried("message"))])
           \/ /\ cmd.command = "finish_hash" /\ se.hash.open
              /\ o = [se |-> [se EXCEPT !.hash = Nothing],
                      reply |-> [NoReply EXCEPT !.status = "OK", !.digest = se.hash]]
  <1>1. CASE cmd.command = "start_hash"
    BY <1>1 DEF Hashing
  <1>2. CASE cmd.command # "start_hash" /\ ~se.hash.open
    BY <1>2 DEF Hashing, HashCalls
  <1>3. CASE cmd.command = "process_hash" /\ se.hash.open
    BY <1>3 DEF Hashing
  <1>4. CASE cmd.command = "finish_hash" /\ se.hash.open
    BY <1>4 DEF Hashing
  <1> QED
    BY <1>1, <1>2, <1>3, <1>4 DEF HashCalls

LEMMA RepliesAre ==
    /\ \A s : /\ Done(s).se = s /\ Done(s).reply.status = "OK" /\ Done(s).reply.number = 0
              /\ Refusal(s).se = s /\ Refusal(s).reply.status = "ERROR"
              /\ Refusal(s).reply.number = 0
    /\ \A s, n : /\ DoneWith(s, n).se = s /\ DoneWith(s, n).reply.status = "OK"
                 /\ DoneWith(s, n).reply.number = n
  BY DEF Done, Refusal, DoneWith, NoReply

\* The parts of a secure element.
Parts == {"mask", "life", "tries", "hash", "prk", "powered"}
HasParts(s) == DOMAIN s = Parts /\ s.prk \in [PrkSlots -> Nat]

LEMMA PartsKept ==
    ASSUME NEW s, HasParts(s), NEW t,
           \/ t = s \/ t = WithoutPower(s)
           \/ \E v : t = [s EXCEPT !.life = v]
           \/ \E v : t = [s EXCEPT !.tries = v]
           \/ \E v : t = [s EXCEPT !.hash = v]
           \/ \E v : t = [WithoutPower(s) EXCEPT !.powered = v]
    PROVE  HasParts(t)
  <1>1. HasParts(WithoutPower(s))
    BY DEF HasParts, Parts, WithoutPower, NoPrk
  <1>2. ASSUME NEW v, t = [WithoutPower(s) EXCEPT !.powered = v] PROVE HasParts(t)
    BY <1>1, <1>2 DEF HasParts, Parts
  <1>3. ASSUME NEW v, t = [s EXCEPT !.life = v] PROVE HasParts(t)
    BY <1>3 DEF HasParts, Parts
  <1>4. ASSUME NEW v, t = [s EXCEPT !.tries = v] PROVE HasParts(t)
    BY <1>4 DEF HasParts, Parts
  <1>5. ASSUME NEW v, t = [s EXCEPT !.hash = v] PROVE HasParts(t)
    BY <1>5 DEF HasParts, Parts
  <1> QED
    BY <1>1, <1>2, <1>3, <1>4, <1>5

LEMMA PartsGetKey ==
    ASSUME NEW s, HasParts(s), NEW i, NEW n \in Nat
    PROVE  HasParts([s EXCEPT !.prk[i] = n])
  <1>1. [s.prk EXCEPT ![i] = n] \in [PrkSlots -> Nat]
    BY DEF HasParts
  <1> QED
    BY <1>1 DEF HasParts, Parts

\* The arguments of a call have their types.
LEMMA ArgumentsAre ==
    ASSUME Shape, Fields, phase # "idle"
    PROVE  /\ {"op", "message", "output", "session"} \subseteq DOMAIN call
           /\ call.message.length \in 0..(Word - 1) /\ call.output.length \in 0..(Word - 1)
           /\ call.session \in Nat \ {0}
  BY ArgumentAssumption DEF Shape, Fields

LEMMA OutcomeFields ==
    ASSUME Shape, Fields, phase # "idle", NEW o \in Performed(se) \cup {Refusal(se)}
    PROVE  HasParts(o.se)
  <1>1. HasParts(se)
    BY DEF Fields, HasParts, Parts
  <1>2. CASE cmd.command = "verify_password" /\ o \in Passwords(se)
    <2>1. \/ o = Refusal(se)
          \/ \E v, n : o = DoneWith([se EXCEPT !.tries = v], n)
      BY <1>2 DEF Passwords
    <2>2. o.se = se \/ \E v : o.se = [se EXCEPT !.tries = v]
      <3>1. CASE \E v, n : o = DoneWith([se EXCEPT !.tries = v], n)
        <4>1. PICK v, n : o = DoneWith([se EXCEPT !.tries = v], n)
          BY <3>1
        <4>2. o.se = [se EXCEPT !.tries = v]
          BY <4>1, RepliesAre
        <4> QED
          BY <4>2
      <3> QED
        BY <2>1, <3>1, RepliesAre
    <2> QED
      BY <1>1, <2>2, PartsKept
  <1>3. CASE cmd.command \in HashCalls /\ o \in Hashing(se)
    <2>1. o.se = se \/ \E v : o.se = [se EXCEPT !.hash = v]
      <3>1. CASE o = Refusal(se)
        BY <3>1, RepliesAre
      <3>2. CASE \E v : o = Done([se EXCEPT !.hash = v])
        <4>1. PICK v : o = Done([se EXCEPT !.hash = v])
          BY <3>2
        <4>2. o.se = [se EXCEPT !.hash = v]
          BY <4>1, RepliesAre
        <4> QED
          BY <4>2
      <3>3. CASE \E r : o = [se |-> [se EXCEPT !.hash = Nothing], reply |-> r]
        BY <3>3
      <3>4. \/ o = Refusal(se)
            \/ \E v : o = Done([se EXCEPT !.hash = v])
            \/ \E r : o = [se |-> [se EXCEPT !.hash = Nothing], reply |-> r]
        BY <1>3, HashOutcomes
      <3> QED
        BY <3>1, <3>2, <3>3, <3>4
    <2> QED
      BY <1>1, <2>1, PartsKept
  <1>4. CASE \E i \in Free(se) : o = DoneWith([se EXCEPT !.prk[i] = call.session], i)
    <2>1. PICK i \in Free(se) : o = DoneWith([se EXCEPT !.prk[i] = call.session], i)
      BY <1>4
    <2>2. o.se = [se EXCEPT !.prk[i] = call.session] /\ call.session \in Nat
      BY <2>1, RepliesAre, ArgumentsAre
    <2> QED
      BY <1>1, <2>2, PartsGetKey
  <1>5. CASE \/ o \in {Refusal(se), Done(se), Done(WithoutPower(se))}
             \/ \E v : o = Done([se EXCEPT !.life = v])
             \/ \E n : o = DoneWith(se, n)
    <2>1. \/ o.se = se \/ o.se = WithoutPower(se)
          \/ \E v : o.se = [se EXCEPT !.life = v]
      BY <1>5, RepliesAre
    <2> QED
      BY <1>1, <2>1, PartsKept
  <1> QED
    BY <1>2, <1>3, <1>4, <1>5, Outcomes

-----------------------------------------------------------------------------
\* What becomes of the call when an exchange fails.
LEMMA FailureIs ==
    ASSUME Fields, NEW ret, ExchangeFails(ret)
    PROVE  \/ /\ phase' = "host" /\ call.op = "get_ecc_key_slot_info" /\ local.n = 0
              /\ \E k \in GarbageCounts : local' = [local EXCEPT !.n = @ + 1, !.count = k]
              /\ UNCHANGED result
           \/ phase' = "returned" /\ local' = local /\ result' \in {ret, "INCOMPATIBLE_DEVICE_TYPE"}
  BY DEF ExchangeFails, IgnoresResult, Returns

LEMMA RefusalIs ==
    ASSUME NEW service
    PROVE  RefusalOf(service) \in
             {"NONE", "INVALID_PARAMETER", "FRAME_SIZE_ERROR", "INCONSISTENT_FRAME"}
  BY DEF RefusalOf

LEMMA AfterFields ==
    ASSUME Fields
    PROVE  DOMAIN After = DOMAIN NoLocal /\ After.n \in 0..3
           /\ After.n = IF local.n < 2 THEN local.n + 1 ELSE 3
  <1> DEFINE l == [local EXCEPT !.n = Min({@ + 1, 3})]
             Kept(k) == DOMAIN k = DOMAIN NoLocal /\ k.n = l.n
  <1>1. Kept(l) /\ l.n \in 0..3 /\ l.n = IF local.n < 2 THEN local.n + 1 ELSE 3
    <2>1. local.n \in 0..3 /\ DOMAIN local = DOMAIN NoLocal /\ "n" \in DOMAIN local
      BY DEF Fields, NoLocal
    <2>2. l.n = Min({local.n + 1, 3}) /\ DOMAIN l = DOMAIN local
      BY <2>1
    <2>3. Min({local.n + 1, 3}) = IF local.n < 2 THEN local.n + 1 ELSE 3
      BY <2>1, MinIs
    <2> QED
      BY <2>1, <2>2, <2>3
  <1> HIDE DEF l
  <1>2. Kept(After)
    <2>1. \/ After = l
          \/ \E v : After = [l EXCEPT !.done = v]
          \/ \E v, w : After = [l EXCEPT !.finished = v, !.covered = w]
          \/ \E v, w : After = [l EXCEPT !.done = v, !.covered = w]
          \/ \E v : After = [l EXCEPT !.verdict = v]
          \/ \E v : After = [l EXCEPT !.count = v]
          \/ \E v, w : After = [l EXCEPT !.wrote = v, !.room = w]
          \/ \E v : After = [l EXCEPT !.mask = v]
          \/ \E v : After = [l EXCEPT !.prk = v]
          \/ \E v : After = [l EXCEPT !.enc = v]
          \/ \E v : After = [l EXCEPT !.mac = v]
      BY DEF After, l, Counts, PrivateTables, SymmetricTables
    <2> QED
      BY <1>1, <2>1 DEF NoLocal
  <1> QED
    BY <1>1, <1>2

LEMMA FieldsInit == Init => Fields
  <1> SUFFICES ASSUME Init PROVE Fields
    OBVIOUS
  <1>1. \E mask, life : se = [NewElement(mask) EXCEPT !.life = life]
    BY DEF Init
  <1>2. HasParts(se)
    BY <1>1 DEF HasParts, Parts, NewElement, NoPrk
  <1> QED
    BY <1>2 DEF Init, Fields, NoLocal, HasParts, Parts

\* The records keep their fields.
LEMMA FieldsStep ==
    ASSUME Shape, Fields, [Next]_vars
    PROVE  Fields'
  <1> DEFINE Call1(c) == \E type \in DOMAIN Calls : c \in Calls[type]
             Kept == DOMAIN local' = DOMAIN NoLocal /\ local'.n \in 0..3
  <1>0. Fields <=> /\ HasParts(se) /\ DOMAIN local = DOMAIN NoLocal /\ DOMAIN past = DOMAIN NoPast
                   /\ local.n \in 0..3 /\ (phase # "idle" => Call1(call))
    BY DEF Fields, HasParts, Parts
  <1>00. Fields' <=> /\ HasParts(se') /\ DOMAIN local' = DOMAIN NoLocal /\ DOMAIN past' = DOMAIN NoPast
                     /\ local'.n \in 0..3 /\ (phase' # "idle" => Call1(call'))
    BY DEF Fields, HasParts, Parts
  <1> HIDE DEF Call1
  <1>1. CASE \E c \in Calls[handle.type] : Call(c)
    <2>1. Call1(call') /\ UNCHANGED <<se, local, past>>
      BY <1>1 DEF Call, Call1, Shape
    <2> QED
      BY <1>0, <1>00, <2>1
  <1>2. CASE HostReturns
    <2>1. phase # "idle" /\ UNCHANGED <<se, local, past, call>>
      BY <1>2 DEF HostReturns
    <2> QED
      BY <1>0, <1>00, <2>1
  <1>3. CASE PreparesPlatform
    <2>1. phase # "idle" /\ UNCHANGED <<se, past, call>>
      BY <1>3 DEF PreparesPlatform
    <2>2. Kept
      BY <1>0, <1>3 DEF PreparesPlatform, NoLocal
    <2> QED
      BY <1>0, <1>00, <2>1, <2>2
  <1>4. CASE SwitchesPower
    <2>1. phase # "idle" /\ UNCHANGED <<past, call>>
          /\ \E v : se' = [WithoutPower(se) EXCEPT !.powered = v]
      BY <1>4 DEF SwitchesPower
    <2>2. Kept
      BY <1>0, <1>4 DEF SwitchesPower, NoLocal
    <2> QED
      BY <1>0, <1>00, <2>1, <2>2, PartsKept
  <1>5. CASE \E ret : ExchangeFails(ret) /\ phase # "idle" /\ UNCHANGED <<se, past, call>>
    <2>1. Kept
      <3>1. CASE UNCHANGED local
        BY <1>0, <3>1
      <3>2. CASE local.n = 0 /\ \E k \in GarbageCounts : local' = [local EXCEPT !.n = @ + 1, !.count = k]
        <4>1. PICK k \in GarbageCounts : local' = [local EXCEPT !.n = @ + 1, !.count = k]
          BY <3>2
        <4>2. DOMAIN local' = DOMAIN local /\ (local'.n = local.n + 1)
          BY <1>0, <4>1 DEF NoLocal
        <4> QED
          BY <1>0, <3>2, <4>2
      <3> QED
        BY <1>5, <3>1, <3>2, FailureIs
    <2> QED
      BY <1>0, <1>00, <1>5, <2>1
  <1>6. CASE HostSends
    <2>1. phase # "idle" /\ UNCHANGED <<se, past, call>>
      BY <1>6 DEF HostSends
    <2>2. CASE UNCHANGED local
      BY <1>0, <1>00, <2>1, <2>2
    <2> QED
      BY <1>5, <1>6, <2>1, <2>2 DEF HostSends
  <1>7. CASE Deliver
    <2>1. phase # "idle" /\ UNCHANGED <<se, past, call>> /\ local' \in {local, After}
      BY <1>7 DEF Deliver
    <2> QED
      BY <1>0, <1>00, <2>1, AfterFields
  <1>8. CASE Fails
    <2>1. phase # "idle" /\ UNCHANGED <<se, past, call>> /\ \E ret : ExchangeFails(ret)
      BY <1>8 DEF Fails
    <2> QED
      BY <1>5, <2>1
  <1>9. CASE Execute \/ Retransmit
    <2>1. PICK o \in Performed(se) \cup {Refusal(se)} : Executes!(o)
      BY <1>9 DEF Execute, Retransmit, Executes
    <2>2. phase # "idle" /\ UNCHANGED <<local, call>> /\ se' = o.se
      BY <1>9, <2>1 DEF Execute, Retransmit
    <2>3. DOMAIN past' = DOMAIN past
      BY <2>1
    <2> QED
      BY <1>0, <1>00, <2>2, <2>3, OutcomeFields
  <1>10. CASE PowerLoss
    <2>1. phase # "idle" /\ UNCHANGED <<local, call>> /\ se' = WithoutPower(se)
          /\ DOMAIN past' = DOMAIN past
      BY <1>10 DEF PowerLoss
    <2> QED
      BY <1>0, <1>00, <2>1, PartsKept
  <1>11. CASE OtherTask
    <2>1. phase # "idle" /\ UNCHANGED <<local, call>> /\ DOMAIN past' = DOMAIN past
      BY <1>11 DEF OtherTask
    <2>2. \/ \E v : se' = [se EXCEPT !.hash = v]
          \/ \E i : se' = [se EXCEPT !.prk[i] = OtherSession]
      BY <1>11 DEF OtherTask
    <2>3. HasParts(se')
      <3>1. CASE \E i : se' = [se EXCEPT !.prk[i] = OtherSession]
        <4>1. PICK i : se' = [se EXCEPT !.prk[i] = OtherSession]
          BY <3>1
        <4> QED
          BY <1>0, <4>1, PartsGetKey, SizeAssumption
      <3> QED
        BY <1>0, <2>2, <3>1, PartsKept
    <2> QED
      BY <1>0, <1>00, <2>1, <2>3
  <1>12. CASE Return
    <2>1. phase' = "idle" /\ local' = NoLocal /\ past' = NoPast /\ se' = se
      BY <1>12 DEF Return
    <2> QED
      BY <1>0, <1>00, <2>1 DEF NoLocal
  <1>13. CASE UNCHANGED vars
    <2>1. UNCHANGED <<se, local, past, phase, call>>
      BY <1>13 DEF vars
    <2> QED
      BY <1>0, <1>00, <2>1
  <1> QED
    BY <1>1, <1>2, <1>3, <1>4, <1>6, <1>7, <1>8, <1>9, <1>10, <1>11, <1>12, <1>13 DEF Next, Host

-----------------------------------------------------------------------------
(* The steps of a hash, of a derivation and of random numbers              *)

Several == {"derive_session_keys", "generate_random", "compute_hash",
            "start_hash", "process_hash", "finish_hash"}

\* Such a call returns by itself or after a failure, sends its next exchange, ...
ReturnsOf == /\ phase = "host" /\ NextStep.kind = "return" /\ phase' = "returned"
             /\ result' = NextStep.ret /\ UNCHANGED <<se, call, local, past>>
Refusals == {"INVALID_PARAMETER", "INCONSISTENT_FRAME", "FRAME_SIZE_ERROR"}
Refused == \/ /\ phase = "host" /\ NextStep.kind = "send"
              /\ RefusalOf(NextStep.service) # "NONE"
           \/ phase = "answered" /\ (Unreadable(cmd.service.answer) \/ WrongTable)
Broken == /\ phase' = "returned" /\ result' # "OK" /\ UNCHANGED <<se, call, local, past>>
          /\ result' \in Refusals => Refused
SendsNext == /\ phase = "host" /\ NextStep.kind = "send" /\ phase' = "bus" /\ cmd' = NextStep
             /\ RefusalOf(NextStep.service) = "NONE"
             /\ UNCHANGED <<handle, se, call, local, past, result>>
\* ... which the secure element executes, and goes on with the answer.
Executed == /\ phase \in {"bus", "answered"} /\ phase' = "answered" /\ Executes
            /\ UNCHANGED <<handle, call, local, cmd, result>>
Delivered == /\ phase = "answered" /\ reply.status = "OK" /\ phase' = "host" /\ local' = After
             /\ UNCHANGED <<se, call, past, result>>
PowerLost == /\ se' = WithoutPower(se) /\ past' = [past EXCEPT !.powerless = TRUE]
             /\ UNCHANGED <<handle, phase, call, local, cmd, reply, result>>

\* No call of several exchanges has to do with the platform.
LEMMA SeveralSteps ==
    ASSUME NEW c, NEW l, NEW type, c.op \in Several
    PROVE  \/ Step(c, l, type) = Finish("HANDLER_NOT_INITIALISED")
           \/ c.op = "derive_session_keys" /\ Step(c, l, type) = DeriveSessionKeys(c, l)
           \/ c.op = "generate_random" /\ Step(c, l, type) = RandomNumbers(c, l, type)
           \/ c.op = "compute_hash" /\ Step(c, l, type) = ComputeHash(c, l, type)
           \/ /\ c.op \in {"start_hash", "process_hash", "finish_hash"}
              /\ Step(c, l, type) = OnceChecked(HashApiRefused(c), c, l, HashApi(c))
  <1>1. CASE c.op = "derive_session_keys"
    BY <1>1 DEF Step, EcbAndCcm, CcmDecryption, GcmEncryption, GcmDecryption, MacCalls, HashCalls,
                SymmetricKeyCalls
  <1>2. CASE c.op = "generate_random"
    BY <1>2 DEF Step, EcbAndCcm, CcmDecryption, GcmEncryption, GcmDecryption, MacCalls, HashCalls,
                SymmetricKeyCalls
  <1>3. CASE c.op = "compute_hash"
    BY <1>3 DEF Step, EcbAndCcm, CcmDecryption, GcmEncryption, GcmDecryption, MacCalls, HashCalls,
                SymmetricKeyCalls
  <1>4. CASE c.op \in {"start_hash", "process_hash", "finish_hash"}
    BY <1>4 DEF Step, EcbAndCcm, CcmDecryption, GcmEncryption, GcmDecryption, MacCalls, HashCalls,
                SymmetricKeyCalls
  <1> QED
    BY <1>1, <1>2, <1>3, <1>4 DEF Several

\* A derivation extracts, expands twice, and is at its end.
LEMMA DerivationIs ==
    ASSUME NEW c, NEW l, NEW step, step = DeriveSessionKeys(c, l)
    PROVE  /\ step.kind \in {"send", "return"}
           /\ step.kind = "send" => \/ l.n = 0 /\ step.command = "extract"
                                    \/ l.n = 1 /\ step.command = "expand_enc"
                                    \/ l.n = 2 /\ step.command = "expand_mac"
           /\ step.kind = "return" /\ step.ret = "OK" => l.n \notin 0..2
  <1> DEFINE s1 == Send("extract", Extraction([c EXCEPT !.salt_data = Buffer(SessionIdSize)]))
             s2 == Send("expand_enc", Expansion([c EXCEPT !.context = Buffer(3)], c.output))
             s3 == Send("expand_mac", Expansion([c EXCEPT !.context = Buffer(3)], c.tag))
  <1>1. /\ s1.kind = "send" /\ s1.command = "extract"
        /\ s2.kind = "send" /\ s2.command = "expand_enc"
        /\ s3.kind = "send" /\ s3.command = "expand_mac"
    BY SendKind
  <1>2. \/ step = Invalid
        \/ l.n = 0 /\ step = s1
        \/ l.n = 1 /\ step = s2
        \/ l.n = 2 /\ step = s3
        \/ l.n \notin 0..2 /\ step = Finish("OK")
    BY DEF DeriveSessionKeys, Checked
  <1> HIDE DEF s1, s2, s3
  <1> QED
    BY <1>1, <1>2, SendKind

LEMMA SeveralKind ==
    ASSUME NEW c, NEW l, NEW type, c.op \in Several
    PROVE  Step(c, l, type).kind \in {"send", "return"}
  <1>1. RandomNumbers(c, l, type).kind \in {"send", "return"}
    BY SendKind DEF RandomNumbers
  <1>2. ComputeHash(c, l, type).kind \in {"send", "return"}
    BY SendKind DEF ComputeHash, Hashed
  <1>3. OnceChecked(HashApiRefused(c), c, l, HashApi(c)).kind \in {"send", "return"}
    BY SendKind DEF OnceChecked, Checked, Once
  <1> QED
    BY <1>1, <1>2, <1>3, SeveralSteps, SendKind, DerivationIs

LEMMA CallSteps ==
    ASSUME Fields, [Next]_vars, phase # "idle", call.op \in Several
    PROVE  \/ ReturnsOf \/ Broken \/ SendsNext \/ Executed \/ Delivered
           \/ PowerLost \/ OtherTask \/ phase' = "idle" \/ UNCHANGED vars
  <1>1. CASE \E c \in Calls[handle.type] : Call(c)
    BY <1>1 DEF Call
  <1>2. CASE HostReturns
    BY <1>2 DEF HostReturns, Returns, ReturnsOf
  <1>3. ~PreparesPlatform /\ ~SwitchesPower
    BY SeveralKind DEF PreparesPlatform, SwitchesPower, NextStep
  <1>4. ASSUME NEW ret, ret # "OK", ExchangeFails(ret), UNCHANGED <<se, call, past>>,
               ret \in Refusals => Refused
        PROVE  Broken
    BY <1>4, FailureIs DEF Broken, Several, Refusals
  <1>5. CASE HostSends
    <2>1. CASE RefusalOf(NextStep.service) = "NONE"
      BY <1>5, <2>1 DEF HostSends, SendsNext
    <2>2. CASE RefusalOf(NextStep.service) # "NONE"
      <3>1. UNCHANGED <<se, call, past>> /\ ExchangeFails(RefusalOf(NextStep.service))
        BY <1>5, <2>2 DEF HostSends
      <3>2. RefusalOf(NextStep.service) # "OK"
        BY RefusalIs
      <3>3. Refused
        BY <1>5, <2>2 DEF HostSends, Refused
      <3> QED
        BY <1>4, <3>1, <3>2, <3>3
    <2> QED
      BY <2>1, <2>2
  <1>6. CASE Deliver
    <2>1. CASE WrongTable
      BY <1>6, <2>1 DEF Deliver, Returns, Broken, Refused
    <2>2. CASE ~WrongTable
      BY <1>6, <2>2 DEF Deliver, Delivered
    <2> QED
      BY <2>1, <2>2
  <1>7. CASE Fails
    <2>1. PICK ret : /\ ret # "OK" /\ ExchangeFails(ret) /\ UNCHANGED <<se, call, past>>
                     /\ ret \in Refusals => Refused
      BY <1>7 DEF Fails, Refused, Refusals
    <2> QED
      BY <1>4, <2>1
  <1>8. CASE Execute \/ Retransmit
    BY <1>8 DEF Execute, Retransmit, Executed
  <1>9. CASE PowerLoss
    BY <1>9 DEF PowerLoss, PowerLost
  <1>10. CASE Return
    BY <1>10 DEF Return
  <1> QED
    BY <1>1, <1>2, <1>3, <1>5, <1>6, <1>7, <1>8, <1>9, <1>10 DEF Next, Host

\* A call begins with its variables at zero.
LEMMA CallBegins ==
    ASSUME Shape, [Next]_vars, phase = "idle"
    PROVE  \/ phase' = "host" /\ local' = NoLocal
           \/ phase' = "idle"
  BY DEF Shape, Next, Host, Call, HostReturns, PreparesPlatform, SwitchesPower, HostSends, Deliver,
         Fails, Execute, Retransmit, PowerLoss, OtherTask, Return, vars

LEMMA SameCall ==
    ASSUME [Next]_vars, phase # "idle", phase' # "idle"
    PROVE  call' = call
  BY DEF Next, Host, Call, HostReturns, PreparesPlatform, SwitchesPower, HostSends, Deliver,
         Fails, Execute, Retransmit, PowerLoss, OtherTask, Return, vars

-----------------------------------------------------------------------------
(* The keys of a session                                                   *)

\* What the commands of a derivation do to the slots.
LEMMA SlotOutcomes ==
    ASSUME Fields, NEW o \in Performed(se) \cup {Refusal(se)}, o.reply.status = "OK"
    PROVE  /\ cmd.command = "extract" =>
                /\ o.reply.number \in Free(se)
                /\ o.se.prk = [se.prk EXCEPT ![o.reply.number] = call.session]
           /\ cmd.command \in {"expand_enc", "expand_mac"} =>
                /\ o.se = se /\ o.reply.number = se.prk[local.prk]
  <1>1. CASE cmd.command = "extract"
    <2>1. PICK i \in Free(se) : o = DoneWith([se EXCEPT !.prk[i] = call.session], i)
      BY <1>1, RepliesAre DEF Performed, HashCalls, Counts
    <2>2. o.reply.number = i /\ o.se = [se EXCEPT !.prk[i] = call.session]
      BY <2>1, RepliesAre
    <2> QED
      BY <1>1, <2>2 DEF Fields
  <1>2. CASE cmd.command \in {"expand_enc", "expand_mac"}
    <2>1. o = DoneWith(se, se.prk[local.prk]) \/ o = Refusal(se)
      BY <1>2 DEF Performed, HashCalls, Counts
    <2> QED
      BY <1>2, <2>1, RepliesAre
  <1> QED
    BY <1>1, <1>2

\* What a refused command does: nothing.
LEMMA RefusedOutcomes ==
    ASSUME NEW o \in Performed(se) \cup {Refusal(se)}, o.reply.status # "OK"
    PROVE  o.se = se
  <1>1. \/ o = Refusal(se)
        \/ cmd.command = "verify_password" /\ o \in Passwords(se)
        \/ cmd.command \in HashCalls /\ o \in Hashing(se)
        \/ \E s : o = Done(s)
        \/ \E s, n : o = DoneWith(s, n)
    BY Outcomes
  <1>2. CASE o \in Passwords(se)
    BY <1>2, RepliesAre DEF Passwords
  <1>3. CASE cmd.command \in HashCalls /\ o \in Hashing(se)
    <2>1. \/ o = Refusal(se) \/ \E s : o = Done(s)
          \/ o.reply = [NoReply EXCEPT !.status = "OK", !.digest = se.hash]
      BY <1>3, HashOutcomes
    <2>2. [NoReply EXCEPT !.status = "OK", !.digest = se.hash].status = "OK"
      BY DEF NoReply
    <2> QED
      BY <2>1, <2>2, RepliesAre
  <1> QED
    BY <1>1, <1>2, <1>3, RepliesAre

\* What the call keeps of the answers of a derivation.
LEMMA KeyKept ==
    ASSUME Fields, cmd.command \in {"extract", "expand_enc", "expand_mac"}
    PROVE  /\ After.n = IF local.n < 2 THEN local.n + 1 ELSE 3
           /\ After.prk = IF cmd.command = "extract" THEN reply.number ELSE local.prk
           /\ After.enc = IF cmd.command = "expand_enc" THEN reply.number ELSE local.enc
           /\ After.mac = IF cmd.command = "expand_mac" THEN reply.number ELSE local.mac
  <1> DEFINE l == [local EXCEPT !.n = Min({@ + 1, 3})]
  <1>1. {"prk", "enc", "mac"} \subseteq DOMAIN l /\ l.prk = local.prk /\ l.enc = local.enc
        /\ l.mac = local.mac
    BY DEF Fields, NoLocal
  <1>2. After = CASE cmd.command = "extract" -> [l EXCEPT !.prk = reply.number]
                  [] cmd.command = "expand_enc" -> [l EXCEPT !.enc = reply.number]
                  [] cmd.command = "expand_mac" -> [l EXCEPT !.mac = reply.number]
    <2>1. CASE cmd.command = "extract"
      BY <2>1 DEF After, Counts, PrivateTables, SymmetricTables
    <2>2. CASE cmd.command = "expand_enc"
      BY <2>2 DEF After, Counts, PrivateTables, SymmetricTables
    <2>3. CASE cmd.command = "expand_mac"
      BY <2>3 DEF After, Counts, PrivateTables, SymmetricTables
    <2> QED
      BY <2>1, <2>2, <2>3
  <1> HIDE DEF l
  <1>3. CASE cmd.command = "extract"
    <2>1. After = [l EXCEPT !.prk = reply.number]
      BY <1>2, <1>3
    <2> QED
      BY <1>1, <1>3, <2>1, AfterFields
  <1>4. CASE cmd.command = "expand_enc"
    <2>1. After = [l EXCEPT !.enc = reply.number]
      BY <1>2, <1>4
    <2> QED
      BY <1>1, <1>4, <2>1, AfterFields
  <1>5. CASE cmd.command = "expand_mac"
    <2>1. After = [l EXCEPT !.mac = reply.number]
      BY <1>2, <1>5
    <2> QED
      BY <1>1, <1>5, <2>1, AfterFields
  <1> QED
    BY <1>3, <1>4, <1>5

LEMMA SessionStep ==
    ASSUME Shape, Fields, SessionInv, [Next]_vars
    PROVE  SessionInv'
  <1> SUFFICES ASSUME phase' # "idle", call'.op = "derive_session_keys" PROVE SessionInv'
    BY DEF SessionInv
  <1>1. CASE phase = "idle"
    <2>1. phase' = "host" /\ local'.n = 0
      BY <1>1, CallBegins DEF NoLocal
    <2> QED
      BY <2>1 DEF SessionInv, OnTheWay
  <1>2. CASE phase # "idle"
    <2>0. call' = call /\ call.op = "derive_session_keys" /\ call.op \in Several
      BY <1>2, SameCall DEF Several
    <2> USE DEF OnTheWay
    <2>1. CASE ReturnsOf
      <3>1. result' = "OK" => local.n = 3
        <4> SUFFICES ASSUME result' = "OK" PROVE local.n = 3
          OBVIOUS
        <4>1. NextStep = DeriveSessionKeys(call, local)
          BY <2>0, <2>1, SeveralSteps, SendKind DEF NextStep, ReturnsOf
        <4>2. local.n \notin 0..2
          BY <2>1, <4>1, DerivationIs DEF ReturnsOf
        <4> QED
          BY <4>2 DEF Fields
      <3> QED
        BY <1>2, <2>0, <2>1, <3>1 DEF SessionInv, ReturnsOf
    <2>2. CASE Broken
      BY <1>2, <2>0, <2>2 DEF SessionInv, Broken
    <2>3. CASE SendsNext
      <3>1. local.n \in 0..2 /\ cmd'.command = <<"extract", "expand_enc", "expand_mac">>[local.n + 1]
        <4>1. NextStep = DeriveSessionKeys(call, local)
          BY <2>0, <2>3, SeveralSteps, SendKind DEF NextStep, SendsNext
        <4> QED
          BY <2>3, <4>1, DerivationIs DEF SendsNext
      <3> QED
        BY <1>2, <2>0, <2>3, <3>1 DEF SessionInv, SendsNext
    <2>4. CASE Executed
      <3>1. PICK o \in Performed(se) \cup {Refusal(se)} : Executes!(o)
        BY <2>4 DEF Executed, Executes
      <3>2. /\ se' = o.se /\ reply' = o.reply /\ past'.powerless = past.powerless
            /\ phase' = "answered" /\ UNCHANGED <<call, local, cmd>>
        BY <2>4, <3>1 DEF Executed, Fields, NoPast
      <3>3. /\ local.n \in 0..2
            /\ cmd.command = <<"extract", "expand_enc", "expand_mac">>[local.n + 1]
        BY <1>2, <2>0, <2>4 DEF SessionInv, Executed
      <3>4. CASE reply'.status # "OK"
        <4>1. se' = se
          BY <3>2, <3>4, RefusedOutcomes
        <4> QED
          BY <1>2, <2>0, <3>2, <3>3, <3>4, <4>1 DEF SessionInv
      <3>5. CASE reply'.status = "OK" /\ local.n = 0
        <4>1. /\ reply'.number \in Free(se)
              /\ se'.prk = [se.prk EXCEPT ![reply'.number] = call.session]
          BY <3>2, <3>3, <3>5, SlotOutcomes
        <4>2. reply'.number \in PrkSlots /\ se'.prk[reply'.number] = call.session
          BY <4>1 DEF Free, Fields
        <4> QED
          BY <2>0, <3>2, <3>3, <3>5, <4>2 DEF SessionInv
      <3>6. CASE reply'.status = "OK" /\ local.n # 0
        <4>0. cmd.command \in {"expand_enc", "expand_mac"}
          BY <3>3, <3>6
        <4>00. o.reply.status = "OK"
          BY <3>2, <3>6
        <4>01. o.se = se /\ o.reply.number = se.prk[local.prk]
          BY <4>0, <4>00, SlotOutcomes
        <4>1. se' = se /\ reply'.number = se.prk[local.prk]
          BY <3>2, <4>01
        <4> QED
          BY <1>2, <2>0, <3>2, <3>3, <3>6, <4>1 DEF SessionInv
      <3> QED
        BY <3>4, <3>5, <3>6
    <2>5. CASE Delivered
      <3>1. /\ local.n \in 0..2
            /\ cmd.command = <<"extract", "expand_enc", "expand_mac">>[local.n + 1]
        BY <1>2, <2>0, <2>5 DEF SessionInv, Delivered
      <3>2. /\ After.n = local.n + 1
            /\ After.prk = IF local.n = 0 THEN reply.number ELSE local.prk
            /\ After.enc = IF local.n = 1 THEN reply.number ELSE local.enc
            /\ After.mac = IF local.n = 2 THEN reply.number ELSE local.mac
        BY <3>1, KeyKept
      <3> QED
        BY <1>2, <2>0, <2>5, <3>1, <3>2 DEF SessionInv, Delivered
    <2>6. CASE PowerLost
      <3>1. past'.powerless = TRUE
        BY <2>6 DEF PowerLost, Fields, NoPast
      <3> QED
        BY <1>2, <2>0, <2>6, <3>1 DEF SessionInv, PowerLost
    <2>7. CASE OtherTask
      <3>1. /\ phase = "host" /\ past'.powerless = past.powerless
            /\ UNCHANGED <<phase, call, local>>
        BY <2>7 DEF OtherTask, Fields, NoPast
      <3>2. \A i \in PrkSlots : se.prk[i] # 0 => se'.prk[i] = se.prk[i]
        <4>1. CASE \E v : se' = [se EXCEPT !.hash = v]
          BY <4>1 DEF Fields
        <4>2. CASE \E j \in Free(se) : se' = [se EXCEPT !.prk[j] = OtherSession]
          <5>1. PICK j \in Free(se) : se' = [se EXCEPT !.prk[j] = OtherSession]
            BY <4>2
          <5>2. se'.prk = [se.prk EXCEPT ![j] = OtherSession] /\ se.prk[j] = 0
            BY <5>1 DEF Fields, Free
          <5> QED
            BY <5>2 DEF Fields
        <4> QED
          BY <2>7, <4>1, <4>2 DEF OtherTask
      <3>3. call.session # 0
        BY <1>2, ArgumentsAre
      <3> QED
        BY <1>2, <2>0, <3>1, <3>2, <3>3 DEF SessionInv
    <2>8. CASE UNCHANGED vars
      BY <1>2, <2>0, <2>8 DEF SessionInv, vars
    <2> QED
      BY <1>2, <2>0, <2>1, <2>2, <2>3, <2>4, <2>5, <2>6, <2>7, <2>8, CallSteps
  <1> QED
    BY <1>1, <1>2

\* The two keys of a successful stse_derive_session_keys come from the key that
\* was extracted for its session (SessionKeys), for any number of slots and any
\* other users, unless power was lost.
THEOREM KeysOfSession == Spec => []SessionKeys
  <1>1. Init => SessionInv
    BY DEF Init, SessionInv
  <1>2. Shape /\ Fields /\ SessionInv /\ [Next]_vars => (Shape /\ Fields /\ SessionInv)'
    BY NextShape, FieldsStep, SessionStep
  <1>3. SessionInv => SessionKeys
    BY DEF SessionInv, SessionKeys
  <1> QED
    BY <1>1, <1>2, <1>3, InitShape, FieldsInit, PTL DEF Spec

-----------------------------------------------------------------------------
(* How far a message or a buffer is handled                                *)

LEMMA MinOfTwo ==
    ASSUME NEW a \in Nat, NEW b \in Nat
    PROVE  Min({a, b}) = IF a <= b THEN a ELSE b
  <1> DEFINE m == IF a <= b THEN a ELSE b
  <1>1. m \in {a, b} /\ \A x \in {a, b} : m <= x
    OBVIOUS
  <1>2. \A x \in {a, b} : (\A y \in {a, b} : x <= y) => x = m
    OBVIOUS
  <1> HIDE DEF m
  <1>3. (CHOOSE x \in {a, b} : \A y \in {a, b} : x <= y) = m
    BY <1>1, <1>2
  <1>4. Min({a, b}) = m
    BY <1>3 DEF Min
  <1> QED
    BY <1>4 DEF m

LEMMA CoverBegins ==
    ASSUME NEW from \in Nat
    PROVE  Covered(Nothing, 0, from) = [open |-> TRUE, whole |-> TRUE, upto |-> from]
  <1>1. (Nothing.whole /\ 0 = Nothing.upto) = TRUE
    BY DEF Nothing
  <1>2. 0 + from = from
    OBVIOUS
  <1> QED
    BY <1>1, <1>2 DEF Covered

\* What is handled after what was handled so far.
LEMMA CoverMore ==
    ASSUME NEW from \in Nat, NEW n \in Nat, NEW c,
           \/ c = Covered(Nothing, 0, from)
           \/ c = Nothing /\ from = 0
    PROVE  Covered(c, from, n) = Covered(Nothing, 0, from + n)
  <1>1. (c.whole /\ from = c.upto) = TRUE
    <2>1. CASE c = [open |-> TRUE, whole |-> TRUE, upto |-> from]
      BY <2>1
    <2>2. CASE c = Nothing /\ from = 0
      BY <2>2 DEF Nothing
    <2> QED
      BY <2>1, <2>2, CoverBegins
  <1>2. Covered(c, from, n) = [open |-> TRUE, whole |-> TRUE, upto |-> from + n]
    BY <1>1 DEF Covered
  <1>3. from + n \in Nat
    OBVIOUS
  <1> QED
    BY <1>2, <1>3, CoverBegins

LEMMA RandomIs ==
    ASSUME NEW c, NEW l, NEW type, NEW step, step = RandomNumbers(c, l, type)
    PROVE  /\ step.kind = "send" => step.command = "generate_random" /\ l.done # c.output.length
           /\ step.kind = "return" /\ step.ret = "OK" => c.output.length = 0 \/ l.done = c.output.length
  <1>1. \/ step = Invalid \/ step = Finish("INCOMPATIBLE_DEVICE_TYPE")
        \/ step = Finish("OK") /\ (c.output.length = 0 \/ l.done = c.output.length)
        \/ /\ l.done # c.output.length
           /\ \E service : step = Send("generate_random", service)
    BY DEF RandomNumbers
  <1> QED
    BY <1>1, SendKind

\* What the call keeps of the random bytes that it received.
LEMMA RandomKept ==
    ASSUME Fields, cmd.command = "generate_random"
    PROVE  /\ After.done = local.done + RandomChunk(call, local)
           /\ After.covered = Covered(local.covered, local.done, RandomChunk(call, local))
  <1> DEFINE l == [local EXCEPT !.n = Min({@ + 1, 3})]
             n == RandomChunk(call, local)
  <1>1. DOMAIN l = DOMAIN NoLocal /\ l.covered = local.covered
    BY DEF Fields, NoLocal
  <1>2. After = [l EXCEPT !.done = Progress(n), !.covered = Covered(@, local.done, n)]
    BY DEF After, Counts, PrivateTables, SymmetricTables
  <1> HIDE DEF l, n
  <1>3. After.done = Progress(n) /\ After.covered = Covered(local.covered, local.done, n)
    BY <1>1, <1>2 DEF NoLocal
  <1> QED
    BY <1>3 DEF Progress, n

LEMMA RandomStep ==
    ASSUME Shape, Fields, Fields', RandomInv, [Next]_vars
    PROVE  RandomInv'
  <1> SUFFICES ASSUME phase' # "idle", call'.op = "generate_random" PROVE RandomInv'
    BY DEF RandomInv
  <1>0. call'.output.length \in Nat
    BY ArgumentAssumption, SizeAssumption DEF Fields
  <1>1. CASE phase = "idle"
    <2>1. phase' = "host" /\ local'.done = 0 /\ local'.covered = Nothing
      BY <1>1, CallBegins DEF NoLocal
    <2> QED
      BY <1>0, <2>1 DEF RandomInv, OnTheWay
  <1>2. CASE phase # "idle"
    <2>0. call' = call /\ call.op = "generate_random" /\ call.op \in Several
      BY <1>2, SameCall DEF Several
    <2> USE DEF OnTheWay
    <2>1. CASE ReturnsOf
      <3>1. result' = "OK" => local.done = call.output.length
        <4> SUFFICES ASSUME result' = "OK" PROVE local.done = call.output.length
          OBVIOUS
        <4>1. NextStep = RandomNumbers(call, local, handle.type)
          BY <2>0, <2>1, SeveralSteps, SendKind DEF NextStep, ReturnsOf
        <4>2. call.output.length = 0 \/ local.done = call.output.length
          BY <2>1, <4>1, RandomIs DEF ReturnsOf
        <4> QED
          BY <1>2, <2>0, <4>2 DEF RandomInv
      <3> QED
        BY <1>2, <2>0, <2>1, <3>1 DEF RandomInv, ReturnsOf
    <2>2. CASE Broken
      BY <1>2, <2>0, <2>2 DEF RandomInv, Broken
    <2>3. CASE SendsNext
      <3>1. cmd'.command = "generate_random" /\ local.done # call.output.length
        <4>1. NextStep = RandomNumbers(call, local, handle.type)
          BY <2>0, <2>3, SeveralSteps, SendKind DEF NextStep, SendsNext
        <4> QED
          BY <2>3, <4>1, RandomIs DEF SendsNext
      <3> QED
        BY <1>2, <2>0, <2>3, <3>1 DEF RandomInv, SendsNext
    <2>4. CASE Executed
      BY <1>2, <2>0, <2>4 DEF RandomInv, Executed
    <2>5. CASE Delivered
      <3> DEFINE n == RandomChunk(call, local)
      <3>1. /\ cmd.command = "generate_random" /\ local.done # call.output.length
            /\ local.done \in 0..call.output.length
            /\ local.covered = IF local.done = 0 THEN Nothing ELSE Covered(Nothing, 0, local.done)
        BY <1>2, <2>0, <2>5 DEF RandomInv, Delivered
      <3>2. n \in 1..(call.output.length - local.done)
        <4>1. call.output.length - local.done \in Nat \ {0} /\ MaxRng \in Nat \ {0}
          BY <1>0, <2>0, <3>1, SizeAssumption
        <4>2. n = IF call.output.length - local.done <= MaxRng
                  THEN call.output.length - local.done ELSE MaxRng
          BY <4>1, MinOfTwo DEF RandomChunk
        <4> QED
          BY <4>1, <4>2
      <3> HIDE DEF n
      <3>3. /\ local'.done = local.done + n
            /\ local'.covered = Covered(local.covered, local.done, n)
        BY <2>5, <3>1, RandomKept DEF Delivered, n
      <3>4. local.done \in Nat /\ n \in Nat
        BY <3>1, <3>2
      <3>5. local'.covered = Covered(Nothing, 0, local.done + n)
        BY <3>1, <3>3, <3>4, CoverMore
      <3>6. local'.done \in 0..call.output.length /\ local'.done # 0
        BY <1>0, <2>0, <3>1, <3>2, <3>3
      <3>7. phase' = "host"
        BY <2>5 DEF Delivered
      <3> QED
        BY <2>0, <3>3, <3>5, <3>6, <3>7 DEF RandomInv
    <2>6. CASE PowerLost \/ OtherTask
      <3>1. UNCHANGED <<phase, call, local, cmd, result>>
        BY <2>6 DEF PowerLost, OtherTask
      <3> QED
        BY <1>2, <2>0, <3>1 DEF RandomInv
    <2>7. CASE UNCHANGED vars
      BY <1>2, <2>0, <2>7 DEF RandomInv, vars
    <2> QED
      BY <1>2, <2>0, <2>1, <2>2, <2>3, <2>4, <2>5, <2>6, <2>7, CallSteps
  <1> QED
    BY <1>1, <1>2

-----------------------------------------------------------------------------
(* The pieces of a message that is hashed                                  *)

\* The length of the message in a request.
MessageIn(request) == request[CHOOSE i \in DOMAIN request : request[i].name = "message"].length

LEMMA CarriedIs == Carried("message") = MessageIn(cmd.service.request)
  BY DEF Carried, MessageIn

LEMMA MessageFound ==
    ASSUME NEW request, NEW k \in DOMAIN request, request[k].name = "message",
           \A i \in DOMAIN request : i # k => request[i].name # "message"
    PROVE  MessageIn(request) = request[k].length
  <1>1. (CHOOSE i \in DOMAIN request : request[i].name = "message") = k
    OBVIOUS
  <1> QED
    BY <1>1 DEF MessageIn

Four(a, b, c, d) == <<a>> \o <<b, c>> \o <<d>>
LEMMA Concatenated ==
    ASSUME NEW S, NEW a \in S, NEW b \in S, NEW c \in S, NEW d \in S
    PROVE  /\ <<a>> \o <<b>> = <<a, b>>
           /\ Four(a, b, c, d) = <<a, b, c, d>>
  <1>1. /\ <<a>> \in Seq(S) /\ <<b>> \in Seq(S) /\ <<d>> \in Seq(S)
        /\ <<a, b>> \in Seq(S) /\ <<b, c>> \in Seq(S) /\ <<a, b, c>> \in Seq(S)
        /\ <<a, b, c, d>> \in Seq(S)
    OBVIOUS
  <1>2. <<a>> \o <<b>> = <<a, b>>
    <2>1. /\ <<a>> \o <<b>> \in Seq(S) /\ Len(<<a>> \o <<b>>) = 2
          /\ \A i \in 1..2 : (<<a>> \o <<b>>)[i] = IF i <= 1 THEN a ELSE b
      BY <1>1, ConcatProperties
    <2>2. Len(<<a, b>>) = 2 /\ \A i \in 1..2 : (<<a>> \o <<b>>)[i] = <<a, b>>[i]
      BY <2>1
    <2> DEFINE s == <<a>> \o <<b>>
               t == <<a, b>>
    <2>3. s \in Seq(S) /\ t \in Seq(S) /\ Len(s) = Len(t) /\ \A i \in 1..Len(s) : s[i] = t[i]
      BY <1>1, <2>1, <2>2
    <2> HIDE DEF s, t
    <2>4. s = t
      BY <2>3, SeqEqual
    <2> QED
      BY <2>4 DEF s, t
  <1>3. <<a>> \o <<b, c>> = <<a, b, c>>
    <2>1. /\ <<a>> \o <<b, c>> \in Seq(S) /\ Len(<<a>> \o <<b, c>>) = 3
          /\ \A i \in 1..3 : (<<a>> \o <<b, c>>)[i] = IF i <= 1 THEN a ELSE <<b, c>>[i - 1]
      BY <1>1, ConcatProperties
    <2>2. Len(<<a, b, c>>) = 3 /\ \A i \in 1..3 : (<<a>> \o <<b, c>>)[i] = <<a, b, c>>[i]
      BY <2>1
    <2> DEFINE s == <<a>> \o <<b, c>>
               t == <<a, b, c>>
    <2>3. s \in Seq(S) /\ t \in Seq(S) /\ Len(s) = Len(t) /\ \A i \in 1..Len(s) : s[i] = t[i]
      BY <1>1, <2>1, <2>2
    <2> HIDE DEF s, t
    <2>4. s = t
      BY <2>3, SeqEqual
    <2> QED
      BY <2>4 DEF s, t
  <1>4. <<a, b, c>> \o <<d>> = <<a, b, c, d>>
    <2>1. /\ <<a, b, c>> \o <<d>> \in Seq(S) /\ Len(<<a, b, c>> \o <<d>>) = 4
          /\ \A i \in 1..4 : (<<a, b, c>> \o <<d>>)[i] = IF i <= 3 THEN <<a, b, c>>[i] ELSE d
      BY <1>1, ConcatProperties
    <2>2. Len(<<a, b, c, d>>) = 4 /\ \A i \in 1..4 : (<<a, b, c>> \o <<d>>)[i] = <<a, b, c, d>>[i]
      BY <2>1
    <2> DEFINE s == <<a, b, c>> \o <<d>>
               t == <<a, b, c, d>>
    <2>3. s \in Seq(S) /\ t \in Seq(S) /\ Len(s) = Len(t) /\ \A i \in 1..Len(s) : s[i] = t[i]
      BY <1>1, <2>1, <2>2
    <2> HIDE DEF s, t
    <2>4. s = t
      BY <2>3, SeqEqual
    <2> QED
      BY <2>4 DEF s, t
  <1> QED
    BY <1>2, <1>3, <1>4 DEF Four

\* The requests of a hash.
LEMMA HashRequests ==
    ASSUME NEW p
    PROVE  /\ Extended \o <<From("message", p.message)>>
                = <<Fixed("header", 2), From("message", p.message)>>
           /\ Extended \o HashId(p.algorithm) \o <<From("message", p.message)>>
                = <<Fixed("header", 2), BigEndian({"hash_id"}, HashIdLength[p.algorithm]),
                    Fixed("hash_id", 9), From("message", p.message)>>
  <1> DEFINE e == From("message", p.message)
             h == Fixed("header", 2)
             i1 == BigEndian({"hash_id"}, HashIdLength[p.algorithm])
             i2 == Fixed("hash_id", 9)
             S == {h, i1, i2, e}
  <1>1. Extended = <<h>> /\ HashId(p.algorithm) = <<i1, i2>>
    BY DEF Extended, HashId
  <1>2. h \in S /\ i1 \in S /\ i2 \in S /\ e \in S
    OBVIOUS
  <1> HIDE DEF e, h, i1, i2, S
  <1>3. <<h>> \o <<i1, i2>> \o <<e>> = <<h, i1, i2, e>>
    <2>1. Four(h, i1, i2, e) = <<h, i1, i2, e>>
      BY <1>2, Concatenated
    <2> QED
      BY <2>1 DEF Four
  <1>4. <<h>> \o <<e>> = <<h, e>>
    BY <1>2, Concatenated
  <1>5. Extended \o HashId(p.algorithm) \o <<e>> = <<h, i1, i2, e>> /\ Extended \o <<e>> = <<h, e>>
    BY <1>1, <1>3, <1>4
  <1> QED
    BY <1>5 DEF e, h, i1, i2

LEMMA MessageCarried ==
    ASSUME NEW p
    PROVE  /\ \/ StartHash(p).refuses = TRUE
              \/ MessageIn(StartHash(p).request) = p.message.length
           /\ \/ ProcessHash(p).refuses = TRUE
              \/ MessageIn(ProcessHash(p).request) = p.message.length
  <1> DEFINE e == From("message", p.message)
             h == Fixed("header", 2)
             i1 == BigEndian({"hash_id"}, HashIdLength[p.algorithm])
             i2 == Fixed("hash_id", 9)
  <1>1. e.name = "message" /\ e.length = p.message.length
    BY DEF From, Part
  <1>2. h.name = "header" /\ i1.name = "length" /\ i2.name = "hash_id"
    BY DEF Fixed, Part, BigEndian
  <1>3. /\ Extended \o HashId(p.algorithm) \o <<e>> = <<h, i1, i2, e>>
        /\ Extended \o <<e>> = <<h, e>>
    BY HashRequests
  <1>4. \/ StartHash(p).refuses = TRUE
        \/ StartHash(p).request = <<h, i1, i2, e>>
    BY <1>3 DEF StartHash, Service
  <1>5. \/ ProcessHash(p).refuses = TRUE
        \/ ProcessHash(p).request = <<h, e>>
    BY <1>3 DEF ProcessHash, Service
  <1> HIDE DEF e, h, i1, i2
  <1>6. MessageIn(<<h, i1, i2, e>>) = p.message.length
    <2>1. DOMAIN <<h, i1, i2, e>> = 1..4
      OBVIOUS
    <2>2. <<h, i1, i2, e>>[4] = e /\ \A i \in 1..4 : i # 4 => <<h, i1, i2, e>>[i] \in {h, i1, i2}
      OBVIOUS
    <2> QED
      BY <1>1, <1>2, <2>1, <2>2, MessageFound
  <1>7. MessageIn(<<h, e>>) = p.message.length
    <2>1. DOMAIN <<h, e>> = 1..2
      OBVIOUS
    <2>2. <<h, e>>[2] = e /\ \A i \in 1..2 : i # 2 => <<h, e>>[i] = h
      OBVIOUS
    <2> QED
      BY <1>1, <1>2, <2>1, <2>2, MessageFound
  <1> QED
    BY <1>4, <1>5, <1>6, <1>7

LEMMA PiecesCarry ==
    ASSUME NEW c, NEW n \in Nat, "message" \in DOMAIN c
    PROVE  /\ \/ StartHash(Piece(c, n)).refuses = TRUE
              \/ MessageIn(StartHash(Piece(c, n)).request) = n
           /\ \/ ProcessHash(Piece(c, n)).refuses = TRUE
              \/ MessageIn(ProcessHash(Piece(c, n)).request) = n
  <1>1. Piece(c, n).message.length = n
    BY DEF Piece, Buffer
  <1> QED
    BY <1>1, MessageCarried

\* What stse_compute_hash does next.
LEMMA HashedIs ==
    ASSUME NEW c, NEW l, NEW type \in DOMAIN Calls, NEW step, step = ComputeHash(c, l, type),
           "message" \in DOMAIN c, c.message.length \in Nat,
           l.n \in Nat, l.done \in 0..c.message.length, l.n = 0 => l.done = 0
    PROVE  /\ step.kind = "send" /\ RefusalOf(step.service) = "NONE" =>
                /\ step.command \in HashCalls
                /\ l.n = 0 <=> step.command = "start_hash"
                /\ l.n # 0 => ~l.finished
                /\ step.command = "finish_hash" => l.done = c.message.length
                /\ step.command \in {"start_hash", "process_hash"} =>
                     MessageIn(step.service.request) \in 0..(c.message.length - l.done)
           /\ step.kind = "return" /\ step.ret = "OK" => l.finished
  <1> DEFINE first == FirstChunk(c, type)
             next == NextChunk(c, l, type)
             s1 == Send("start_hash", StartHash(Piece(c, first)))
             s2 == Send("process_hash", ProcessHash(Piece(c, next)))
             s3 == Send("finish_hash", FinishHash([c EXCEPT !.message = Null]))
  <1>1. \/ step = Invalid
        \/ l.n = 0 /\ step = s1
        \/ l.n # 0 /\ l.finished /\ step = Finish("OK")
        \/ l.n # 0 /\ ~l.finished /\ l.done < c.message.length /\ step = s2
        \/ l.n # 0 /\ ~l.finished /\ ~(l.done < c.message.length) /\ step = s3
    BY DEF ComputeHash, Hashed
  <1>2. MaximumChunk(type) \in Nat /\ MaximumChunk(type) >= HashIdSize /\ HashIdSize \in Nat
    BY SizeAssumption DEF MaximumChunk
  <1>3. first \in 0..c.message.length
    BY <1>2 DEF FirstChunk
  <1>4. l.done < c.message.length => next \in 0..(c.message.length - l.done)
    <2> SUFFICES ASSUME l.done < c.message.length PROVE next \in 0..(c.message.length - l.done)
      OBVIOUS
    <2>1. c.message.length - l.done \in Nat
      OBVIOUS
    <2>2. next = IF c.message.length - l.done <= MaximumChunk(type)
                 THEN c.message.length - l.done ELSE MaximumChunk(type)
      BY <1>2, <2>1, MinOfTwo DEF NextChunk
    <2> QED
      BY <1>2, <2>1, <2>2
  <1>5. /\ s1.kind = "send" /\ s1.command = "start_hash" /\ s1.service = StartHash(Piece(c, first))
        /\ s2.kind = "send" /\ s2.command = "process_hash" /\ s2.service = ProcessHash(Piece(c, next))
        /\ s3.kind = "send" /\ s3.command = "finish_hash"
    BY SendKind
  <1> HIDE DEF s1, s2, s3, first, next
  <1>6. ASSUME NEW service, RefusalOf(service) = "NONE" PROVE service.refuses # TRUE
    BY <1>6 DEF RefusalOf
  <1>7. CASE step = Invalid \/ (l.n # 0 /\ l.finished /\ step = Finish("OK"))
    BY <1>7, SendKind
  <1>8. CASE l.n = 0 /\ step = s1
    <2>1. first \in Nat /\ l.done = 0
      BY <1>3, <1>8
    <2>2. RefusalOf(step.service) = "NONE" => MessageIn(step.service.request) = first
      <3>1. RefusalOf(step.service) = "NONE" => step.service.refuses # TRUE
        BY <1>6
      <3>2. step.service = StartHash(Piece(c, first))
        BY <1>5, <1>8
      <3>3. \/ StartHash(Piece(c, first)).refuses = TRUE
            \/ MessageIn(StartHash(Piece(c, first)).request) = first
        BY <2>1, PiecesCarry
      <3> QED
        BY <3>1, <3>2, <3>3
    <2>3. first \in 0..(c.message.length - l.done)
      BY <1>3, <2>1
    <2> QED
      BY <1>5, <1>8, <2>2, <2>3 DEF HashCalls
  <1>9. CASE l.n # 0 /\ ~l.finished /\ l.done < c.message.length /\ step = s2
    <2>1. next \in Nat
      BY <1>4, <1>9
    <2>2. RefusalOf(step.service) = "NONE" => MessageIn(step.service.request) = next
      <3>1. RefusalOf(step.service) = "NONE" => step.service.refuses # TRUE
        BY <1>6
      <3>2. step.service = ProcessHash(Piece(c, next))
        BY <1>5, <1>9
      <3>3. \/ ProcessHash(Piece(c, next)).refuses = TRUE
            \/ MessageIn(ProcessHash(Piece(c, next)).request) = next
        BY <2>1, PiecesCarry
      <3> QED
        BY <3>1, <3>2, <3>3
    <2> QED
      BY <1>4, <1>5, <1>9, <2>2 DEF HashCalls
  <1>10. CASE l.n # 0 /\ ~l.finished /\ ~(l.done < c.message.length) /\ step = s3
    BY <1>5, <1>10 DEF HashCalls
  <1> QED
    BY <1>1, <1>7, <1>8, <1>9, <1>10

\* What the call keeps of the answers of a hash.
LEMMA HashKept ==
    ASSUME Fields
    PROVE  /\ Piecewise => /\ After.done = local.done + Carried("message")
                           /\ After.finished = local.finished /\ After.covered = local.covered
           /\ cmd.command = "finish_hash" =>
                /\ After.done = local.done /\ After.finished = TRUE /\ After.covered = reply.digest
  <1> DEFINE l == [local EXCEPT !.n = Min({@ + 1, 3})]
  <1>1. /\ DOMAIN l = DOMAIN NoLocal /\ l.covered = local.covered /\ l.done = local.done
        /\ l.finished = local.finished
    BY DEF Fields, NoLocal
  <1>2. ASSUME Piecewise PROVE After = [l EXCEPT !.done = Progress(Carried("message"))]
    <2>1. CASE cmd.command = "start_hash"
      BY <2>1 DEF After, Counts, PrivateTables, SymmetricTables
    <2>2. CASE cmd.command = "process_hash"
      BY <2>2 DEF After, Counts, PrivateTables, SymmetricTables
    <2> QED
      BY <1>2, <2>1, <2>2 DEF Piecewise
  <1>3. ASSUME cmd.command = "finish_hash"
        PROVE  After = [l EXCEPT !.finished = TRUE, !.covered = reply.digest]
    BY <1>3 DEF After, Counts, PrivateTables, SymmetricTables
  <1> HIDE DEF l
  <1> QED
    BY <1>1, <1>2, <1>3 DEF NoLocal, Progress

LEMMA CarriedKept ==
    ASSUME cmd' = cmd
    PROVE  Carried("message")' = Carried("message")
  BY DEF Carried

\* The command of the next exchange of a hash.
LEMMA HashSends ==
    ASSUME Shape, Fields, HashInv, phase # "idle", call.op = "compute_hash", SendsNext
    PROVE  /\ cmd'.command \in HashCalls /\ ~local.finished
           /\ local.n = 0 <=> cmd'.command = "start_hash"
           /\ Piecewise' => Carried("message")' \in 0..(call.message.length - local.done)
           /\ cmd'.command = "finish_hash" => local.done = call.message.length
  <1>0. /\ "message" \in DOMAIN call /\ call.message.length \in Nat /\ local.n \in Nat
        /\ handle.type \in DOMAIN Calls /\ local.done \in 0..call.message.length
        /\ local.n = 0 => local.done = 0
    BY ArgumentsAre, SizeAssumption DEF Shape, Fields, HashInv
  <1>1. NextStep = ComputeHash(call, local, handle.type)
    <2>1. call.op \in Several
      BY DEF Several
    <2> QED
      BY <2>1, SeveralSteps, SendKind DEF NextStep, SendsNext
  <1>2. NextStep.kind = "send" /\ RefusalOf(NextStep.service) = "NONE" /\ cmd' = NextStep
    BY DEF SendsNext
  <1>3. /\ NextStep.command \in HashCalls
        /\ local.n = 0 <=> NextStep.command = "start_hash"
        /\ local.n # 0 => ~local.finished
        /\ NextStep.command = "finish_hash" => local.done = call.message.length
        /\ NextStep.command \in {"start_hash", "process_hash"} =>
             MessageIn(NextStep.service.request) \in 0..(call.message.length - local.done)
    BY <1>0, <1>1, <1>2, HashedIs
  <1>4. Carried("message")' = MessageIn(NextStep.service.request)
    BY <1>2 DEF Carried, MessageIn
  <1>5. ~local.finished
    BY <1>3 DEF HashInv
  <1> QED
    BY <1>2, <1>3, <1>4, <1>5 DEF Piecewise

LEMMA HashReturns ==
    ASSUME Shape, Fields, HashInv, phase # "idle", call.op = "compute_hash", ReturnsOf, result' = "OK"
    PROVE  local.finished
  <1>0. /\ "message" \in DOMAIN call /\ call.message.length \in Nat /\ local.n \in Nat
        /\ handle.type \in DOMAIN Calls /\ local.done \in 0..call.message.length
        /\ local.n = 0 => local.done = 0
    BY ArgumentsAre, SizeAssumption DEF Shape, Fields, HashInv
  <1>1. NextStep = ComputeHash(call, local, handle.type)
    <2>1. call.op \in Several
      BY DEF Several
    <2>2. NextStep # Finish("HANDLER_NOT_INITIALISED")
      <3>1. NextStep.ret = "OK"
        BY DEF ReturnsOf
      <3>2. Finish("HANDLER_NOT_INITIALISED").ret = "HANDLER_NOT_INITIALISED"
        BY SendKind
      <3> QED
        BY <3>1, <3>2
    <2> QED
      BY <2>1, <2>2, SeveralSteps DEF NextStep
  <1>2. NextStep.kind = "return" /\ NextStep.ret = "OK"
    BY DEF ReturnsOf
  <1> QED
    BY <1>0, <1>1, <1>2, HashedIs

LEMMA HashExecuted ==
    ASSUME Shape, Fields, HashInv, phase # "idle", call.op = "compute_hash", Executed
    PROVE  HashInv'
  <1> USE DEF OnTheWay
  <1> DEFINE k == Carried("message")
             Undisturbed == ~past'.resent /\ ~past'.disturbed
  <1>1. PICK o \in Performed(se) \cup {Refusal(se)} : Executes!(o)
    BY DEF Executed, Executes
  <1>2. /\ phase \in {"bus", "answered"} /\ phase' = "answered"
        /\ UNCHANGED <<call, local, cmd>> /\ se' = o.se /\ reply' = o.reply
    BY <1>1 DEF Executed
  <1>3. Undisturbed => phase = "bus" /\ ~past.resent /\ ~past.disturbed
    BY <1>1, <1>2 DEF Fields, NoPast
  <1>4. /\ cmd.command \in HashCalls /\ ~local.finished
        /\ local.n = 0 <=> cmd.command = "start_hash"
        /\ Piecewise => k \in 0..(call.message.length - local.done)
        /\ cmd.command = "finish_hash" => local.done = call.message.length
        /\ local.done \in 0..call.message.length
        /\ local.n = 0 => local.done = 0
    BY <1>2 DEF HashInv
  <1>5. k' = k /\ Piecewise' = Piecewise
    BY <1>2, CarriedKept DEF Piecewise
  <1>6. /\ Undisturbed /\ reply'.status = "OK" /\ Piecewise => se'.hash = Covered(Nothing, 0, local.done + k)
        /\ Undisturbed /\ reply'.status = "OK" /\ ~Piecewise =>
             reply'.digest = Covered(Nothing, 0, call.message.length)
    <2> SUFFICES ASSUME Undisturbed, reply'.status = "OK"
                 PROVE  /\ Piecewise => se'.hash = Covered(Nothing, 0, local.done + k)
                        /\ ~Piecewise => reply'.digest = Covered(Nothing, 0, call.message.length)
      OBVIOUS
    <2>0. o # Refusal(se) /\ o \in Hashing(se)
      <3>1. o # Refusal(se)
        BY <1>2, RepliesAre
      <3>2. o \in Performed(se)
        BY <3>1
      <3> QED
        <4>1. o \in Hashing(se)
          BY <1>4, <3>2 DEF Performed, HashCalls, Counts
        <4> QED
          BY <3>1, <4>1
    <2>1. local.n \in Nat /\ local.done \in Nat /\ (Piecewise => k \in Nat)
      BY <1>4 DEF Fields
    <2>2. cmd.command # "start_hash" /\ se.hash.open => se.hash = Covered(Nothing, 0, local.done)
      <3>1. cmd.command # "start_hash" => local.n > 0
        BY <1>4, <2>1
      <3> QED
        BY <1>2, <1>3, <1>4, <3>1 DEF HashInv, Hashes
    <2>3. CASE cmd.command = "start_hash"
      <3>1. o = Done([se EXCEPT !.hash = Covered(Nothing, local.done, k)])
        BY <1>4, <2>0, <2>3, HashOutcomes
      <3>2. se' = [se EXCEPT !.hash = Covered(Nothing, local.done, k)] /\ local.done = 0
        BY <1>2, <1>4, <2>3, <3>1, RepliesAre
      <3>3. se'.hash = Covered(Nothing, 0, k) /\ 0 + k = k
        BY <2>1, <2>3, <3>2 DEF Fields, Piecewise
      <3> QED
        BY <2>3, <3>2, <3>3 DEF Piecewise
    <2>4. CASE cmd.command = "process_hash"
      <3>1. se.hash.open /\ o = Done([se EXCEPT !.hash = Covered(@, local.done, k)])
        BY <1>4, <2>0, <2>4, HashOutcomes
      <3>2. se' = [se EXCEPT !.hash = Covered(@, local.done, k)]
        BY <1>2, <3>1, RepliesAre
      <3>3. se'.hash = Covered(Covered(Nothing, 0, local.done), local.done, k)
        BY <2>2, <2>4, <3>1, <3>2 DEF Fields
      <3> QED
        BY <2>1, <2>4, <3>3, CoverMore DEF Piecewise
    <2>5. CASE cmd.command = "finish_hash"
      <3>1. /\ se.hash.open
            /\ o = [se |-> [se EXCEPT !.hash = Nothing],
                    reply |-> [NoReply EXCEPT !.status = "OK", !.digest = se.hash]]
        BY <1>4, <2>0, <2>5, HashOutcomes
      <3>2. reply' = [NoReply EXCEPT !.status = "OK", !.digest = se.hash]
        BY <1>2, <3>1
      <3>3. reply'.digest = se.hash
        BY <3>2 DEF NoReply
      <3> QED
        BY <1>4, <2>2, <2>5, <3>1, <3>3 DEF Piecewise
    <2> QED
      BY <1>4, <2>3, <2>4, <2>5 DEF HashCalls
  <1> HIDE DEF k
  <1>7. call'.op = "compute_hash" /\ call' = call /\ local' = local /\ cmd' = cmd /\ phase' = "answered"
    BY <1>2
  <1>8. reply'.status = "OK" /\ Piecewise => Hashes(local.done + k)'
    BY <1>5, <1>6, <1>7 DEF Hashes, k
  <1> QED
    BY <1>4, <1>5, <1>6, <1>7, <1>8 DEF HashInv, k

LEMMA HashDelivered ==
    ASSUME Shape, Fields, HashInv, phase # "idle", call.op = "compute_hash", Delivered,
           call.message.length \in Nat
    PROVE  HashInv'
  <1> USE DEF OnTheWay
  <1> DEFINE k == Carried("message")
  <1>1. /\ phase = "answered" /\ reply.status = "OK" /\ phase' = "host" /\ local' = After
        /\ UNCHANGED <<se, call, past>>
    BY DEF Delivered
  <1>2. /\ cmd.command \in HashCalls /\ ~local.finished
        /\ Piecewise => k \in 0..(call.message.length - local.done)
        /\ local.done \in 0..call.message.length
        /\ Piecewise => Hashes(local.done + k)
        /\ ~Piecewise /\ ~past.resent /\ ~past.disturbed =>
             reply.digest = Covered(Nothing, 0, call.message.length)
    BY <1>1 DEF HashInv
  <1>3. local'.n # 0
    BY <1>1, AfterFields DEF Fields
  <1> HIDE DEF k
  <1>4. CASE Piecewise
    <2>1. local'.done = local.done + k /\ local'.finished = local.finished
      BY <1>1, <1>4, HashKept DEF k
    <2>2. local'.done \in 0..call.message.length
      BY <1>2, <1>4, <2>1
    <2>3. \A n : Hashes(n)' = Hashes(n)
      BY <1>1 DEF Hashes
    <2> QED
      BY <1>1, <1>2, <1>3, <1>4, <2>1, <2>2, <2>3 DEF HashInv
  <1>5. CASE ~Piecewise
    <2>1. cmd.command = "finish_hash"
      BY <1>2, <1>5 DEF Piecewise, HashCalls
    <2>2. local'.done = local.done /\ local'.finished = TRUE /\ local'.covered = reply.digest
      BY <1>1, <2>1, HashKept
    <2> QED
      BY <1>1, <1>2, <1>3, <1>5, <2>2 DEF HashInv
  <1> QED
    BY <1>4, <1>5

LEMMA HashStep ==
    ASSUME Shape, Fields, Fields', HashInv, [Next]_vars
    PROVE  HashInv'
  <1> SUFFICES ASSUME phase' # "idle", call'.op = "compute_hash" PROVE HashInv'
    BY DEF HashInv
  <1>0. call'.message.length \in Nat
    BY ArgumentAssumption, SizeAssumption DEF Fields
  <1>1. CASE phase = "idle"
    <2>1. phase' = "host" /\ local'.n = 0 /\ local'.done = 0 /\ local'.finished = FALSE
      BY <1>1, CallBegins DEF NoLocal
    <2> QED
      BY <1>0, <2>1 DEF HashInv, OnTheWay
  <1>2. CASE phase # "idle"
    <2>0. call' = call /\ call.op = "compute_hash" /\ call.op \in Several
      BY <1>2, SameCall DEF Several
    <2>00. /\ local.done \in 0..call.message.length
           /\ local.n = 0 => local.done = 0 /\ ~local.finished
           /\ local.finished /\ ~past.resent /\ ~past.disturbed =>
                local.covered = Covered(Nothing, 0, call.message.length)
      BY <1>2, <2>0 DEF HashInv
    <2> USE DEF OnTheWay
    <2>1. CASE ReturnsOf
      <3>1. result' = "OK" => local.finished
        BY <1>2, <2>0, <2>1, HashReturns
      <3>2. phase' = "returned" /\ UNCHANGED <<call, local, past>>
        BY <2>1 DEF ReturnsOf
      <3> QED
        BY <2>0, <2>00, <3>1, <3>2 DEF HashInv
    <2>2. CASE Broken
      <3>1. phase' = "returned" /\ result' # "OK" /\ UNCHANGED <<call, local, past>>
        BY <2>2 DEF Broken
      <3> QED
        BY <2>0, <2>00, <3>1 DEF HashInv
    <2>3. CASE SendsNext
      <3>1. phase = "host" /\ phase' = "bus" /\ UNCHANGED <<se, call, local, past>>
        BY <2>3 DEF SendsNext
      <3>2. local.n > 0 /\ ~local.finished => Hashes(local.done)
        BY <1>2, <2>0, <3>1 DEF HashInv
      <3>3. Hashes(local.done)' = Hashes(local.done)
        BY <3>1 DEF Hashes
      <3> QED
        BY <1>2, <2>0, <2>00, <2>3, <3>1, <3>2, <3>3, HashSends DEF HashInv
    <2>4. CASE Executed
      BY <1>2, <2>0, <2>4, HashExecuted
    <2>5. CASE Delivered
      BY <1>0, <1>2, <2>0, <2>5, HashDelivered
    <2>6. CASE PowerLost
      <3>1. /\ se'.hash.open = FALSE /\ past'.resent = past.resent
            /\ past'.disturbed = past.disturbed
            /\ UNCHANGED <<phase, call, local, cmd, reply, result>>
        BY <2>6 DEF PowerLost, WithoutPower, Nothing, Fields, NoPast
      <3>2. \A n : Hashes(n)'
        BY <3>1 DEF Hashes
      <3>3. Carried("message")' = Carried("message") /\ Piecewise' = Piecewise
        BY <3>1, CarriedKept DEF Piecewise
      <3> QED
        BY <1>2, <2>0, <3>1, <3>2, <3>3 DEF HashInv
    <2>7. CASE OtherTask
      <3>1. /\ phase = "host" /\ past'.disturbed = TRUE
            /\ UNCHANGED <<phase, call, local, cmd, reply, result>>
        BY <2>7 DEF OtherTask, Fields, NoPast
      <3>2. \A n : Hashes(n)'
        BY <3>1 DEF Hashes
      <3> QED
        BY <2>0, <2>00, <3>1, <3>2 DEF HashInv
    <2>8. CASE UNCHANGED vars
      <3>1. UNCHANGED <<se, phase, call, local, cmd, reply, result, past>>
        BY <2>8 DEF vars
      <3>2. Carried("message")' = Carried("message") /\ Piecewise' = Piecewise
        BY <3>1, CarriedKept DEF Piecewise
      <3> QED
        BY <1>2, <2>0, <3>1, <3>2 DEF HashInv, Hashes
    <2> QED
      BY <1>2, <2>0, <2>1, <2>2, <2>3, <2>4, <2>5, <2>6, <2>7, <2>8, CallSteps
  <1> QED
    BY <1>1, <1>2

\* A hash that succeeds is of the whole message, and a buffer is filled with
\* random bytes from its beginning to its end (WholeMessage), for messages,
\* buffers and frames of every length.
THEOREM WholeMessages == Spec => []WholeMessage
  <1>1. Init => RandomInv /\ HashInv
    BY DEF Init, RandomInv, HashInv
  <1>2. Shape /\ Fields /\ RandomInv /\ HashInv /\ [Next]_vars
          => (Shape /\ Fields /\ RandomInv /\ HashInv)'
    BY NextShape, FieldsStep, RandomStep, HashStep
  <1>3. RandomInv /\ HashInv => WholeMessage
    BY DEF RandomInv, HashInv, WholeMessage
  <1> QED
    BY <1>1, <1>2, <1>3, InitShape, FieldsInit, PTL DEF Spec

-----------------------------------------------------------------------------
(* The types                                                               *)

\* What a step of any call does to the command, the arguments and the variables.
LEMMA SentStep ==
    ASSUME Shape, SentInv, [Next]_vars
    PROVE  SentInv'
  <1> SUFFICES ASSUME OnTheWay' PROVE cmd'.command \in Commands(call'.op)
    BY DEF SentInv
  <1>1. CASE HostSends
    <2>1. NextStep.kind = "send" /\ cmd' = NextStep /\ call' = call
      BY <1>1 DEF HostSends, ExchangeFails, Returns, OnTheWay
    <2>2. Proper(call.op, NextStep)
      BY ProperStep DEF NextStep, Shape
    <2> QED
      BY <2>1, <2>2 DEF Proper
  <1>2. CASE Execute \/ Retransmit \/ PowerLoss \/ OtherTask \/ UNCHANGED vars
    <2>1. OnTheWay /\ UNCHANGED <<cmd, call>>
      BY <1>2 DEF Execute, Retransmit, PowerLoss, OtherTask, vars, OnTheWay
    <2> QED
      BY <2>1 DEF SentInv
  <1>3. CASE \/ \E c \in Calls[handle.type] : Call(c)
             \/ HostReturns \/ PreparesPlatform \/ SwitchesPower \/ Deliver \/ Fails \/ Return
    BY <1>3 DEF Call, HostReturns, PreparesPlatform, SwitchesPower, Deliver, Fails, Return,
                ExchangeFails, Returns, OnTheWay
  <1> QED
    BY <1>1, <1>2, <1>3 DEF Next, Host

Results == {"NONE", "OK", "ERROR", "FAILED", "INVALID_PARAMETER", "INCONSISTENT_FRAME",
            "FRAME_SIZE_ERROR", "INCOMPATIBLE_DEVICE_TYPE", "PLATFORM_ERROR",
            "KEY_NOT_FOUND", "HANDLER_NOT_INITIALISED"}
Typed ==
    /\ handle.ready \in BOOLEAN
    /\ se.life \in {"OPERATIONAL", "LOCKED"} /\ se.tries \in 0..MaxTries
    /\ reply.status \in {"none", "OK", "ERROR"} /\ reply.number \in Nat
    /\ cmd.kind = "send" <=> OnTheWay
    /\ result \in Results

\* What is executed leaves the life cycle and the tries in their ranges.
LEMMA OutcomeTyped ==
    ASSUME Shape, Fields, SessionInv, SentInv, Typed, OnTheWay,
           NEW o \in Performed(se) \cup {Refusal(se)}
    PROVE  /\ o.se.life \in {"OPERATIONAL", "LOCKED"} /\ o.se.tries \in 0..MaxTries
           /\ o.reply.status \in {"OK", "ERROR"} /\ o.reply.number \in Nat
  <1> DEFINE Kept(s) == s.life \in {"OPERATIONAL", "LOCKED"} /\ s.tries \in 0..MaxTries
  <1>0. HasParts(se) /\ Kept(se) /\ MaxTries \in Nat /\ SlotCount \in Nat /\ se.mask \in Nat
        /\ PrkSlots \subseteq Nat
    BY SizeAssumption DEF Fields, HasParts, Parts, Typed, Shape
  <1>1. CASE o = Refusal(se) \/ o = Done(se)
    BY <1>0, <1>1, RepliesAre
  <1>2. CASE cmd.command = "verify_password" /\ o \in Passwords(se)
    <2>1. \/ o = Refusal(se)
          \/ o = DoneWith([se EXCEPT !.tries = MaxTries], 1)
          \/ se.tries # 0 /\ o = DoneWith([se EXCEPT !.tries = @ - 1], 0)
      BY <1>2 DEF Passwords
    <2>2. CASE o = DoneWith([se EXCEPT !.tries = MaxTries], 1)
      <3>1. o.se = [se EXCEPT !.tries = MaxTries] /\ o.reply.status = "OK" /\ o.reply.number = 1
        BY <2>2, RepliesAre
      <3> QED
        BY <1>0, <3>1 DEF HasParts, Parts
    <2>3. CASE se.tries # 0 /\ o = DoneWith([se EXCEPT !.tries = @ - 1], 0)
      <3>1. o.se = [se EXCEPT !.tries = @ - 1] /\ o.reply.status = "OK" /\ o.reply.number = 0
        BY <2>3, RepliesAre
      <3> QED
        BY <1>0, <2>3, <3>1 DEF HasParts, Parts
    <2> QED
      BY <1>1, <2>1, <2>2, <2>3
  <1>3. CASE \E v \in {"OPERATIONAL", "LOCKED"} : o = Done([se EXCEPT !.life = v])
    <2>1. PICK v \in {"OPERATIONAL", "LOCKED"} : o = Done([se EXCEPT !.life = v])
      BY <1>3
    <2>2. o.se = [se EXCEPT !.life = v] /\ o.reply.status = "OK" /\ o.reply.number = 0
      BY <2>1, RepliesAre
    <2> QED
      BY <1>0, <2>2 DEF HasParts, Parts
  <1>4. CASE cmd.command \in HashCalls /\ o \in Hashing(se)
    <2>1. \/ o = Refusal(se)
          \/ \E v : o = Done([se EXCEPT !.hash = v])
          \/ o = [se |-> [se EXCEPT !.hash = Nothing],
                  reply |-> [NoReply EXCEPT !.status = "OK", !.digest = se.hash]]
      BY <1>4, HashOutcomes
    <2>2. CASE \E v : o = Done([se EXCEPT !.hash = v])
      <3>1. PICK v : o = Done([se EXCEPT !.hash = v])
        BY <2>2
      <3>2. o.se = [se EXCEPT !.hash = v] /\ o.reply.status = "OK" /\ o.reply.number = 0
        BY <3>1, RepliesAre
      <3> QED
        BY <1>0, <3>2 DEF HasParts, Parts
    <2>3. CASE o = [se |-> [se EXCEPT !.hash = Nothing],
                    reply |-> [NoReply EXCEPT !.status = "OK", !.digest = se.hash]]
      <3>1. /\ o.se = [se EXCEPT !.hash = Nothing]
            /\ o.reply = [NoReply EXCEPT !.status = "OK", !.digest = se.hash]
        BY <2>3
      <3>2. o.reply.status = "OK" /\ o.reply.number = 0
        BY <3>1 DEF NoReply
      <3> QED
        BY <1>0, <3>1, <3>2 DEF HasParts, Parts
    <2> QED
      BY <1>1, <2>1, <2>2, <2>3
  <1>5. CASE \E i \in Free(se) : o = DoneWith([se EXCEPT !.prk[i] = call.session], i)
    <2>1. PICK i \in Free(se) : o = DoneWith([se EXCEPT !.prk[i] = call.session], i)
      BY <1>5
    <2>2. o.se = [se EXCEPT !.prk[i] = call.session] /\ o.reply.status = "OK" /\ o.reply.number = i
      BY <2>1, RepliesAre
    <2>3. i \in Nat
      BY <1>0, <2>1 DEF Free
    <2> QED
      BY <1>0, <2>2, <2>3 DEF HasParts, Parts
  <1>6. CASE cmd.command \in {"expand_enc", "expand_mac"} /\ o = DoneWith(se, se.prk[local.prk])
    <2>1. call.op = "derive_session_keys"
      BY <1>6 DEF SentInv, Commands, Shape, Internal, HashCalls
    <2>2. local.prk \in PrkSlots
      <3>1. local.n # 0
        BY <1>6, <2>1 DEF SessionInv, OnTheWay
      <3> QED
        BY <2>1, <3>1 DEF SessionInv, OnTheWay, Fields
    <2>3. se.prk[local.prk] \in Nat
      BY <1>0, <2>2 DEF HasParts
    <2> QED
      BY <1>0, <1>6, <2>3, RepliesAre
  <1>7. CASE \E n \in Nat : o = DoneWith(se, n)
    BY <1>0, <1>7, RepliesAre
  <1>8. CASE o = Done(WithoutPower(se))
    <2>1. o.se = WithoutPower(se) /\ o.reply.status = "OK" /\ o.reply.number = 0
      BY <1>8, RepliesAre
    <2> QED
      BY <1>0, <2>1 DEF WithoutPower, HasParts, Parts
  <1> QED
    BY <1>0, <1>1, <1>2, <1>3, <1>4, <1>5, <1>6, <1>7, <1>8, Outcomes

LEMMA TypedStep ==
    ASSUME Shape, Fields, SessionInv, SentInv, Typed, [Next]_vars
    PROVE  Typed'
  <1> USE DEF Typed, OnTheWay
  <1> DEFINE Kept == se'.life = se.life /\ se'.tries = se.tries
  <1>0. HasParts(se)
    BY DEF Fields, HasParts, Parts
  <1>01. NoExchange.kind # "send" /\ NoReply.status = "none" /\ NoReply.number = 0
    BY DEF NoExchange, NoReply
  <1>02. ASSUME NEW ret \in Results, ExchangeFails(ret), phase \in {"host", "bus", "answered"}
         PROVE  /\ phase' \notin {"bus", "answered"} /\ cmd' = NoExchange /\ result' \in Results
    BY <1>02 DEF ExchangeFails, Returns, Results
  <1>1. CASE \E c \in Calls[handle.type] : Call(c)
    BY <1>1 DEF Call
  <1>2. CASE HostReturns
    <2>1. NextStep.ret \in Codes
      <3>1. Proper(call.op, NextStep)
        BY ProperStep DEF NextStep, Shape
      <3> QED
        BY <1>2, <3>1 DEF HostReturns, Proper
    <2>2. result' \in Results
      BY <1>2, <2>1 DEF HostReturns, Returns, Codes, Results
    <2>3. handle'.ready \in BOOLEAN
      BY <1>2 DEF HostReturns, Shape
    <2> QED
      BY <1>01, <1>2, <2>2, <2>3 DEF HostReturns, Returns
  <1>3. CASE PreparesPlatform
    BY <1>01, <1>3 DEF PreparesPlatform, Returns, Results
  <1>4. CASE SwitchesPower
    <2>1. Kept
      BY <1>0, <1>4 DEF SwitchesPower, WithoutPower, HasParts, Parts
    <2> QED
      BY <1>4, <2>1 DEF SwitchesPower
  <1>5. CASE HostSends
    <2>1. CASE RefusalOf(NextStep.service) = "NONE"
      BY <1>5, <2>1 DEF HostSends
    <2>2. CASE RefusalOf(NextStep.service) # "NONE"
      <3>1. RefusalOf(NextStep.service) \in Results
        BY RefusalIs DEF Results
      <3>2. ExchangeFails(RefusalOf(NextStep.service)) /\ phase = "host"
        BY <1>5, <2>2 DEF HostSends
      <3>3. phase' \notin {"bus", "answered"} /\ cmd' = NoExchange /\ result' \in Results
        BY <1>02, <3>1, <3>2
      <3> QED
        BY <1>01, <1>5, <3>3 DEF HostSends
    <2> QED
      BY <2>1, <2>2
  <1>6. CASE Deliver
    <2>1. phase' \notin {"bus", "answered"} /\ cmd' = NoExchange /\ result' \in Results
      BY <1>6 DEF Deliver, Returns, Results
    <2>2. handle'.ready = handle.ready
      BY <1>6 DEF Deliver, Shape
    <2> QED
      BY <1>01, <1>6, <2>1, <2>2 DEF Deliver
  <1>7. CASE Fails
    <2>1. PICK ret \in Results : ExchangeFails(ret) /\ phase \in {"bus", "answered"}
      BY <1>7 DEF Fails, Results
    <2>2. phase' \notin {"bus", "answered"} /\ cmd' = NoExchange /\ result' \in Results
      BY <1>02, <2>1
    <2> QED
      BY <1>01, <1>7, <2>2 DEF Fails
  <1>8. CASE Execute \/ Retransmit
    <2>1. PICK o \in Performed(se) \cup {Refusal(se)} : Executes!(o)
      BY <1>8 DEF Execute, Retransmit, Executes
    <2>2. /\ OnTheWay /\ phase' = "answered" /\ se' = o.se /\ reply' = o.reply
          /\ UNCHANGED <<handle, cmd, result>>
      BY <1>8, <2>1 DEF Execute, Retransmit
    <2>3. /\ o.se.life \in {"OPERATIONAL", "LOCKED"} /\ o.se.tries \in 0..MaxTries
          /\ o.reply.status \in {"OK", "ERROR"} /\ o.reply.number \in Nat
      BY <2>2, OutcomeTyped
    <2> QED
      BY <2>2, <2>3
  <1>9. CASE PowerLoss
    <2>1. Kept
      BY <1>0, <1>9 DEF PowerLoss, WithoutPower, HasParts, Parts
    <2> QED
      BY <1>9, <2>1 DEF PowerLoss
  <1>10. CASE OtherTask
    <2>1. \/ \E v : se' = [se EXCEPT !.hash = v]
          \/ \E i : se' = [se EXCEPT !.prk[i] = OtherSession]
      BY <1>10 DEF OtherTask
    <2>2. Kept
      BY <1>0, <2>1 DEF HasParts, Parts
    <2> QED
      BY <1>10, <2>2 DEF OtherTask
  <1>11. CASE Return
    BY <1>11 DEF Return, Results
  <1>12. CASE UNCHANGED vars
    BY <1>12 DEF vars
  <1> QED
    BY <1>1, <1>2, <1>3, <1>4, <1>5, <1>6, <1>7, <1>8, <1>9, <1>10, <1>11, <1>12 DEF Next, Host

\* The exchange of a hash call that is not composed of others.
LEMMA HashApiSends ==
    ASSUME Shape, phase # "idle", call.op \in HashCalls, SendsNext
    PROVE  /\ local.n = 0 /\ cmd'.command = call.op /\ ~HashApiRefused(call)
           /\ cmd'.service = HashApi(call)
           /\ Piecewise' => Carried("message")' = call.message.length
  <1>1. call.op \in Several
    BY DEF Several, HashCalls
  <1>2. NextStep.kind = "send" /\ RefusalOf(NextStep.service) = "NONE" /\ cmd' = NextStep
    BY DEF SendsNext
  <1>3. NextStep = OnceChecked(HashApiRefused(call), call, local, HashApi(call))
    <2>1. NextStep # Finish("HANDLER_NOT_INITIALISED")
      BY <1>2, SendKind
    <2> QED
      BY <1>1, <2>1, SeveralSteps DEF NextStep, HashCalls
  <1>4. ~HashApiRefused(call) /\ local.n = 0 /\ NextStep = Send(call.op, HashApi(call))
    BY <1>2, <1>3, SendKind DEF OnceChecked, Checked, Once
  <1>5. NextStep.command = call.op /\ NextStep.service = HashApi(call)
    BY <1>4, SendKind
  <1>6. HashApi(call).refuses # TRUE
    BY <1>2, <1>5 DEF RefusalOf
  <1>7. Piecewise' => MessageIn(HashApi(call).request) = call.message.length
    <2>1. CASE call.op = "start_hash"
      BY <1>6, <2>1, MessageCarried DEF HashApi
    <2>2. CASE call.op = "process_hash"
      BY <1>6, <2>2, MessageCarried DEF HashApi
    <2>3. CASE call.op = "finish_hash"
      BY <1>2, <1>5, <2>3 DEF Piecewise
    <2> QED
      BY <2>1, <2>2, <2>3 DEF HashCalls
  <1> QED
    BY <1>2, <1>4, <1>5, <1>7 DEF Carried, MessageIn

\* The other answers have nothing to do with how much was handled.
LEMMA OtherAnswers ==
    ASSUME Fields, ~Piecewise, cmd.command # "generate_random"
    PROVE  After.done = local.done
  <1> DEFINE l == [local EXCEPT !.n = Min({@ + 1, 3})]
  <1>1. DOMAIN l = DOMAIN NoLocal /\ l.done = local.done
    BY DEF Fields, NoLocal
  <1>2. \/ After = l
        \/ \E v, w : After = [l EXCEPT !.finished = v, !.covered = w]
        \/ \E v : After = [l EXCEPT !.verdict = v]
        \/ \E v : After = [l EXCEPT !.count = v]
        \/ \E v, w : After = [l EXCEPT !.wrote = v, !.room = w]
        \/ \E v : After = [l EXCEPT !.mask = v]
        \/ \E v : After = [l EXCEPT !.prk = v]
        \/ \E v : After = [l EXCEPT !.enc = v]
        \/ \E v : After = [l EXCEPT !.mac = v]
    BY DEF After, Piecewise, Counts, PrivateTables, SymmetricTables
  <1> HIDE DEF l
  <1> QED
    BY <1>1, <1>2 DEF NoLocal

LEMMA DoneStepHash ==
    ASSUME Shape, Fields, DoneInv, [Next]_vars, phase # "idle", phase' # "idle",
           call.op \in HashCalls
    PROVE  DoneInv'
  <1> USE DEF OnTheWay
  <1>0. call' = call /\ call.op \in Several
    BY SameCall DEF Several, HashCalls
  <1>1. /\ local.n = 0 => local.done = 0
        /\ local.done \in {0, call.message.length}
    BY DEF DoneInv
  <1>2. call.op \notin {"compute_hash", "generate_random"}
    BY DEF HashCalls
  <1>3. CASE ReturnsOf \/ Broken
    <2>1. phase' = "returned" /\ local' = local
      BY <1>3 DEF ReturnsOf, Broken
    <2> QED
      BY <1>0, <1>1, <2>1 DEF DoneInv
  <1>4. CASE SendsNext
    <2>1. local' = local
      BY <1>4 DEF SendsNext
    <2> QED
      BY <1>0, <1>1, <1>4, <2>1, HashApiSends DEF DoneInv
  <1>5. CASE Executed
    <2>1. OnTheWay /\ UNCHANGED <<local, cmd>>
      BY <1>5 DEF Executed
    <2>2. Carried("message")' = Carried("message") /\ Piecewise' = Piecewise
      BY <2>1, CarriedKept DEF Piecewise
    <2> QED
      BY <1>0, <1>1, <2>1, <2>2 DEF DoneInv
  <1>6. CASE Delivered
    <2>1. phase = "answered" /\ phase' = "host" /\ local' = After
      BY <1>6 DEF Delivered
    <2>2. local.n = 0 /\ (Piecewise => Carried("message") = call.message.length)
          /\ local.done = 0 /\ cmd.command \in HashCalls
      BY <2>1 DEF DoneInv
    <2>3. After.n # 0
      BY AfterFields DEF Fields
    <2>4. After.done \in {0, call.message.length}
      <3>1. CASE Piecewise
        <4>1. call.message.length \in Nat
          BY ArgumentsAre, SizeAssumption
        <4> QED
          BY <2>2, <3>1, <4>1, HashKept
      <3>2. CASE ~Piecewise
        BY <2>2, <3>2, HashKept DEF Piecewise, HashCalls
      <3> QED
        BY <3>1, <3>2
    <2> QED
      BY <1>0, <2>1, <2>3, <2>4 DEF DoneInv
  <1>7. CASE PowerLost \/ OtherTask \/ UNCHANGED vars
    <2>1. UNCHANGED <<phase, local, cmd>>
      BY <1>7 DEF PowerLost, OtherTask, vars
    <2>2. Carried("message")' = Carried("message") /\ Piecewise' = Piecewise
      BY <2>1, CarriedKept DEF Piecewise
    <2> QED
      BY <1>0, <2>1, <2>2 DEF DoneInv
  <1> QED
    BY <1>0, <1>3, <1>4, <1>5, <1>6, <1>7, CallSteps

LEMMA DoneStep ==
    ASSUME Shape, Fields, SentInv, DoneInv, [Next]_vars
    PROVE  DoneInv'
  <1> SUFFICES ASSUME phase' # "idle" PROVE DoneInv'
    BY DEF DoneInv
  <1>1. CASE phase = "idle"
    <2>1. phase' = "host" /\ local'.n = 0 /\ local'.done = 0
      BY <1>1, CallBegins DEF NoLocal
    <2> QED
      BY <2>1 DEF DoneInv, OnTheWay
  <1>2. CASE phase # "idle" /\ call.op \in HashCalls
    BY <1>2, DoneStepHash
  <1>3. CASE phase # "idle" /\ call.op \in {"compute_hash", "generate_random"}
    BY <1>3, SameCall DEF DoneInv, HashCalls
  <1>4. CASE phase # "idle" /\ call.op \notin HashCalls \cup {"compute_hash", "generate_random"}
    <2>0. call' = call /\ local.done = 0
      BY <1>4, SameCall DEF DoneInv
    <2>1. local'.done = local.done
      <3>0. DOMAIN local = DOMAIN NoLocal
        BY DEF Fields
      <3>1. CASE UNCHANGED local
        BY <3>1
      <3>2. CASE \/ local' = [local EXCEPT !.platform = TRUE]
                 \/ \E v, w : local' = [local EXCEPT !.n = v, !.count = w]
        BY <3>0, <3>2 DEF NoLocal
      <3>3. CASE phase = "answered" /\ local' = After
        <4>1. cmd.command \in Commands(call.op)
          BY <3>3 DEF SentInv, OnTheWay
        <4>2. ~Piecewise /\ cmd.command # "generate_random"
          BY <1>4, <4>1 DEF Commands, Piecewise, HashCalls
        <4> QED
          BY <3>3, <4>2, OtherAnswers
      <3>4. ASSUME NEW ret, ExchangeFails(ret)
            PROVE  \/ UNCHANGED local
                   \/ \E v, w : local' = [local EXCEPT !.n = v, !.count = w]
        BY <3>4 DEF ExchangeFails
      <3>5. \/ UNCHANGED local
            \/ local' = [local EXCEPT !.platform = TRUE]
            \/ \E v, w : local' = [local EXCEPT !.n = v, !.count = w]
            \/ phase = "answered" /\ local' = After
        BY <1>4, <3>4 DEF Next, Host, Call, HostReturns, PreparesPlatform, SwitchesPower, HostSends,
             Deliver, Fails, Execute, Retransmit, PowerLoss, OtherTask, Return, vars
      <3> QED
        BY <3>1, <3>2, <3>3, <3>5
    <2> QED
      BY <1>4, <2>0, <2>1 DEF DoneInv
  <1> QED
    BY <1>1, <1>2, <1>3, <1>4

LEMMA UptoExecuted ==
    ASSUME Shape, Fields, HashInv, UptoInv, phase # "idle", call.op = "compute_hash", Executed
    PROVE  UptoInv'
  <1> USE DEF OnTheWay
  <1> DEFINE k == Carried("message")
  <1>1. PICK o \in Performed(se) \cup {Refusal(se)} : Executes!(o)
    BY DEF Executed, Executes
  <1>2. /\ phase \in {"bus", "answered"} /\ phase' = "answered"
        /\ UNCHANGED <<call, local, cmd>> /\ se' = o.se /\ reply' = o.reply
    BY <1>1 DEF Executed
  <1>3. /\ cmd.command \in HashCalls
        /\ local.n = 0 <=> cmd.command = "start_hash"
        /\ Piecewise => k \in 0..(call.message.length - local.done)
        /\ local.done \in 0..call.message.length
        /\ local.n = 0 => local.done = 0
    BY <1>2 DEF HashInv
  <1>4. k' = k /\ Piecewise' = Piecewise
    BY <1>2, CarriedKept DEF Piecewise
  <1>5. local.done \in Nat /\ (Piecewise => k \in Nat) /\ "hash" \in DOMAIN se
    BY <1>3 DEF Fields
  <1>6. Nothing.upto = 0 /\ \A c, from, n : Covered(c, from, n).upto = from + n
    BY DEF Nothing, Covered
  <1>7. /\ reply'.status = "OK" /\ Piecewise => se'.hash.upto \in 0..(local.done + k)
        /\ reply'.status = "OK" /\ ~Piecewise => reply'.digest.upto \in 0..local.done
        /\ cmd.command = "finish_hash" => se'.hash.upto \in 0..local.done
    <2>1. CASE o = Refusal(se)
      <3>1. se' = se /\ reply'.status = "ERROR"
        BY <1>2, <2>1, RepliesAre
      <3> QED
        BY <1>2, <3>1 DEF UptoInv
    <2>2. CASE o # Refusal(se)
      <3>0. o \in Hashing(se)
        <4>1. o \in Performed(se)
          BY <2>2
        <4> QED
          BY <1>3, <4>1 DEF Performed, HashCalls, Counts
      <3>1. CASE cmd.command = "start_hash"
        <4>1. o = Done([se EXCEPT !.hash = Covered(Nothing, local.done, k)])
          BY <1>3, <2>2, <3>0, <3>1, HashOutcomes
        <4>2. se' = [se EXCEPT !.hash = Covered(Nothing, local.done, k)]
          BY <1>2, <4>1, RepliesAre
        <4>3. se'.hash.upto = local.done + k
          BY <1>5, <1>6, <4>2
        <4> QED
          BY <1>5, <3>1, <4>3 DEF Piecewise
      <3>2. CASE cmd.command = "process_hash"
        <4>1. o = Done([se EXCEPT !.hash = Covered(@, local.done, k)])
          BY <1>3, <2>2, <3>0, <3>2, HashOutcomes
        <4>2. se' = [se EXCEPT !.hash = Covered(@, local.done, k)]
          BY <1>2, <4>1, RepliesAre
        <4>3. se'.hash.upto = local.done + k
          BY <1>5, <1>6, <4>2
        <4> QED
          BY <1>5, <3>2, <4>3 DEF Piecewise
      <3>3. CASE cmd.command = "finish_hash"
        <4>1. o = [se |-> [se EXCEPT !.hash = Nothing],
                   reply |-> [NoReply EXCEPT !.status = "OK", !.digest = se.hash]]
          BY <1>3, <2>2, <3>0, <3>3, HashOutcomes
        <4>2. /\ se' = [se EXCEPT !.hash = Nothing]
              /\ reply' = [NoReply EXCEPT !.status = "OK", !.digest = se.hash]
          BY <1>2, <4>1
        <4>3. se'.hash.upto = 0 /\ reply'.digest = se.hash
          BY <1>5, <1>6, <4>2 DEF NoReply
        <4>4. se.hash.upto \in 0..local.done
          BY <1>2, <3>3 DEF UptoInv
        <4> QED
          BY <1>5, <3>3, <4>3, <4>4 DEF Piecewise
      <3> QED
        BY <1>3, <3>1, <3>2, <3>3 DEF HashCalls
    <2> QED
      BY <2>1, <2>2
  <1>8. local.covered.upto \in 0..local.done
    BY DEF UptoInv
  <1> HIDE DEF k
  <1> QED
    BY <1>2, <1>4, <1>7, <1>8 DEF UptoInv, k

LEMMA UptoDelivered ==
    ASSUME Shape, Fields, HashInv, UptoInv, phase # "idle", call.op = "compute_hash", Delivered
    PROVE  UptoInv'
  <1> USE DEF OnTheWay
  <1> DEFINE k == Carried("message")
  <1>1. /\ phase = "answered" /\ reply.status = "OK" /\ phase' = "host" /\ local' = After
        /\ UNCHANGED <<se, call>>
    BY DEF Delivered
  <1>2. /\ cmd.command \in HashCalls
        /\ Piecewise => k \in 0..(call.message.length - local.done)
        /\ local.done \in 0..call.message.length
    BY <1>1 DEF HashInv
  <1>3. /\ local.covered.upto \in 0..local.done
        /\ Piecewise => se.hash.upto \in 0..(local.done + k)
        /\ ~Piecewise => reply.digest.upto \in 0..local.done
    BY <1>1 DEF UptoInv
  <1> HIDE DEF k
  <1>4. CASE Piecewise
    <2>1. local'.done = local.done + k /\ local'.covered = local.covered
      BY <1>1, <1>4, HashKept DEF k
    <2>2. local.done \in Nat /\ k \in Nat
      BY <1>2, <1>4
    <2>3. local'.covered.upto \in 0..local'.done /\ se'.hash.upto \in 0..local'.done
      BY <1>1, <1>3, <1>4, <2>1, <2>2
    <2> QED
      BY <1>1, <2>3 DEF UptoInv
  <1>5. CASE ~Piecewise
    <2>1. cmd.command = "finish_hash"
      BY <1>2, <1>5 DEF Piecewise, HashCalls
    <2>2. local'.done = local.done /\ local'.finished = TRUE /\ local'.covered = reply.digest
      BY <1>1, <2>1, HashKept
    <2> QED
      BY <1>1, <1>3, <1>5, <2>2 DEF UptoInv
  <1> QED
    BY <1>4, <1>5

LEMMA UptoStep ==
    ASSUME Shape, Fields, HashInv, UptoInv, [Next]_vars
    PROVE  UptoInv'
  <1> SUFFICES ASSUME phase' # "idle", call'.op = "compute_hash" PROVE UptoInv'
    BY DEF UptoInv
  <1>1. CASE phase = "idle"
    <2>1. phase' = "host" /\ local'.n = 0 /\ local'.done = 0 /\ local'.covered.upto = 0
      BY <1>1, CallBegins DEF NoLocal, Nothing
    <2> QED
      BY <2>1 DEF UptoInv, OnTheWay
  <1>2. CASE phase # "idle"
    <2>0. call' = call /\ call.op = "compute_hash" /\ call.op \in Several
      BY <1>2, SameCall DEF Several
    <2>00. local.covered.upto \in 0..local.done
      BY <1>2, <2>0 DEF UptoInv
    <2>01. local.done \in Nat /\ local.n \in Nat
      BY <1>2, <2>0, ArgumentsAre, SizeAssumption DEF HashInv, Fields
    <2> USE DEF OnTheWay
    <2>1. CASE ReturnsOf \/ Broken
      <3>1. phase' = "returned" /\ local' = local
        BY <2>1 DEF ReturnsOf, Broken
      <3> QED
        BY <2>0, <2>00, <3>1 DEF UptoInv
    <2>3. CASE SendsNext
      <3>1. phase = "host" /\ phase' = "bus" /\ UNCHANGED <<se, call, local>>
        BY <2>3 DEF SendsNext
      <3>2. local.n > 0 /\ ~local.finished => se.hash.upto \in 0..local.done
        BY <1>2, <2>0, <3>1 DEF UptoInv
      <3>3. cmd'.command = "finish_hash" => local.n > 0 /\ ~local.finished
        BY <1>2, <2>0, <2>01, <2>3, HashSends
      <3> QED
        BY <2>0, <2>00, <3>1, <3>2, <3>3 DEF UptoInv
    <2>4. CASE Executed
      BY <1>2, <2>0, <2>4, UptoExecuted
    <2>5. CASE Delivered
      BY <1>2, <2>0, <2>5, UptoDelivered
    <2>6. CASE PowerLost \/ OtherTask \/ UNCHANGED vars
      <3>1. /\ UNCHANGED <<phase, call, local, cmd, reply>>
            /\ se'.hash.upto \in {0, se.hash.upto}
        <4>1. CASE PowerLost
          BY <4>1 DEF PowerLost, WithoutPower, Nothing, Fields
        <4>2. CASE OtherTask
          BY <4>2 DEF OtherTask, Fields
        <4>3. CASE UNCHANGED vars
          BY <4>3 DEF vars
        <4> QED
          BY <2>6, <4>1, <4>2, <4>3
      <3>2. Carried("message")' = Carried("message") /\ Piecewise' = Piecewise
        BY <3>1, CarriedKept DEF Piecewise
      <3>3. phase = "answered" /\ Piecewise => Carried("message") \in Nat
        BY <1>2, <2>0, <2>01 DEF HashInv
      <3> DEFINE k == Carried("message")
      <3>4. /\ 0 \in 0..local.done
            /\ phase = "answered" /\ Piecewise => 0 \in 0..(local.done + k)
        BY <2>01, <3>3
      <3> HIDE DEF k
      <3> QED
        BY <1>2, <2>0, <2>01, <3>1, <3>2, <3>4 DEF UptoInv, k
    <2> QED
      BY <1>2, <2>0, <2>1, <2>3, <2>4, <2>5, <2>6, CallSteps
  <1> QED
    BY <1>1, <1>2

LEMMA InitTyped == Init => Typed
  <1> SUFFICES ASSUME Init PROVE Typed
    OBVIOUS
  <1>1. /\ handle.ready \in BOOLEAN /\ cmd.kind # "send" /\ result = "NONE"
        /\ reply.status = "none" /\ reply.number = 0 /\ ~OnTheWay
    BY DEF Init, NoExchange, NoReply, OnTheWay
  <1>2. \E life \in {"OPERATIONAL", "LOCKED"} : \E mask :
            se = [NewElement(mask) EXCEPT !.life = life]
    BY DEF Init
  <1>3. se.life \in {"OPERATIONAL", "LOCKED"} /\ se.tries = MaxTries
    BY <1>2 DEF NewElement
  <1> QED
    BY <1>1, <1>3, SizeAssumption DEF Typed, Results

\* The call, the handle and the secure element keep their types (TypeOK).
THEOREM CallTypes == Spec => []TypeOK
  <1> DEFINE Inv == /\ Shape /\ Fields /\ SessionInv /\ RandomInv /\ HashInv
                    /\ SentInv /\ DoneInv /\ UptoInv /\ Typed
  <1>1. Init => Inv
    <2> SUFFICES ASSUME Init PROVE Inv
      OBVIOUS
    <2>1. Shape /\ Fields
      BY InitShape, FieldsInit
    <2>2. phase = "idle" /\ ~OnTheWay
      BY DEF Init, OnTheWay
    <2>3. Typed
      BY InitTyped
    <2> QED
      BY <2>1, <2>2, <2>3 DEF SessionInv, RandomInv, HashInv, SentInv, DoneInv, UptoInv
  <1>2. Inv /\ [Next]_vars => Inv'
    <2> SUFFICES ASSUME Inv, [Next]_vars PROVE Inv'
      OBVIOUS
    <2>1. Shape' /\ Fields'
      BY NextShape, FieldsStep
    <2> QED
      BY <2>1, SessionStep, RandomStep, HashStep, SentStep, DoneStep, UptoStep, TypedStep
  <1>3. Inv => TypeOK
    <2> SUFFICES ASSUME Inv PROVE TypeOK
      OBVIOUS
    <2>1. handle.type \in DOMAIN MaxFrame
      BY SizeAssumption DEF Shape
    <2>2. local.done \in 0..(Word - 1) /\ Word \in Nat \ {0}
      <3>1. CASE phase = "idle"
        BY <3>1, SizeAssumption DEF Shape, NoLocal
      <3>2. CASE phase # "idle"
        <4>1. call.message.length \in 0..(Word - 1) /\ call.output.length \in 0..(Word - 1)
          BY <3>2, ArgumentsAre
        <4>2. CASE call.op = "compute_hash"
          BY <3>2, <4>1, <4>2, SizeAssumption DEF HashInv
        <4>3. CASE call.op = "generate_random"
          BY <3>2, <4>1, <4>3, SizeAssumption DEF RandomInv
        <4>4. CASE call.op \notin {"compute_hash", "generate_random"}
          BY <3>2, <4>1, <4>4, SizeAssumption DEF DoneInv
        <4> QED
          BY <4>2, <4>3, <4>4
      <3> QED
        BY <3>1, <3>2
    <2>3. call.op \in {"compute_hash", "generate_random"} => local.covered.upto <= local.done
      <3>1. CASE phase = "idle"
        BY <3>1 DEF Shape, NoLocal, Nothing
      <3>2. CASE phase # "idle" /\ call.op = "compute_hash"
        BY <2>2, <3>2 DEF UptoInv
      <3>3. CASE phase # "idle" /\ call.op = "generate_random"
        <4>1. local.covered = IF local.done = 0 THEN Nothing ELSE Covered(Nothing, 0, local.done)
          BY <3>3 DEF RandomInv
        <4>2. Nothing.upto = 0 /\ Covered(Nothing, 0, local.done).upto = local.done
          BY <2>2 DEF Nothing, Covered
        <4> QED
          BY <2>2, <4>1, <4>2
      <3> QED
        BY <3>1, <3>2, <3>3
    <2>4. cmd.kind = "send" <=> phase \in {"bus", "answered"}
      BY DEF Typed, OnTheWay
    <2> QED
      BY <2>1, <2>2, <2>3, <2>4 DEF TypeOK, Typed, Shape, Fields, Results
  <1> QED
    BY <1>1, <1>2, <1>3, PTL DEF Spec

-----------------------------------------------------------------------------
(* Requests that are accepted and answers that can be read                 *)

\* Elements with data.
Names == {"header", "length", "message", "input_source", "slot_number", "hkdf_flags", "hash_algo",
          "info", "destination", "key_length", "prk_slot", "digest_size"}
Announcements == {{}, {"info"}, {"destination", "key_length"}}
Full == [name : Names, length : Nat, room : Nat, null : {FALSE}, says : Nat, of : Announcements]

LEMMA FullLengths == \A e \in Full : e.length \in Nat /\ ~e.null
  BY DEF Full

LEMMA FullReadable ==
    ASSUME NEW frame \in Seq(Full)
    PROVE  ~Unreadable(frame)
  <1>1. \A i \in 1..Len(frame) : frame[i] \in Full
    OBVIOUS
  <1>2. \A i \in 2..Len(frame) : i \in 1..Len(frame)
    OBVIOUS
  <1> QED
    BY <1>1, <1>2, FullLengths DEF Unreadable

LEMMA FullParts ==
    /\ \A name \in Names, n \in Nat : Fixed(name, n) \in Full /\ Fixed(name, n).length = n
    /\ \A names \in Announcements : /\ BigEndian(names, 3) \in Full
                                                  /\ BigEndian(names, 3).length = 2
    /\ \A name \in Names, n \in Nat : /\ From(name, Buffer(n)) \in Full
                                       /\ From(name, Buffer(n)).length = n
  <1>0. {} \in Announcements
    BY DEF Announcements
  <1>1. ASSUME NEW name \in Names, NEW n \in Nat
        PROVE  Fixed(name, n) \in Full /\ Fixed(name, n).length = n
    BY <1>0 DEF Fixed, Part, Full
  <1>2. ASSUME NEW names \in Announcements
        PROVE  BigEndian(names, 3) \in Full /\ BigEndian(names, 3).length = 2
    <2>1. PICK w \in Nat : w = 3 % Word
      BY SizeAssumption
    <2>2. BigEndian(names, 3) = [[name |-> "length", length |-> 2, room |-> 2, null |-> FALSE,
                               says |-> 0, of |-> {}] EXCEPT !.says = w, !.of = names]
      BY <2>1 DEF BigEndian, Fixed, Part
    <2>3. BigEndian(names, 3) = [name |-> "length", length |-> 2, room |-> 2, null |-> FALSE,
                              says |-> w, of |-> names]
      BY <2>2
    <2> DEFINE e == [name |-> "length", length |-> 2, room |-> 2, null |-> FALSE,
                     says |-> w, of |-> names]
    <2>4. e \in Full
      BY DEF Full, Names
    <2>5. e.length = 2
      OBVIOUS
    <2> QED
      BY <2>3, <2>4, <2>5
  <1>3. ASSUME NEW name \in Names, NEW n \in Nat
        PROVE  From(name, Buffer(n)) \in Full /\ From(name, Buffer(n)).length = n
    BY <1>0 DEF From, Buffer, Part, Full
  <1> QED
    BY <1>1, <1>2, <1>3

LEMMA ModLess ==
    ASSUME NEW n \in Nat
    PROVE  n % Word <= n
  <1>1. CASE n < Word
    <2>1. n % Word = n
      BY <1>1, SizeAssumption
    <2> QED
      BY <2>1
  <1>2. CASE ~(n < Word)
    <2>1. n % Word < Word
      BY SizeAssumption
    <2>2. n % Word \in Nat
      BY SizeAssumption
    <2> QED
      BY <1>2, <2>1, <2>2, SizeAssumption
  <1> QED
    BY <1>1, <1>2, SizeAssumption

\* A service that refuses nothing lends a frame that fits and that can be read.
LEMMA NothingRefused ==
    ASSUME handle.type \in DOMAIN Calls, NEW service, service.refuses = FALSE,
           TotalLength(service.request) \in Nat,
           TotalLength(service.request) <= MaxFrame[handle.type],
           ~Unreadable(service.request)
    PROVE  RefusalOf(service) = "NONE"
  <1> DEFINE n == TotalLength(service.request)
  <1>1. MaxFrame[handle.type] \in Nat
    BY SizeAssumption
  <1>2. n % Word <= n /\ n % Word \in Nat
    BY ModLess, SizeAssumption
  <1>3. n \in Nat /\ n <= MaxFrame[handle.type]
    OBVIOUS
  <1> HIDE DEF n
  <1>4. ~((n % Word) > MaxFrame[handle.type])
    BY <1>1, <1>2, <1>3
  <1>5. ~TooLong(service.request)
    BY <1>4 DEF TooLong, n
  <1> QED
    BY <1>5 DEF RefusalOf

\* A list of elements with data, and its length.
Lists(s, n) == s \in Seq(Full) /\ TotalLength(s) = n

LEMMA ListsOne ==
    ASSUME NEW e \in Full
    PROVE  Lists(<<e>>, e.length)
  <1>1. TotalLength(<<e>>) = e.length
    BY FullLengths, TotalLengthOne
  <1> QED
    BY <1>1 DEF Lists

LEMMA ListsMore ==
    ASSUME NEW s, NEW t, NEW m \in Nat, NEW n \in Nat, Lists(s, m), Lists(t, n)
    PROVE  Lists(s \o t, m + n)
  <1>1. s \in Seq(Full) /\ t \in Seq(Full) /\ TotalLength(s) = m /\ TotalLength(t) = n
    BY DEF Lists
  <1>2. s \o t \in Seq(Full) /\ TotalLength(s \o t) = TotalLength(s) + TotalLength(t)
    BY <1>1, FullLengths, TotalLengthConcat
  <1> QED
    BY <1>1, <1>2 DEF Lists

LEMMA ListsNone == Lists(<< >>, 0)
  BY TotalLengthEmpty DEF Lists

LEMMA ListsTwo ==
    ASSUME NEW a \in Full, NEW b \in Full
    PROVE  Lists(<<a, b>>, a.length + b.length)
  <1>1. <<a>> \o <<b>> = <<a, b>>
    BY Concatenated
  <1>2. a.length \in Nat /\ b.length \in Nat
    BY FullLengths
  <1>3. Lists(<<a>>, a.length) /\ Lists(<<b>>, b.length)
    BY ListsOne
  <1>4. Lists(<<a>> \o <<b>>, a.length + b.length)
    BY <1>2, <1>3, ListsMore
  <1> QED
    BY <1>1, <1>4

\* The list of one list.
LEMMA FlattenOne ==
    ASSUME NEW x
    PROVE  FlattenSeq([i \in 1..1 |-> x]) = x
  <1> DEFINE s == [i \in 1..1 |-> x]
             Is(g) == g = [i \in 1..Len(s) |-> IF i = 1 THEN s[i] ELSE g[i - 1] \o s[i]]
  <1>1. Len(s) = 1 /\ s[1] = x
    OBVIOUS
  <1>2. Is([i \in 1..1 |-> x])
    BY <1>1
  <1>3. Is(CHOOSE g : Is(g))
    BY <1>2
  <1>4. \A g : Is(g) => g[1] = x
    BY <1>1
  <1>5. (CHOOSE g : Is(g))[1] = x
    BY <1>3, <1>4
  <1>6. FlattenSeq(s) = (CHOOSE g : Is(g))[Len(s)]
    BY <1>1 DEF FlattenSeq
  <1> QED
    BY <1>1, <1>5, <1>6

\* The elements of an expansion.
LEMMA DataIs == Data("info", Buffer(3)) = <<BigEndian({"info"}, 3)>> \o <<From("info", Buffer(3))>>
  <1>1. Buffer(3).length = 3 /\ Buffer(3).length > 0 /\ ~Buffer(3).null
    BY DEF Buffer
  <1> QED
    BY <1>1 DEF Data

LEMMA DescriptionIs ==
    ASSUME NEW b
    PROVE  Description(InResponse(b))
             = <<BigEndian({"destination", "key_length"}, 3), Fixed("destination", 1), Fixed("key_length", 2)>>
  <1>1. InResponse(b).response = TRUE
    BY DEF InResponse
  <1> QED
    BY <1>1 DEF Description

LEMMA ListsThree ==
    ASSUME NEW a \in Full, NEW b \in Full, NEW c \in Full
    PROVE  /\ <<a, b>> \o <<c>> = <<a, b, c>>
           /\ Lists(<<a, b, c>>, a.length + b.length + c.length)
  <1>1. <<a, b>> \in Seq(Full) /\ <<c>> \in Seq(Full) /\ <<a, b, c>> \in Seq(Full)
    OBVIOUS
  <1>2. <<a, b>> \o <<c>> = <<a, b, c>>
    <2>1. /\ <<a, b>> \o <<c>> \in Seq(Full) /\ Len(<<a, b>> \o <<c>>) = 3
          /\ \A i \in 1..3 : (<<a, b>> \o <<c>>)[i] = IF i <= 2 THEN <<a, b>>[i] ELSE c
      BY <1>1, ConcatProperties
    <2>2. Len(<<a, b, c>>) = 3 /\ \A i \in 1..3 : (<<a, b>> \o <<c>>)[i] = <<a, b, c>>[i]
      BY <2>1
    <2> DEFINE s == <<a, b>> \o <<c>>
               t == <<a, b, c>>
    <2>3. s \in Seq(Full) /\ t \in Seq(Full) /\ Len(s) = Len(t) /\ \A i \in 1..Len(s) : s[i] = t[i]
      BY <1>1, <2>1, <2>2
    <2> HIDE DEF s, t
    <2>4. s = t
      BY <2>3, SeqEqual
    <2> QED
      BY <2>4 DEF s, t
  <1>3. a.length \in Nat /\ b.length \in Nat /\ c.length \in Nat /\ a.length + b.length \in Nat
    BY FullLengths
  <1>4. Lists(<<a, b>>, a.length + b.length) /\ Lists(<<c>>, c.length)
    BY ListsOne, ListsTwo
  <1>5. Lists(<<a, b>> \o <<c>>, a.length + b.length + c.length)
    BY <1>3, <1>4, ListsMore
  <1> QED
    BY <1>2, <1>5

LEMMA ExpansionLists ==
    ASSUME NEW b
    PROVE  Lists(Extended \o <<Fixed("input_source", 1)>> \o Slot
                   \o <<Fixed("hkdf_flags", 1), Fixed("hash_algo", 11)>> \o << >>
                   \o (Data("info", Buffer(3)) \o Description(InResponse(b))), 26)
  <1> DEFINE h == Fixed("header", 2)
             i1 == Fixed("input_source", 1)
             s1 == Fixed("slot_number", 1)
             k1 == Fixed("hkdf_flags", 1)
             k2 == Fixed("hash_algo", 11)
             n1 == BigEndian({"info"}, 3)
             n2 == From("info", Buffer(3))
             d1 == BigEndian({"destination", "key_length"}, 3)
             d2 == Fixed("destination", 1)
             d3 == Fixed("key_length", 2)
  <1>1. /\ h \in Full /\ h.length = 2 /\ i1 \in Full /\ i1.length = 1
        /\ s1 \in Full /\ s1.length = 1 /\ k1 \in Full /\ k1.length = 1
        /\ k2 \in Full /\ k2.length = 11 /\ d2 \in Full /\ d2.length = 1
        /\ d3 \in Full /\ d3.length = 2
    <2>1. {"header", "input_source", "slot_number", "hkdf_flags", "hash_algo", "destination",
           "key_length"} \subseteq Names
      BY DEF Names
    <2> QED
      BY <2>1, FullParts
  <1>2. /\ n1 \in Full /\ n1.length = 2 /\ d1 \in Full /\ d1.length = 2
        /\ n2 \in Full /\ n2.length = 3
    <2>1. "info" \in Names /\ {"info"} \in Announcements
          /\ {"destination", "key_length"} \in Announcements
      BY DEF Names, Announcements
    <2> QED
      BY <2>1, FullParts
  <1>3. Extended = <<h>> /\ Slot = <<s1>>
    BY DEF Extended, Slot
  <1> HIDE DEF h, i1, s1, k1, k2, n1, n2, d1, d2, d3
  <1>4. Lists(<<h>>, 2) /\ Lists(<<i1>>, 1) /\ Lists(<<s1>>, 1) /\ Lists(<<k1, k2>>, 12)
        /\ Lists(<<n1>>, 2) /\ Lists(<<n2>>, 3) /\ Lists(<<d1, d2, d3>>, 5)
    <2>1. Lists(<<h>>, h.length) /\ Lists(<<i1>>, i1.length) /\ Lists(<<s1>>, s1.length)
          /\ Lists(<<n1>>, n1.length) /\ Lists(<<n2>>, n2.length)
      BY <1>1, <1>2, ListsOne
    <2>2. Lists(<<k1, k2>>, k1.length + k2.length)
      BY <1>1, ListsTwo
    <2>3. Lists(<<d1, d2, d3>>, d1.length + d2.length + d3.length)
      BY <1>1, <1>2, ListsThree
    <2>4. k1.length + k2.length = 12 /\ d1.length + d2.length + d3.length = 5
      BY <1>1, <1>2
    <2> QED
      BY <1>1, <1>2, <2>1, <2>2, <2>3, <2>4
  <1>5. Lists(<<n1>> \o <<n2>>, 5)
    BY <1>4, ListsMore
  <1>6. Lists(<<n1>> \o <<n2>> \o <<d1, d2, d3>>, 10)
    BY <1>4, <1>5, ListsMore
  <1>7. Lists(<<h>> \o <<i1>>, 3)
    BY <1>4, ListsMore
  <1>8. Lists(<<h>> \o <<i1>> \o <<s1>>, 4)
    BY <1>4, <1>7, ListsMore
  <1>9. Lists(<<h>> \o <<i1>> \o <<s1>> \o <<k1, k2>>, 16)
    BY <1>4, <1>8, ListsMore
  <1>10. Lists(<<h>> \o <<i1>> \o <<s1>> \o <<k1, k2>> \o << >>, 16)
    BY <1>9, ListsNone, ListsMore
  <1>11. Lists(<<h>> \o <<i1>> \o <<s1>> \o <<k1, k2>> \o << >>
                 \o (<<n1>> \o <<n2>> \o <<d1, d2, d3>>), 26)
    BY <1>6, <1>10, ListsMore
  <1>12. /\ Data("info", Buffer(3)) = <<n1>> \o <<n2>>
         /\ Description(InResponse(b)) = <<d1, d2, d3>>
    BY DataIs, DescriptionIs DEF n1, n2, d1, d2, d3
  <1> QED
    BY <1>3, <1>11, <1>12 DEF i1, k1, k2

\* One key from a slot: what the secure element is asked, and what it answers.
LEMMA DeriveOne ==
    ASSUME NEW d, NEW b, d.input_null = FALSE, d.output = Buffer(1), d.input = FromSlot,
           d.extract = FALSE, d.expand = TRUE, d.okm_null = FALSE, d.okm = <<InResponse(b)>>,
           d.info = Buffer(3)
    PROVE  /\ DeriveKeys(d).refuses = FALSE
           /\ Lists(DeriveKeys(d).request, 26)
           /\ DeriveKeys(d).answer = Answer \o << >> \o [i \in 1..1 |-> Derived(InResponse(b))]
  <1> DEFINE k == InResponse(b)
             refuses == \/ d.input_null \/ d.output.null
                        \/ d.expand /\ d.okm_null
                        \/ d.extract /\ d.salt_null
                        \/ d.expand /\ \E i \in 1..Len(d.okm) : ~d.okm[i].response /\ d.okm[i].null
             request == Extended \o <<Fixed("input_source", 1)>>
               \o (IF d.input.slot THEN Slot
                   ELSE <<Fixed("mode_of_operation", 1),
                          BigEndian({"input"}, d.input.buffer.length),
                          From("input", d.input.buffer)>>)
               \o <<Fixed("hkdf_flags", 1), Fixed("hash_algo", 11)>>
               \o (IF ~d.extract THEN << >>
                   ELSE <<Fixed("salt_source", 1)>>
                        \o IF d.salt.slot THEN Slot ELSE Data("salt", d.salt.buffer))
               \o (IF ~d.expand THEN << >>
                   ELSE Data("info", d.info)
                        \o FlattenSeq([i \in 1..Len(d.okm) |-> Description(d.okm[i])]))
             answer == Answer
               \o (IF d.extract /\ ~d.expand THEN <<Fixed("prk_slot", 1)>> ELSE << >>)
               \o (IF d.expand THEN [i \in 1..Len(d.okm) |-> Derived(d.okm[i])] ELSE << >>)
  <1>1. DeriveKeys(d) = Service(refuses, request, answer)
    BY DEF DeriveKeys
  <1>2. k.response = TRUE
    BY DEF InResponse
  <1> HIDE DEF k
  <1>3. Len(d.okm) = 1 /\ d.okm[1] = k /\ 1..Len(d.okm) = 1..1 /\ \A i \in 1..1 : d.okm[i] = k
    BY DEF k
  <1>4. ~refuses
    <2>1. d.output.null = FALSE
      BY DEF Buffer
    <2>2. \A i \in 1..Len(d.okm) : d.okm[i].response = TRUE
      BY <1>2, <1>3
    <2> QED
      BY <2>1, <2>2
  <1>5. d.input.slot = TRUE
    BY DEF FromSlot
  <1>6. /\ [i \in 1..Len(d.okm) |-> Description(d.okm[i])] = [i \in 1..1 |-> Description(k)]
        /\ [i \in 1..Len(d.okm) |-> Derived(d.okm[i])] = [i \in 1..1 |-> Derived(k)]
    <2>1. [i \in 1..Len(d.okm) |-> Description(d.okm[i])] = [i \in 1..1 |-> Description(k)]
      BY <1>3
    <2>2. [i \in 1..Len(d.okm) |-> Derived(d.okm[i])] = [i \in 1..1 |-> Derived(k)]
      BY <1>3
    <2> QED
      BY <2>1, <2>2
  <1>7. FlattenSeq([i \in 1..1 |-> Description(k)]) = Description(k)
    BY FlattenOne
  <1>8. request = Extended \o <<Fixed("input_source", 1)>> \o Slot
                    \o <<Fixed("hkdf_flags", 1), Fixed("hash_algo", 11)>> \o << >>
                    \o (Data("info", Buffer(3)) \o Description(k))
    BY <1>5, <1>6, <1>7
  <1>9. Lists(request, 26)
    BY <1>8, ExpansionLists DEF k
  <1>10. answer = Answer \o << >> \o [i \in 1..1 |-> Derived(k)]
    BY <1>6
  <1> HIDE DEF refuses, request, answer
  <1>11. /\ DeriveKeys(d).refuses = FALSE /\ DeriveKeys(d).request = request
         /\ DeriveKeys(d).answer = answer
    BY <1>1, <1>4 DEF Service
  <1> QED
    BY <1>9, <1>10, <1>11 DEF k

\* An answer of a header, nothing and one element.
LEMMA AnswersOne ==
    ASSUME NEW e
    PROVE  /\ Len(Answer \o << >> \o [i \in 1..1 |-> e]) = 2
           /\ (Answer \o << >> \o [i \in 1..1 |-> e])[2] = e
           /\ Len(Answer \o <<e>> \o << >>) = 2
           /\ (Answer \o <<e>> \o << >>)[2] = e
  <1> DEFINE h == Fixed("header", 1)
             S == {h, e}
  <1>1. Answer = <<h>>
    BY DEF Answer
  <1> HIDE DEF h
  <1>2. <<h>> \in Seq(S) /\ << >> \in Seq(S) /\ <<e>> \in Seq(S) /\ [i \in 1..1 |-> e] \in Seq(S)
    OBVIOUS
  <1>3. /\ Len([i \in 1..1 |-> e]) = 1 /\ [i \in 1..1 |-> e][1] = e
        /\ Len(<<h>>) = 1 /\ Len(<<e>>) = 1 /\ Len(<< >>) = 0 /\ <<e>>[1] = e
    OBVIOUS
  <1> DEFINE u == <<h>> \o << >>
             v == <<h>> \o <<e>>
             f == [i \in 1..1 |-> e]
  <1>4. /\ u \in Seq(S) /\ Len(u) = 1 /\ v \in Seq(S) /\ Len(v) = 2 /\ v[2] = e
    BY <1>2, <1>3, ConcatProperties
  <1> HIDE DEF u, v, f, S
  <1>5. /\ Len(u \o f) = 2 /\ (u \o f)[2] = e
    <2>1. f \in Seq(S) /\ Len(f) = 1 /\ f[1] = e
      BY <1>2, <1>3 DEF f
    <2> QED
      BY <1>4, <2>1, ConcatProperties
  <1>6. /\ Len(v \o << >>) = 2 /\ (v \o << >>)[2] = e
    BY <1>2, <1>3, <1>4, ConcatProperties
  <1> QED
    BY <1>1, <1>5, <1>6 DEF u, v, f

\* The arguments that a derivation is made of.
DerivationArguments ==
    {"input_null", "output", "input", "extract", "expand", "salt_null", "salt", "info", "okm_null",
     "okm", "salt_data", "context", "tag"}

LEMMA ExpansionIs ==
    ASSUME NEW c, DerivationArguments \subseteq DOMAIN c, NEW b, ~b.null, c.context = Buffer(3)
    PROVE  /\ Expansion(c, b).refuses = FALSE
           /\ Lists(Expansion(c, b).request, 26)
           /\ ~Unreadable(Expansion(c, b).answer)
  <1> DEFINE salt == FromCommand(c.salt_data)
             okm == <<InResponse(b)>>
             d == [c EXCEPT !.input_null = FALSE, !.output = Buffer(1), !.input = FromSlot,
                            !.extract = FALSE, !.expand = TRUE, !.salt_null = ~FALSE,
                            !.salt = salt, !.info = c.context, !.okm_null = ~TRUE, !.okm = okm]
  <1>1. Expansion(c, b) = DeriveKeys(d)
    BY DEF Expansion, Derivation
  <1> HIDE DEF salt, okm
  <1>2. /\ d.input_null = FALSE /\ d.output = Buffer(1) /\ d.input = FromSlot /\ d.extract = FALSE
        /\ d.expand = TRUE /\ d.okm_null = FALSE /\ d.okm = okm /\ d.info = c.context
    BY DEF DerivationArguments
  <1> HIDE DEF d
  <1>3. d.okm = <<InResponse(b)>> /\ d.info = Buffer(3)
    BY <1>2 DEF okm
  <1>4. /\ DeriveKeys(d).refuses = FALSE
        /\ Lists(DeriveKeys(d).request, 26)
        /\ DeriveKeys(d).answer = Answer \o << >> \o [i \in 1..1 |-> Derived(InResponse(b))]
    BY <1>2, <1>3, DeriveOne
  <1>5. ~Derived(InResponse(b)).null
    <2>1. InResponse(b).response = TRUE /\ InResponse(b).null = b.null
      BY DEF InResponse
    <2> QED
      BY <2>1 DEF Derived, Part
  <1>6. ~Unreadable(DeriveKeys(d).answer)
    <2>1. Len(DeriveKeys(d).answer) = 2 /\ DeriveKeys(d).answer[2] = Derived(InResponse(b))
      BY <1>4, AnswersOne
    <2> QED
      BY <1>5, <2>1 DEF Unreadable
  <1> QED
    BY <1>1, <1>4, <1>6

LEMMA ExtractionIs ==
    ASSUME NEW c, DerivationArguments \subseteq DOMAIN c
    PROVE  ~Unreadable(Extraction(c).answer)
  <1> DEFINE salt == FromCommand(c.salt_data)
             d == [c EXCEPT !.input_null = FALSE, !.output = Buffer(1), !.input = FromSlot,
                            !.extract = TRUE, !.expand = FALSE, !.salt_null = ~TRUE,
                            !.salt = salt, !.info = c.context, !.okm_null = ~FALSE, !.okm = << >>]
  <1>1. Extraction(c) = DeriveKeys(d)
    BY DEF Extraction, Derivation
  <1> HIDE DEF salt
  <1>2. d.extract = TRUE /\ d.expand = FALSE
    BY DEF DerivationArguments
  <1> HIDE DEF d
  <1>3. \/ DeriveKeys(d).answer = << >>
        \/ DeriveKeys(d).answer = Answer \o <<Fixed("prk_slot", 1)>> \o << >>
    BY <1>2 DEF DeriveKeys, Service
  <1>4. ~Fixed("prk_slot", 1).null
    BY DEF Fixed, Part
  <1>5. CASE DeriveKeys(d).answer = << >>
    BY <1>1, <1>5 DEF Unreadable
  <1>6. CASE DeriveKeys(d).answer = Answer \o <<Fixed("prk_slot", 1)>> \o << >>
    <2>1. Len(DeriveKeys(d).answer) = 2 /\ DeriveKeys(d).answer[2] = Fixed("prk_slot", 1)
      BY <1>6, AnswersOne
    <2> QED
      BY <1>1, <1>4, <2>1 DEF Unreadable
  <1> QED
    BY <1>3, <1>5, <1>6

\* The exchanges of a hash.
LEMMA PieceIs ==
    ASSUME NEW c, "message" \in DOMAIN c, NEW n \in Nat, n # 0
    PROVE  /\ ProcessHash(Piece(c, n)).refuses = FALSE
           /\ Lists(ProcessHash(Piece(c, n)).request, 2 + n)
  <1> DEFINE p == Piece(c, n)
             h == Fixed("header", 2)
             e == From("message", p.message)
  <1>1. p.message = Buffer(n)
    BY DEF Piece
  <1>2. p.message.null = FALSE /\ p.message.length = n
    BY <1>1 DEF Buffer
  <1> HIDE DEF p
  <1>3. h \in Full /\ h.length = 2 /\ e \in Full /\ e.length = n
    <2>1. "header" \in Names /\ "message" \in Names
      BY DEF Names
    <2> QED
      BY <1>1, <2>1, FullParts
  <1>4. Extended \o <<e>> = <<h, e>>
    BY HashRequests
  <1>5. ProcessHash(p).refuses = FALSE /\ ProcessHash(p).request = <<h, e>>
    <2>1. ~(p.message.null \/ p.message.length = 0)
      BY <1>2
    <2> QED
      BY <1>4, <2>1 DEF ProcessHash, Service
  <1> HIDE DEF h, e
  <1>6. Lists(<<h, e>>, 2 + n)
    BY <1>3, ListsTwo
  <1> QED
    BY <1>5, <1>6 DEF p

LEMMA AnswerReadable == ~Unreadable(Answer) /\ ~Unreadable(<< >>)
  BY DEF Answer, Unreadable

LEMMA PieceAnswers ==
    ASSUME NEW p
    PROVE  ~Unreadable(StartHash(p).answer) /\ ~Unreadable(ProcessHash(p).answer)
  <1>1. StartHash(p).answer \in {<< >>, Answer} /\ ProcessHash(p).answer \in {<< >>, Answer}
    BY DEF StartHash, ProcessHash, Service
  <1> QED
    BY <1>1, AnswerReadable

LEMMA FinishAnswer ==
    ASSUME NEW p, ~p.output.null
    PROVE  ~Unreadable(FinishHash(p).answer)
  <1> DEFINE h == Fixed("header", 1)
             a == Fixed("digest_size", 2)
             b == Lent("digest", DigestSize[p.algorithm], p.output)
             S == {h, a, b}
  <1>1. FinishHash(p).answer = << >> \/ FinishHash(p).answer = Answer \o <<a, b>>
    BY DEF FinishHash, Service
  <1>2. Answer = <<h>>
    BY DEF Answer
  <1>3. ~a.null /\ ~b.null
    BY DEF Fixed, Lent, Part
  <1> HIDE DEF h, a, b
  <1>4. <<h>> \in Seq(S) /\ <<a, b>> \in Seq(S) /\ Len(<<h>>) = 1 /\ Len(<<a, b>>) = 2
        /\ <<a, b>>[1] = a /\ <<a, b>>[2] = b
    OBVIOUS
  <1> DEFINE u == <<h>> \o <<a, b>>
  <1>5. Len(u) = 3 /\ u[2] = a /\ u[3] = b
    BY <1>4, ConcatProperties
  <1> HIDE DEF u
  <1>6. ~Unreadable(u)
    BY <1>3, <1>5 DEF Unreadable
  <1> QED
    BY <1>1, <1>2, <1>6, AnswerReadable DEF u

LEMMA FinishIsAccepted ==
    ASSUME NEW c, {"message", "output", "digest_size"} \subseteq DOMAIN c,
           ~c.output.null, ~c.digest_size.null, NEW s, s = FinishHash([c EXCEPT !.message = Null])
    PROVE  /\ s.refuses = FALSE /\ TotalLength(s.request) = 2
           /\ ~Unreadable(s.request) /\ ~Unreadable(s.answer)
  <1> DEFINE p == [c EXCEPT !.message = Null]
             h == Fixed("header", 2)
             e == From("message", p.message)
             T == {h, e}
  <1>1. p.message = Null /\ p.output = c.output /\ p.digest_size = c.digest_size
    OBVIOUS
  <1> HIDE DEF p
  <1>2. ~(p.output.null \/ p.digest_size.null \/ Mismatched(p.message))
    <2>1. Null.null = TRUE /\ (Null.length = 0) = TRUE
      BY DEF Null
    <2>2. ~Mismatched(Null)
      BY <2>1 DEF Mismatched
    <2> QED
      BY <1>1, <2>2
  <1>3. Extended \o <<e>> = <<h, e>>
    BY HashRequests
  <1>4. s.refuses = FALSE /\ s.request = <<h, e>>
    BY <1>2, <1>3 DEF FinishHash, Service, p
  <1>5. h.length = 2 /\ e.length = 0
    BY <1>1 DEF Fixed, From, Part, Null
  <1>6. ~Unreadable(s.answer)
    BY <1>1, FinishAnswer DEF p
  <1> HIDE DEF h, e
  <1>7. TotalLength(<<h, e>>) = 2
    <2>1. \A x \in T : x.length \in Nat
      BY <1>5
    <2>2. <<h>> \in Seq(T) /\ <<e>> \in Seq(T) /\ h \in T /\ e \in T
      OBVIOUS
    <2> HIDE DEF T
    <2>3. TotalLength(<<h>>) = 2 /\ TotalLength(<<e>>) = 0
      BY <1>5, <2>1, <2>2, TotalLengthOne
    <2> DEFINE u == <<h>>
               v == <<e>>
    <2>4. TotalLength(u \o v) = 2
      <3>1. u \in Seq(T) /\ v \in Seq(T) /\ TotalLength(u) = 2 /\ TotalLength(v) = 0
        BY <2>2, <2>3
      <3> HIDE DEF u, v
      <3>2. TotalLength(u \o v) = TotalLength(u) + TotalLength(v)
        BY <2>1, <3>1, TotalLengthConcat
      <3> QED
        BY <3>1, <3>2
    <2>5. <<h>> \o <<e>> = <<h, e>>
      BY <2>2, Concatenated
    <2> QED
      BY <2>4, <2>5
  <1>8. ~Unreadable(<<h, e>>)
    BY <1>5 DEF Unreadable
  <1> QED
    BY <1>4, <1>6, <1>7, <1>8

-----------------------------------------------------------------------------
(* Refused calls                                                           *)

LEMMA SeenIs ==
    /\ call.op = "derive_session_keys" =>
         (ArgumentsSeen <=> ~call.no_handle /\ ~call.output.null /\ ~call.tag.null)
    /\ call.op = "compute_hash" =>
         (ArgumentsSeen <=> ~call.message.null /\ ~call.output.null /\ ~call.digest_size.null)
    /\ call.op \in HashCalls => (ArgumentsSeen <=> ~HashApiRefused(call))
  BY DEF ArgumentsSeen, HashCalls

LEMMA ArgumentNames ==
    ASSUME Shape, Fields, phase # "idle"
    PROVE  DerivationArguments \cup {"message", "digest_size"} \subseteq DOMAIN call
  BY ArgumentAssumption DEF Fields, DerivationArguments

\* What a call sends after its first exchange is not refused.
LEMMA HashLate ==
    ASSUME Shape, Fields, HashInv, phase # "idle", call.op = "compute_hash", ArgumentsSeen,
           local.n # 0, NextStep.kind = "send"
    PROVE  RefusalOf(NextStep.service) = "NONE"
  <1> DEFINE type == handle.type
             next == NextChunk(call, local, type)
             s2 == Send("process_hash", ProcessHash(Piece(call, next)))
             s3 == Send("finish_hash", FinishHash([call EXCEPT !.message = Null]))
  <1>0. /\ call.message.length \in Nat /\ local.done \in 0..call.message.length
        /\ handle.type \in DOMAIN Calls
    BY ArgumentsAre, SizeAssumption DEF Shape, HashInv
  <1>1. NextStep = ComputeHash(call, local, handle.type)
    <2>1. call.op \in Several
      BY DEF Several
    <2> QED
      BY <2>1, SeveralSteps, SendKind DEF NextStep
  <1>2. \/ local.done < call.message.length /\ NextStep = s2
        \/ ~(local.done < call.message.length) /\ NextStep = s3
    <2>1. \/ NextStep = Invalid \/ NextStep = Finish("OK")
          \/ local.done < call.message.length /\ NextStep = s2
          \/ ~(local.done < call.message.length) /\ NextStep = s3
      BY <1>1 DEF ComputeHash, Hashed
    <2> QED
      BY <2>1, SendKind
  <1>3. /\ s2.service = ProcessHash(Piece(call, next))
        /\ s3.service = FinishHash([call EXCEPT !.message = Null])
    BY SendKind
  <1>4. MaxFrame[type] \in Nat /\ MaximumChunk(type) \in Nat /\ MaximumChunk(type) > 0
        /\ MaximumChunk(type) + 3 = MaxFrame[type]
    BY <1>0, SizeAssumption DEF MaximumChunk
  <1>5. CASE local.done < call.message.length /\ NextStep = s2
    <2>1. call.message.length - local.done \in Nat /\ call.message.length - local.done # 0
      BY <1>0, <1>5
    <2>2. next = IF call.message.length - local.done <= MaximumChunk(type)
                 THEN call.message.length - local.done ELSE MaximumChunk(type)
      BY <1>4, <2>1, MinOfTwo DEF NextChunk
    <2>3. next \in Nat /\ next # 0 /\ next <= MaximumChunk(type)
      BY <1>4, <2>1, <2>2
    <2>4. "message" \in DOMAIN call
      BY ArgumentNames
    <2> HIDE DEF next
    <2>5. /\ ProcessHash(Piece(call, next)).refuses = FALSE
          /\ Lists(ProcessHash(Piece(call, next)).request, 2 + next)
      BY <2>3, <2>4, PieceIs
    <2> DEFINE s == ProcessHash(Piece(call, next))
    <2>6. /\ s.refuses = FALSE /\ TotalLength(s.request) \in Nat
          /\ TotalLength(s.request) <= MaxFrame[handle.type] /\ ~Unreadable(s.request)
      <3>1. s.request \in Seq(Full) /\ TotalLength(s.request) = 2 + next
        BY <2>5 DEF Lists
      <3>2. 2 + next \in Nat /\ 2 + next <= MaxFrame[handle.type]
        BY <1>4, <2>3
      <3> QED
        BY <2>5, <3>1, <3>2, FullReadable
    <2> HIDE DEF s
    <2>7. RefusalOf(s) = "NONE"
      BY <1>0, <2>6, NothingRefused
    <2> QED
      BY <1>3, <1>5, <2>7 DEF s
  <1>6. CASE ~(local.done < call.message.length) /\ NextStep = s3
    <2> DEFINE s == FinishHash([call EXCEPT !.message = Null])
    <2>1. {"message", "output", "digest_size"} \subseteq DOMAIN call
      BY ArgumentNames DEF DerivationArguments
    <2>2. ~call.output.null /\ ~call.digest_size.null
      BY SeenIs
    <2>3. /\ s.refuses = FALSE /\ TotalLength(s.request) = 2 /\ ~Unreadable(s.request)
      BY <2>1, <2>2, FinishIsAccepted
    <2>4. 2 \in Nat /\ 2 <= MaxFrame[handle.type]
      BY <1>4
    <2> HIDE DEF s
    <2>5. RefusalOf(s) = "NONE"
      BY <1>0, <2>3, <2>4, NothingRefused
    <2> QED
      BY <1>3, <1>6, <2>5 DEF s
  <1> QED
    BY <1>2, <1>5, <1>6

LEMMA DerivationLate ==
    ASSUME Shape, Fields, phase # "idle", call.op = "derive_session_keys", ArgumentsSeen,
           local.n # 0, NextStep.kind = "send"
    PROVE  RefusalOf(NextStep.service) = "NONE"
  <1> DEFINE named == [call EXCEPT !.context = Buffer(3)]
             s2 == Send("expand_enc", Expansion(named, call.output))
             s3 == Send("expand_mac", Expansion(named, call.tag))
  <1>1. NextStep = DeriveSessionKeys(call, local)
    <2>1. call.op \in Several
      BY DEF Several
    <2> QED
      BY <2>1, SeveralSteps, SendKind DEF NextStep
  <1>2. NextStep = s2 \/ NextStep = s3
    <2>1. NextStep = Invalid \/ NextStep = Finish("OK") \/ NextStep = s2 \/ NextStep = s3
      BY <1>1 DEF DeriveSessionKeys, Checked
    <2> HIDE DEF s2, s3
    <2> QED
      BY <2>1, SendKind
  <1>3. DerivationArguments \subseteq DOMAIN named /\ named.context = Buffer(3)
    <2>1. DerivationArguments \subseteq DOMAIN call /\ "context" \in DOMAIN call
      BY ArgumentNames DEF DerivationArguments
    <2> QED
      BY <2>1
  <1>4. s2.service = Expansion(named, call.output) /\ s3.service = Expansion(named, call.tag)
    BY SendKind
  <1> HIDE DEF named, s2, s3
  <1>5. ASSUME NEW b, ~b.null PROVE RefusalOf(Expansion(named, b)) = "NONE"
    <2> DEFINE s == Expansion(named, b)
    <2>1. s.refuses = FALSE /\ Lists(s.request, 26)
      BY <1>3, <1>5, ExpansionIs
    <2> HIDE DEF s
    <2>2. s.request \in Seq(Full) /\ TotalLength(s.request) = 26
      BY <2>1 DEF Lists
    <2>3. 26 <= MaxFrame[handle.type] /\ handle.type \in DOMAIN Calls /\ 26 \in Nat
      BY SizeAssumption DEF Shape
    <2>4. RefusalOf(s) = "NONE"
      BY <2>1, <2>2, <2>3, FullReadable, NothingRefused
    <2> QED
      BY <2>4 DEF s
  <1>6. ~call.output.null /\ ~call.tag.null
    BY SeenIs
  <1> QED
    BY <1>2, <1>4, <1>5, <1>6

\* What is on the way was sent for arguments that were looked at, and is answered
\* with elements that have data.
LEMMA SentSeen ==
    ASSUME Shape, Fields, phase # "idle", call.op \in ChangesInSteps, SendsNext
    PROVE  ArgumentsSeen /\ ~Unreadable(cmd'.service.answer)
  <1>0. NextStep.kind = "send" /\ cmd' = NextStep /\ RefusalOf(NextStep.service) = "NONE"
    BY DEF SendsNext
  <1>1. CASE call.op \in HashCalls
    <2>1. ~HashApiRefused(call) /\ cmd'.service = HashApi(call)
      BY <1>1, HashApiSends
    <2>2. ArgumentsSeen
      BY <1>1, <2>1, SeenIs
    <2>3. CASE call.op = "start_hash"
      <3>1. HashApi(call) = StartHash(call)
        BY <2>3 DEF HashApi
      <3> QED
        BY <2>1, <2>2, <3>1, PieceAnswers
    <2>4. CASE call.op = "process_hash"
      <3>1. HashApi(call) = ProcessHash(call)
        BY <2>4 DEF HashApi
      <3> QED
        BY <2>1, <2>2, <3>1, PieceAnswers
    <2>5. CASE call.op = "finish_hash"
      <3>1. HashApi(call) = FinishHash(call)
        BY <2>5 DEF HashApi
      <3>2. ~call.output.null
        BY <2>1, <2>5 DEF HashApiRefused
      <3> QED
        BY <2>1, <2>2, <3>1, <3>2, FinishAnswer
    <2> QED
      BY <1>1, <2>3, <2>4, <2>5 DEF HashCalls
  <1>2. CASE call.op = "compute_hash"
    <2> DEFINE first == FirstChunk(call, handle.type)
               next == NextChunk(call, local, handle.type)
               s1 == Send("start_hash", StartHash(Piece(call, first)))
               s2 == Send("process_hash", ProcessHash(Piece(call, next)))
               s3 == Send("finish_hash", FinishHash([call EXCEPT !.message = Null]))
    <2>1. NextStep = ComputeHash(call, local, handle.type)
      <3>1. call.op \in Several
        BY <1>2 DEF Several
      <3> QED
        BY <1>0, <1>2, <3>1, SeveralSteps, SendKind DEF NextStep, HashCalls
    <2>2. ~(call.message.null \/ call.output.null \/ call.digest_size.null)
      BY <1>0, <2>1, SendKind DEF ComputeHash
    <2>3. ArgumentsSeen
      BY <1>2, <2>2, SeenIs
    <2>4. NextStep = s1 \/ NextStep = s2 \/ NextStep = s3
      <3>1. NextStep = Finish("OK") \/ NextStep = s1 \/ NextStep = s2 \/ NextStep = s3
        BY <2>1, <2>2 DEF ComputeHash, Hashed
      <3> QED
        BY <1>0, <3>1, SendKind
    <2>5. /\ s1.service = StartHash(Piece(call, first))
          /\ s2.service = ProcessHash(Piece(call, next))
          /\ s3.service = FinishHash([call EXCEPT !.message = Null])
      BY SendKind
    <2>6. ~Unreadable(s1.service.answer) /\ ~Unreadable(s2.service.answer)
      BY <2>5, PieceAnswers
    <2>7. ~Unreadable(s3.service.answer)
      <3>1. {"message", "output", "digest_size"} \subseteq DOMAIN call
        BY ArgumentNames DEF DerivationArguments
      <3> QED
        BY <2>2, <2>5, <3>1, FinishIsAccepted
    <2> QED
      BY <1>0, <2>3, <2>4, <2>6, <2>7
  <1>3. CASE call.op = "derive_session_keys"
    <2> DEFINE named == [call EXCEPT !.context = Buffer(3)]
               s1 == Send("extract", Extraction([call EXCEPT !.salt_data = Buffer(SessionIdSize)]))
               s2 == Send("expand_enc", Expansion(named, call.output))
               s3 == Send("expand_mac", Expansion(named, call.tag))
    <2>1. NextStep = DeriveSessionKeys(call, local)
      <3>1. call.op \in Several
        BY <1>3 DEF Several
      <3> QED
        BY <1>0, <1>3, <3>1, SeveralSteps, SendKind DEF NextStep, HashCalls
    <2>2. ~(call.no_handle \/ call.output.null \/ call.tag.null)
      BY <1>0, <2>1, SendKind DEF DeriveSessionKeys
    <2>3. ArgumentsSeen
      BY <1>3, <2>2, SeenIs
    <2>4. NextStep = s1 \/ NextStep = s2 \/ NextStep = s3
      <3>1. NextStep = Invalid \/ NextStep = Finish("OK") \/ NextStep = s1 \/ NextStep = s2 \/ NextStep = s3
        BY <2>1 DEF DeriveSessionKeys, Checked
      <3> HIDE DEF s1, s2, s3
      <3> QED
        BY <1>0, <3>1, SendKind
    <2>5. /\ s1.service = Extraction([call EXCEPT !.salt_data = Buffer(SessionIdSize)])
          /\ s2.service = Expansion(named, call.output)
          /\ s3.service = Expansion(named, call.tag)
      BY SendKind
    <2>6. DerivationArguments \subseteq DOMAIN call /\ "context" \in DOMAIN call
      BY ArgumentNames DEF DerivationArguments
    <2>7. DerivationArguments \subseteq DOMAIN named /\ named.context = Buffer(3)
      BY <2>6
    <2>8. ~Unreadable(s1.service.answer)
      <3>1. DerivationArguments \subseteq DOMAIN [call EXCEPT !.salt_data = Buffer(SessionIdSize)]
        BY <2>6
      <3> QED
        BY <2>5, <3>1, ExtractionIs
    <2> HIDE DEF named, s1, s2, s3
    <2>9. ~Unreadable(s2.service.answer) /\ ~Unreadable(s3.service.answer)
      BY <2>2, <2>5, <2>7, ExpansionIs
    <2> QED
      BY <1>0, <2>3, <2>4, <2>8, <2>9
  <1> QED
    BY <1>1, <1>2, <1>3 DEF ChangesInSteps

\* The number of the exchange and what was executed.
LEMMA UnsentAll ==
    ASSUME Shape, Fields, SentInv, UnsentInv, [Next]_vars
    PROVE  /\ phase' \in {"idle", "host", "bus"} /\ local'.n = 0 => past'.executed = {}
           /\ past'.executed \cap Changing # {} =>
                call'.op \in ChangesInSteps \cup {"device_lock", "device_unlock"}
  <1> USE DEF OnTheWay
  <1>0. /\ phase \in {"idle", "host", "bus"} /\ local.n = 0 => past.executed = {}
        /\ past.executed \cap Changing # {} =>
             call.op \in ChangesInSteps \cup {"device_lock", "device_unlock"}
        /\ local.n \in 0..3 /\ "n" \in DOMAIN local /\ DOMAIN past = DOMAIN NoPast
    BY DEF UnsentInv, Fields, NoLocal
  <1>1. CASE \E c \in Calls[handle.type] : Call(c)
    <2>1. phase = "idle" /\ UNCHANGED <<local, past>> /\ local = NoLocal
      BY <1>1 DEF Call, Shape
    <2>2. local.n = 0
      BY <2>1 DEF NoLocal
    <2> QED
      BY <1>0, <2>1, <2>2
  <1>2. ASSUME NEW ret, ExchangeFails(ret), UNCHANGED <<call, past>>
        PROVE  phase' \notin {"idle", "bus"} /\ (phase' = "host" => local'.n # 0)
    <2>1. \/ phase' = "returned"
          \/ phase' = "host" /\ \E k \in GarbageCounts : local' = [local EXCEPT !.n = @ + 1, !.count = k]
      BY <1>2 DEF ExchangeFails, Returns
    <2>2. ASSUME NEW k, local' = [local EXCEPT !.n = @ + 1, !.count = k] PROVE local'.n # 0
      BY <1>0, <2>2
    <2> QED
      BY <2>1, <2>2
  <1>3. CASE HostReturns \/ PreparesPlatform \/ SwitchesPower
    <2>1. phase = "host" /\ UNCHANGED <<call, past>> /\ phase' \in {"host", "returned"}
          /\ (local' = local \/ local' = [local EXCEPT !.platform = TRUE])
      BY <1>3 DEF HostReturns, PreparesPlatform, SwitchesPower, Returns
    <2>2. local'.n = local.n
      BY <1>0, <2>1
    <2> QED
      BY <1>0, <2>1, <2>2
  <1>4. CASE HostSends
    <2>1. phase = "host" /\ UNCHANGED <<call, past>>
      BY <1>4 DEF HostSends
    <2>2. \/ phase' = "bus" /\ local' = local
          \/ ExchangeFails(RefusalOf(NextStep.service))
      BY <1>4 DEF HostSends
    <2> QED
      BY <1>0, <1>2, <2>1, <2>2
  <1>5. CASE Deliver
    <2>1. UNCHANGED <<call, past>> /\ (phase' = "returned" \/ (phase' = "host" /\ local' = After))
      BY <1>5 DEF Deliver, Returns
    <2>2. After.n # 0
      BY <1>0, AfterFields
    <2> QED
      BY <1>0, <2>1, <2>2
  <1>6. CASE Fails
    <2>1. UNCHANGED <<call, past>> /\ \E ret : ExchangeFails(ret)
      BY <1>6 DEF Fails
    <2> QED
      BY <1>0, <1>2, <2>1
  <1>7. CASE Execute \/ Retransmit
    <2>1. phase \in {"bus", "answered"} /\ phase' = "answered" /\ call' = call
          /\ past'.executed \subseteq past.executed \cup {cmd.command}
      <3>1. Executes /\ phase \in {"bus", "answered"} /\ phase' = "answered" /\ call' = call
        BY <1>7 DEF Execute, Retransmit
      <3>2. ASSUME NEW o
            PROVE  (IF o.reply.status = "OK" THEN past.executed \cup {cmd.command} ELSE past.executed)
                     \subseteq past.executed \cup {cmd.command}
        OBVIOUS
      <3>3. PICK o : past' = [past EXCEPT
               !.executed = IF o.reply.status = "OK" THEN @ \cup {cmd.command} ELSE @,
               !.accepted = @ \/ (cmd.command = "verify_password" /\ o.reply.number = 1),
               !.resent = @ \/ phase = "answered"]
        BY <3>1 DEF Executes
      <3>4. past'.executed = IF o.reply.status = "OK" THEN past.executed \cup {cmd.command} ELSE past.executed
        BY <1>0, <3>3 DEF NoPast
      <3> QED
        BY <3>1, <3>2, <3>4
    <2>2. cmd.command \in Commands(call.op) /\ call.op \notin Internal
      BY <2>1 DEF SentInv, Shape
    <2>3. cmd.command \in Changing =>
            call.op \in ChangesInSteps \cup {"device_lock", "device_unlock"}
      BY <2>2 DEF Commands, Changing, ChangesInSteps, Internal, HashCalls
    <2> QED
      BY <1>0, <2>1, <2>3
  <1>8. CASE PowerLoss \/ OtherTask
    <2>1. UNCHANGED <<phase, call, local>>
      BY <1>8 DEF PowerLoss, OtherTask
    <2>2. past'.executed = past.executed
      BY <1>0, <1>8 DEF PowerLoss, OtherTask, NoPast
    <2> QED
      BY <1>0, <2>1, <2>2
  <1>9. CASE Return
    BY <1>9 DEF Return, NoPast
  <1>10. CASE UNCHANGED vars
    BY <1>0, <1>10 DEF vars
  <1> QED
    BY <1>1, <1>3, <1>4, <1>5, <1>6, <1>7, <1>8, <1>9, <1>10 DEF Next, Host

LEMMA UnsentStep ==
    ASSUME Shape, Fields, SentInv, UnsentInv, [Next]_vars
    PROVE  UnsentInv'
  <1> USE DEF OnTheWay
  <1>1. ASSUME phase' # "idle", call'.op \in ChangesInSteps
        PROVE  /\ OnTheWay' \/ local'.n > 0 => ArgumentsSeen'
               /\ OnTheWay' => ~Unreadable(cmd'.service.answer)
    <2>1. CASE phase = "idle"
      <3>1. phase' = "host" /\ local'.n = 0
        BY <1>1, <2>1, CallBegins DEF NoLocal
      <3> QED
        BY <3>1
    <2>2. CASE phase # "idle"
      <3>0. call' = call /\ call.op \in Several /\ call.op \in ChangesInSteps
        BY <1>1, <2>2, SameCall DEF Several, ChangesInSteps, HashCalls
      <3>1. /\ OnTheWay \/ local.n > 0 => ArgumentsSeen
            /\ OnTheWay => ~Unreadable(cmd.service.answer)
        BY <2>2, <3>0 DEF UnsentInv
      <3>2. ArgumentsSeen' <=> ArgumentsSeen
        BY <3>0 DEF ArgumentsSeen, HashApiRefused
      <3>3. CASE ReturnsOf \/ Broken
        <4>1. phase' = "returned" /\ local' = local
          BY <3>3 DEF ReturnsOf, Broken
        <4> QED
          BY <3>1, <3>2, <4>1
      <3>4. CASE SendsNext
        BY <2>2, <3>0, <3>2, <3>4, SentSeen
      <3>5. CASE Executed
        <4>1. OnTheWay /\ UNCHANGED <<local, cmd>>
          BY <3>5 DEF Executed
        <4> QED
          BY <3>1, <3>2, <4>1
      <3>6. CASE Delivered
        <4>1. OnTheWay /\ phase' = "host"
          BY <3>6 DEF Delivered
        <4> QED
          BY <3>1, <3>2, <4>1
      <3>7. CASE PowerLost \/ OtherTask \/ UNCHANGED vars
        <4>1. UNCHANGED <<phase, local, cmd>>
          BY <3>7 DEF PowerLost, OtherTask, vars
        <4> QED
          BY <3>1, <3>2, <4>1
      <3> QED
        BY <1>1, <2>2, <3>0, <3>3, <3>4, <3>5, <3>6, <3>7, CallSteps
    <2> QED
      BY <2>1, <2>2
  <1>2. /\ phase' \in {"idle", "host", "bus"} /\ local'.n = 0 => past'.executed = {}
        /\ past'.executed \cap Changing # {} =>
             call'.op \in ChangesInSteps \cup {"device_lock", "device_unlock"}
    BY UnsentAll
  <1>3. (OnTheWay \/ local.n > 0)' <=> (OnTheWay' \/ local'.n > 0)
    OBVIOUS
  <1>4. Unreadable(cmd.service.answer)' <=> Unreadable(cmd'.service.answer)
    BY DEF Unreadable
  <1> QED
    BY <1>1, <1>2, <1>3, <1>4 DEF UnsentInv

\* What is on the way in such a call is not the query of a table.
LEMMA NoTable ==
    ASSUME SessionInv, HashInv, DoneInv, phase = "answered", call.op \in ChangesInSteps
    PROVE  ~WrongTable
  <1>1. cmd.command \in HashCalls \cup {"extract", "expand_enc", "expand_mac"}
    <2>1. CASE call.op \in HashCalls
      BY <2>1 DEF DoneInv, OnTheWay
    <2>2. CASE call.op = "compute_hash"
      BY <2>2 DEF HashInv, OnTheWay
    <2>3. CASE call.op = "derive_session_keys"
      <3>1. local.n \in 0..2 /\ cmd.command = <<"extract", "expand_enc", "expand_mac">>[local.n + 1]
        BY <2>3 DEF SessionInv, OnTheWay
      <3> QED
        BY <3>1
    <2> QED
      BY <2>1, <2>2, <2>3 DEF ChangesInSteps
  <1> QED
    BY <1>1 DEF WrongTable, PrivateTables, SymmetricTables, HashCalls

\* A call that refuses by itself after an exchange is one of the exceptions.
LEMMA LateReturn ==
    ASSUME Shape, Fields, phase # "idle", call.op \in ChangesInSteps, ArgumentsSeen, local.n # 0,
           NextStep.kind = "return", NextStep.ret \in Refusals, ~LateRefusal
    PROVE  FALSE
  <1>1. call.op \in Several
    BY DEF Several, ChangesInSteps, HashCalls
  <1>2. NextStep # Finish("HANDLER_NOT_INITIALISED") /\ NextStep # Finish("OK")
    BY SendKind DEF Refusals
  <1>3. CASE call.op \in HashCalls
    <2>1. NextStep = OnceChecked(HashApiRefused(call), call, local, HashApi(call))
      BY <1>1, <1>2, <1>3, SeveralSteps DEF NextStep, HashCalls
    <2>2. ~HashApiRefused(call)
      BY <1>3, SeenIs
    <2>3. NextStep = Finish("OK")
      BY <2>1, <2>2 DEF OnceChecked, Checked, Once
    <2> QED
      BY <1>2, <2>3
  <1>4. CASE call.op = "compute_hash"
    <2> DEFINE s2 == Send("process_hash", ProcessHash(Piece(call, NextChunk(call, local, handle.type))))
               s3 == Send("finish_hash", FinishHash([call EXCEPT !.message = Null]))
    <2>1. NextStep = ComputeHash(call, local, handle.type)
      BY <1>1, <1>2, <1>4, SeveralSteps DEF NextStep, HashCalls
    <2>2. ~call.message.null /\ ~call.output.null /\ ~call.digest_size.null
      BY <1>4, SeenIs
    <2>3. NextStep = Finish("OK") \/ NextStep = s2 \/ NextStep = s3
      BY <2>1, <2>2 DEF ComputeHash, Hashed
    <2> HIDE DEF s2, s3
    <2>4. s2.kind = "send" /\ s3.kind = "send"
      BY SendKind DEF s2, s3
    <2> QED
      BY <1>2, <2>3, <2>4
  <1>5. CASE call.op = "derive_session_keys"
    <2> DEFINE named == [call EXCEPT !.context = Buffer(3)]
               s2 == Send("expand_enc", Expansion(named, call.output))
               s3 == Send("expand_mac", Expansion(named, call.tag))
    <2>1. NextStep = DeriveSessionKeys(call, local)
      BY <1>1, <1>2, <1>5, SeveralSteps DEF NextStep, HashCalls
    <2>2. ~call.no_handle /\ ~call.output.null /\ ~call.tag.null
      BY <1>5, SeenIs
    <2>3. ~NoKey(call.output) /\ ~NoKey(call.tag)
      BY <1>5 DEF LateRefusal
    <2>4. NextStep = Finish("OK") \/ NextStep = s2 \/ NextStep = s3
      BY <2>1, <2>2, <2>3 DEF DeriveSessionKeys, Checked
    <2> HIDE DEF named, s2, s3
    <2>5. s2.kind = "send" /\ s3.kind = "send"
      BY SendKind DEF s2, s3
    <2> QED
      BY <1>2, <2>4, <2>5
  <1> QED
    BY <1>3, <1>4, <1>5 DEF ChangesInSteps

LEMMA RefusedStep ==
    ASSUME Shape, Fields, SessionInv, HashInv, SentInv, DoneInv, UnsentInv, RefusedUnsent,
           [Next]_vars
    PROVE  RefusedUnsent'
  <1> SUFFICES ASSUME phase' = "returned", result' \in Refusals, ~LateRefusal'
               PROVE  past'.executed \cap Changing = {}
    BY DEF RefusedUnsent, Refusals
  <1>0. phase # "idle"
    BY CallBegins
  <1>1. call' = call
    BY <1>0, SameCall
  <1>2. ~LateRefusal
    BY <1>1 DEF LateRefusal
  <1>3. CASE call.op \notin ChangesInSteps
    <2>1. call.op \notin {"device_lock", "device_unlock"}
      BY <1>2 DEF LateRefusal
    <2>2. past'.executed \cap Changing # {} =>
             call'.op \in ChangesInSteps \cup {"device_lock", "device_unlock"}
      BY UnsentAll
    <2> QED
      BY <1>1, <1>3, <2>1, <2>2
  <1>4. CASE call.op \in ChangesInSteps
    <2>0. call.op \in Several /\ local.n \in 0..3 /\ DOMAIN past = DOMAIN NoPast
      BY <1>4 DEF Several, ChangesInSteps, HashCalls, Fields
    <2>1. phase = "host" /\ local.n = 0 => past.executed = {}
      BY DEF UnsentInv
    <2>2. local.n # 0 => ArgumentsSeen
      <3>1. local.n # 0 => local.n > 0
        BY <2>0
      <3> QED
        BY <1>0, <1>4, <3>1 DEF UnsentInv
    <2>3. CASE ReturnsOf
      <3>1. phase = "host" /\ NextStep.kind = "return" /\ NextStep.ret \in Refusals /\ past' = past
        BY <2>3 DEF ReturnsOf
      <3>2. local.n = 0
        BY <1>0, <1>2, <1>4, <2>2, <3>1, LateReturn
      <3> QED
        BY <2>1, <3>1, <3>2
    <2>4. CASE Broken
      <3>1. past' = past /\ Refused
        BY <2>4 DEF Broken
      <3>2. CASE phase = "host" /\ NextStep.kind = "send" /\ RefusalOf(NextStep.service) # "NONE"
        <4>1. local.n = 0
          <5> SUFFICES ASSUME local.n # 0 PROVE FALSE
            OBVIOUS
          <5>1. CASE call.op = "compute_hash"
            BY <1>0, <2>2, <3>2, <5>1, HashLate
          <5>2. CASE call.op = "derive_session_keys"
            BY <1>0, <2>2, <3>2, <5>2, DerivationLate
          <5>3. CASE call.op \in HashCalls
            <6>1. \/ NextStep = Finish("HANDLER_NOT_INITIALISED")
                  \/ NextStep = OnceChecked(HashApiRefused(call), call, local, HashApi(call))
              BY <2>0, <5>3, SeveralSteps DEF NextStep, HashCalls
            <6>2. NextStep = Finish("HANDLER_NOT_INITIALISED") \/ NextStep = Invalid \/ NextStep = Finish("OK")
              BY <6>1 DEF OnceChecked, Checked, Once
            <6> QED
              BY <3>2, <6>2, SendKind
          <5> QED
            BY <1>4, <5>1, <5>2, <5>3 DEF ChangesInSteps
        <4> QED
          BY <2>1, <3>1, <3>2, <4>1
      <3>3. CASE phase = "answered" /\ (Unreadable(cmd.service.answer) \/ WrongTable)
        <4>1. ~Unreadable(cmd.service.answer)
          BY <1>0, <1>4, <3>3 DEF UnsentInv, OnTheWay
        <4>2. ~WrongTable
          BY <1>4, <3>3, NoTable
        <4> QED
          BY <3>3, <4>1, <4>2
      <3> QED
        BY <3>1, <3>2, <3>3 DEF Refused
    <2>5. CASE PowerLost \/ OtherTask \/ UNCHANGED vars
      <3>1. UNCHANGED <<phase, result>> /\ past'.executed = past.executed
        BY <2>0, <2>5 DEF PowerLost, OtherTask, vars, NoPast
      <3> QED
        BY <1>2, <3>1 DEF RefusedUnsent, Refusals
    <2> QED
      BY <1>0, <2>0, <2>3, <2>4, <2>5, CallSteps DEF SendsNext, Executed, Delivered
  <1> QED
    BY <1>3, <1>4

\* A call that is refused, at whatever exchange, has changed nothing in the
\* secure element (RefusedUnsent): its arguments are looked at before its first
\* exchange, and those that follow fit in a frame of every product and can be read.
THEOREM CallRefused == Spec => []RefusedUnsent
  <1> DEFINE Inv == /\ Shape /\ Fields /\ SessionInv /\ HashInv
                    /\ SentInv /\ DoneInv /\ UnsentInv /\ RefusedUnsent
  <1>1. Init => Inv
    <2> SUFFICES ASSUME Init PROVE Inv
      OBVIOUS
    <2>1. Shape /\ Fields
      BY InitShape, FieldsInit
    <2>2. phase = "idle" /\ past.executed = {}
      BY DEF Init, NoPast
    <2> QED
      BY <2>1, <2>2 DEF SessionInv, HashInv, SentInv, DoneInv, UnsentInv, RefusedUnsent, OnTheWay
  <1>2. Inv /\ [Next]_vars => Inv'
    <2> SUFFICES ASSUME Inv, [Next]_vars PROVE Inv'
      OBVIOUS
    <2>1. Shape' /\ Fields'
      BY NextShape, FieldsStep
    <2> QED
      BY <2>1, SessionStep, HashStep, SentStep, DoneStep, UnsentStep, RefusedStep
  <1>3. Inv => RefusedUnsent
    OBVIOUS
  <1> QED
    BY <1>1, <1>2, <1>3, PTL DEF Spec

-----------------------------------------------------------------------------
(* Frames whose elements are inside the buffers lent for them              *)

\* An element is inside its buffer, or has none; a list or a service of such.
Fitting(e) == e.null \/ e.length <= e.room
Fits(s) == \E T : s \in Seq(T) /\ \A e \in T : Fitting(e)
BothFit(service) == Fits(service.request) /\ Fits(service.answer)

LEMMA FitsOf ==
    ASSUME NEW s, NEW T, s \in Seq(T), \A e \in T : Fitting(e)
    PROVE  Fits(s)
  BY DEF Fits

\* A list given by its elements.
LEMMA FitsEach ==
    ASSUME NEW n \in Nat, NEW s, s = [i \in 1..n |-> s[i]], \A i \in 1..n : Fitting(s[i])
    PROVE  Fits(s)
  <1> DEFINE T == {s[i] : i \in 1..n}
  <1>1. \A i \in 1..n : s[i] \in T
    OBVIOUS
  <1>2. \A e \in T : Fitting(e)
    OBVIOUS
  <1> HIDE DEF T
  <1>3. [i \in 1..n |-> s[i]] \in Seq(T)
    BY <1>1
  <1> QED
    BY <1>2, <1>3 DEF Fits

LEMMA FitsNone == Fits(<< >>)
  <1> DEFINE s == << >>
             T == {}
  <1>1. s \in Seq(T)
    OBVIOUS
  <1>2. \A e \in T : Fitting(e)
    OBVIOUS
  <1> HIDE DEF s, T
  <1>3. Fits(s)
    BY <1>1, <1>2, FitsOf
  <1> QED
    BY <1>3 DEF s

LEMMA FitsTuple ==
    /\ \A a : Fitting(a) => Fits(<<a>>)
    /\ \A a, b : Fitting(a) /\ Fitting(b) => Fits(<<a, b>>)
    /\ \A a, b, c : Fitting(a) /\ Fitting(b) /\ Fitting(c) => Fits(<<a, b, c>>)
    /\ \A a, b, c, d : Fitting(a) /\ Fitting(b) /\ Fitting(c) /\ Fitting(d) => Fits(<<a, b, c, d>>)
  <1>1. ASSUME NEW a, Fitting(a) PROVE Fits(<<a>>)
    <2> DEFINE s == <<a>>
               T == {a}
    <2>1. s \in Seq(T)
      OBVIOUS
    <2>2. \A e \in T : Fitting(e)
      BY <1>1
    <2> HIDE DEF s, T
    <2>3. Fits(s)
      BY <2>1, <2>2, FitsOf
    <2> QED
      BY <2>3 DEF s
  <1>2. ASSUME NEW a, NEW b, Fitting(a), Fitting(b) PROVE Fits(<<a, b>>)
    <2> DEFINE s == <<a, b>>
               T == {a, b}
    <2>1. s \in Seq(T)
      OBVIOUS
    <2>2. \A e \in T : Fitting(e)
      BY <1>2
    <2> HIDE DEF s, T
    <2>3. Fits(s)
      BY <2>1, <2>2, FitsOf
    <2> QED
      BY <2>3 DEF s
  <1>3. ASSUME NEW a, NEW b, NEW c, Fitting(a), Fitting(b), Fitting(c) PROVE Fits(<<a, b, c>>)
    <2> DEFINE s == <<a, b, c>>
               T == {a, b, c}
    <2>1. s \in Seq(T)
      OBVIOUS
    <2>2. \A e \in T : Fitting(e)
      BY <1>3
    <2> HIDE DEF s, T
    <2>3. Fits(s)
      BY <2>1, <2>2, FitsOf
    <2> QED
      BY <2>3 DEF s
  <1>4. ASSUME NEW a, NEW b, NEW c, NEW d, Fitting(a), Fitting(b), Fitting(c), Fitting(d)
        PROVE  Fits(<<a, b, c, d>>)
    <2> DEFINE s == <<a, b, c, d>>
               T == {a, b, c, d}
    <2>1. s \in Seq(T)
      OBVIOUS
    <2>2. \A e \in T : Fitting(e)
      BY <1>4
    <2> HIDE DEF s, T
    <2>3. Fits(s)
      BY <2>1, <2>2, FitsOf
    <2> QED
      BY <2>3 DEF s
  <1> QED
    BY <1>1, <1>2, <1>3, <1>4

\* Lists put together of lists that fit: one after the other, or all of a sequence.
LEMMA FitsConcat ==
    ASSUME NEW s, NEW t, Fits(s), Fits(t)
    PROVE  Fits(s \o t)
  <1>1. PICK T : s \in Seq(T) /\ \A e \in T : Fitting(e)
    BY DEF Fits
  <1>2. PICK U : t \in Seq(U) /\ \A e \in U : Fitting(e)
    BY DEF Fits
  <1>3. s \in Seq(T \cup U) /\ t \in Seq(T \cup U)
    BY <1>1, <1>2
  <1>4. s \o t \in Seq(T \cup U)
    BY <1>3
  <1>5. \A e \in T \cup U : Fitting(e)
    BY <1>1, <1>2
  <1> QED
    BY <1>4, <1>5 DEF Fits

LEMMA FitsFlatten ==
    ASSUME NEW n \in Nat, NEW s, s = [i \in 1..n |-> s[i]], \A i \in 1..n : Fits(s[i])
    PROVE  Fits(FlattenSeq(s))
  <1> DEFINE Is(g) == g = [i \in 1..n |-> IF i = 1 THEN s[i] ELSE g[i - 1] \o s[i]]
             Exists == {m \in Nat : \E g : g = [i \in 1..m |-> IF i = 1 THEN s[i] ELSE g[i - 1] \o s[i]]}
             g == CHOOSE h : Is(h)
             Good == {m \in Nat : m \in 1..n => Fits(g[m])}
  <1>1. Len(s) = n
    OBVIOUS
  <1>2. CASE n = 0
    <2>1. FlattenSeq(s) = s /\ s = << >>
      BY <1>1, <1>2 DEF FlattenSeq
    <2> QED
      BY <2>1, FitsNone
  <1>3. CASE n # 0
    <2>1. 0 \in Exists
      <3>1. << >> = [i \in 1..0 |-> IF i = 1 THEN s[i] ELSE << >>[i - 1] \o s[i]]
        OBVIOUS
      <3> QED
        BY <3>1
    <2>2. ASSUME NEW m \in Nat, m \in Exists PROVE m + 1 \in Exists
      <3>1. PICK f : f = [i \in 1..m |-> IF i = 1 THEN s[i] ELSE f[i - 1] \o s[i]]
        BY <2>2
      <3> DEFINE last == IF m = 0 THEN s[1] ELSE f[m] \o s[m + 1]
                 h == [i \in 1..(m + 1) |-> IF i <= m THEN f[i] ELSE last]
      <3>2. \A i \in 1..m : f[i] = IF i = 1 THEN s[i] ELSE f[i - 1] \o s[i]
        BY <3>1
      <3> HIDE DEF last
      <3>3. ASSUME NEW i \in 1..(m + 1) PROVE h[i] = IF i = 1 THEN s[i] ELSE h[i - 1] \o s[i]
        <4>1. CASE i <= m
          <5>1. h[i] = f[i] /\ (i # 1 => h[i - 1] = f[i - 1])
            BY <4>1
          <5>2. i \in 1..m
            BY <4>1
          <5> HIDE DEF h
          <5> QED
            BY <3>2, <5>1, <5>2
        <4>2. CASE i = m + 1
          <5>1. h[i] = last /\ (i # 1 => h[i - 1] = f[m])
            BY <4>2
          <5>2. i = 1 <=> m = 0
            BY <4>2
          <5> HIDE DEF h
          <5> QED
            BY <4>2, <5>1, <5>2 DEF last
        <4> QED
          BY <4>1, <4>2
      <3>4. h = [i \in 1..(m + 1) |-> h[i]]
        OBVIOUS
      <3> HIDE DEF h
      <3>5. h = [i \in 1..(m + 1) |-> IF i = 1 THEN s[i] ELSE h[i - 1] \o s[i]]
        BY <3>3, <3>4
      <3>6. \E x : x = [i \in 1..(m + 1) |-> IF i = 1 THEN s[i] ELSE x[i - 1] \o s[i]]
        BY <3>5
      <3>7. m + 1 \in Nat
        OBVIOUS
      <3> QED
        BY <3>6, <3>7
    <2> HIDE DEF Exists
    <2>3. Nat \subseteq Exists
      BY <2>1, <2>2, SetInduction
    <2>4. \E h : Is(h)
      BY <2>3 DEF Exists
    <2>5. Is(g)
      BY <2>4
    <2>6. FlattenSeq(s) = g[n]
      BY <1>1, <1>3 DEF FlattenSeq
    <2> HIDE DEF g
    <2>7. \A i \in 1..n : g[i] = IF i = 1 THEN s[i] ELSE g[i - 1] \o s[i]
      BY <2>5
    <2>8. 0 \in Good
      OBVIOUS
    <2>9. ASSUME NEW m \in Nat, m \in Good PROVE m + 1 \in Good
      <3> SUFFICES ASSUME m + 1 \in 1..n PROVE Fits(g[m + 1])
        OBVIOUS
      <3>1. CASE m = 0
        <4>1. m + 1 = 1 /\ g[m + 1] = s[m + 1]
          BY <2>7, <3>1
        <4> QED
          BY <4>1
      <3>2. CASE m # 0
        <4>1. m \in 1..n /\ Fits(g[m]) /\ Fits(s[m + 1])
          BY <2>9, <3>2
        <4>2. m + 1 # 1 /\ (m + 1) - 1 = m
          BY <3>2
        <4>3. g[m + 1] = IF m + 1 = 1 THEN s[m + 1] ELSE g[(m + 1) - 1] \o s[m + 1]
          BY <2>7
        <4>4. g[m + 1] = g[m] \o s[m + 1]
          BY <4>2, <4>3
        <4> QED
          BY <4>1, <4>4, FitsConcat
      <3> QED
        BY <3>1, <3>2
    <2> HIDE DEF Good
    <2>10. Nat \subseteq Good
      BY <2>8, <2>9, SetInduction
    <2>11. n \in 1..n
      BY <1>3
    <2> QED
      BY <2>6, <2>10, <2>11 DEF Good
  <1> QED
    BY <1>2, <1>3

LEMMA FittingAre ==
    /\ \A name : \A n \in Int : Fitting(Fixed(name, n))
    /\ \A name : \A b \in Lendable : Fitting(From(name, b))
    /\ \A name, b : \A n \in Int : Fitting(Lent(name, n, b))
    /\ \A of, n : /\ Fitting(BigEndian(of, n)) /\ Fitting(HostOrder(of, n))
                  /\ Fitting(Swap(HostOrder(of, n))) /\ Fitting(OneByte(of, n))
    /\ \A name, null : \A m, n \in Int : m <= n \/ null => Fitting(Part(name, m, n, null))
  <1>1. \A name, null : \A m, n \in Int : m <= n \/ null => Fitting(Part(name, m, n, null))
    BY DEF Part, Fitting
  <1>2. \A name : \A n \in Int : Fitting(Fixed(name, n))
    BY DEF Part, Fitting, Fixed
  <1>3. \A name : \A b \in Lendable : Fitting(From(name, b))
    BY SizeAssumption DEF Part, Fitting, From, Lendable
  <1>4. \A name, b : \A n \in Int : Fitting(Lent(name, n, b))
    BY DEF Part, Fitting, Lent
  <1>5. ASSUME NEW of, NEW n PROVE Fitting(BigEndian(of, n)) /\ Fitting(OneByte(of, n))
    BY DEF Part, Fitting, BigEndian, OneByte, Fixed
  <1>6. ASSUME NEW of, NEW n PROVE Fitting(HostOrder(of, n)) /\ Fitting(Swap(HostOrder(of, n)))
    BY DEF Part, Fitting, BigEndian, HostOrder, Swap, Fixed
  <1> QED
    BY <1>1, <1>2, <1>3, <1>4, <1>5, <1>6

-----------------------------------------------------------------------------
(* The frames of the services                                              *)

LEMMA ServiceFits ==
    ASSUME NEW refuses, NEW request, NEW answer,
           ~refuses => Fits(request) /\ Fits(answer)
    PROVE  BothFit(Service(refuses, request, answer))
  <1>1. CASE refuses
    BY <1>1, FitsNone DEF Service, BothFit
  <1>2. CASE ~refuses
    BY <1>2 DEF Service, BothFit
  <1> QED
    BY <1>1, <1>2

\* The elements that many services share.
LEMMA SharedFit ==
    /\ Fits(Header) /\ Fits(Extended) /\ Fits(Answer) /\ Fits(Slot) /\ Fits(Tag)
    /\ Fits(SubCommand) /\ Fits(CounterPresence) /\ Fits(Algorithm) /\ Fits(Presence)
    /\ Fits(Configuration) /\ Fits(HostKeyType) /\ Fits(<< >>)
    /\ \A n \in Int : Fits(Padding(n))
  <1>1. ConfigurationSize \in Int
    BY TableAssumption
  <1>2. 1 \in Int /\ 2 \in Int
    OBVIOUS
  <1> QED
    BY <1>1, <1>2, FittingAre, FitsTuple, FitsNone
    DEF Header, Extended, Answer, Slot, Tag, SubCommand, CounterPresence, Algorithm, Presence,
        Configuration, HostKeyType, Padding

LEMMA WithFits ==
    ASSUME NEW name, NEW b \in Lendable
    PROVE  Fits(With(name, b))
  BY FittingAre, FitsTuple DEF With

\* What the ciphers are passed.
Ciphering(c) == {c.message, c.output, c.associated_data, c.iv, c.tag} \subseteq Lendable

LEMMA CipherParts ==
    ASSUME NEW c, Ciphering(c)
    PROVE  /\ Fits(Associated(c)) /\ Fits(Message(c)) /\ Fits(OutputOf(c)) /\ Fits(Tagged(c))
           /\ Fits(Verdict(c)) /\ Fits(With("nonce", c.iv)) /\ Fits(With("iv", c.iv))
           /\ Fits(<<From("message", c.message)>>)
           /\ Fits(<<Lent("nonce", NonceSize, c.iv)>>)
  <1>1. c.message \in Lendable /\ c.associated_data \in Lendable /\ c.iv \in Lendable
        /\ c.tag \in Lendable
    BY DEF Ciphering
  <1>2. c.message.length \in Int /\ 1 \in Int /\ NonceSize \in Int
    BY <1>1, SizeAssumption, TableAssumption DEF Lendable
  <1>3. Fits(Associated(c)) /\ Fits(Message(c)) /\ Fits(With("nonce", c.iv)) /\ Fits(With("iv", c.iv))
    BY <1>1, WithFits DEF Associated, Message
  <1>4. Fits(OutputOf(c)) /\ Fits(Tagged(c)) /\ Fits(Verdict(c))
    BY <1>1, <1>2, FittingAre, FitsTuple DEF OutputOf, Tagged, Verdict
  <1>5. Fits(<<From("message", c.message)>>) /\ Fits(<<Lent("nonce", NonceSize, c.iv)>>)
    BY <1>1, <1>2, FittingAre, FitsTuple
  <1> QED
    BY <1>3, <1>4, <1>5

LEMMA GcmFits ==
    ASSUME NEW c, Ciphering(c)
    PROVE  /\ BothFit(AesGcmEncrypt(c)) /\ BothFit(AesGcmDecrypt(c))
           /\ BothFit(AesGcmEncryptStart(c)) /\ BothFit(AesGcmDecryptStart(c))
           /\ BothFit(AesGcmEncryptProcess(c)) /\ BothFit(AesGcmDecryptProcess(c))
           /\ BothFit(AesGcmEncryptFinish(c)) /\ BothFit(AesGcmDecryptFinish(c))
  <1> USE ServiceFits, SharedFit, CipherParts, FitsConcat
  <1>1. BothFit(AesGcmEncrypt(c))
    BY DEF AesGcmEncrypt
  <1>2. BothFit(AesGcmDecrypt(c))
    BY DEF AesGcmDecrypt
  <1>3. BothFit(AesGcmEncryptStart(c))
    BY DEF AesGcmEncryptStart
  <1>4. BothFit(AesGcmDecryptStart(c))
    BY DEF AesGcmDecryptStart
  <1>5. BothFit(AesGcmEncryptProcess(c))
    BY DEF AesGcmEncryptProcess
  <1>6. BothFit(AesGcmDecryptProcess(c))
    BY DEF AesGcmDecryptProcess
  <1>7. BothFit(AesGcmEncryptFinish(c))
    BY DEF AesGcmEncryptFinish
  <1>8. BothFit(AesGcmDecryptFinish(c))
    BY DEF AesGcmDecryptFinish
  <1> QED
    BY <1>1, <1>2, <1>3, <1>4, <1>5, <1>6, <1>7, <1>8

LEMMA CcmFits ==
    ASSUME NEW c, Ciphering(c)
    PROVE  /\ BothFit(AesCcmEncrypt(c)) /\ BothFit(AesCcmEncryptStart(c)) /\ BothFit(AesCcmDecrypt(c))
  <1> USE ServiceFits, SharedFit, CipherParts, FitsConcat
  <1>1. BothFit(AesCcmEncrypt(c))
    <2> DEFINE lengths == <<Head(Associated(c)), Head(Message(c))>>
               counter == <<Lent("counter", CounterSize, c.counter)>>
               texts == IF c.associated_data.length # 0 THEN Associated(c) \o Message(c) ELSE lengths
               last == IF c.presence = 0 THEN << >> ELSE counter
    <2>1. Head(Associated(c)) = Swap(HostOrder({"associated_data"}, c.associated_data.length))
          /\ Head(Message(c)) = Swap(HostOrder({"message"}, c.message.length))
      BY DEF Associated, Message, With
    <2>2. Fits(lengths)
      BY <2>1, FittingAre, FitsTuple
    <2>3. Fits(counter)
      <3>1. CounterSize \in Int
        BY TableAssumption
      <3> QED
        BY <3>1, FittingAre, FitsTuple
    <2> HIDE DEF lengths, counter
    <2>4. Fits(texts) /\ Fits(last)
      <3>1. Fits(Associated(c) \o Message(c)) /\ Fits(<< >>)
        OBVIOUS
      <3>2. texts \in {Associated(c) \o Message(c), lengths} /\ last \in {<< >>, counter}
        OBVIOUS
      <3> HIDE DEF texts, last
      <3> QED
        BY <2>2, <2>3, <3>1, <3>2
    <2> HIDE DEF texts, last
    <2>5. Fits(Header \o SubCommand \o Slot \o <<Lent("nonce", NonceSize, c.iv)>> \o texts)
          /\ Fits(Answer \o OutputOf(c) \o Tagged(c) \o CounterPresence \o last)
      BY <2>4
    <2> QED
      BY <2>5 DEF AesCcmEncrypt, texts, last, lengths, counter
  <1>2. BothFit(AesCcmEncryptStart(c))
    <2>1. Fits(<<Fixed("total_associated_data_length", 2), Fixed("total_message_length", 4)>>)
          /\ Fits(<<Fixed("counter", CounterSize)>>)
      BY TableAssumption, FittingAre, FitsTuple
    <2> QED
      BY <2>1 DEF AesCcmEncryptStart
  <1>3. BothFit(AesCcmDecrypt(c))
    <2> DEFINE both == (c.message.length + c.tag.length) % Word
               texts == <<Swap(HostOrder({"message", "authentication_tag"}, both)),
                          From("message", c.message)>>
    <2>1. c.message \in Lendable
      BY DEF Ciphering
    <2> HIDE DEF both
    <2>2. Fits(texts)
      BY <2>1, FittingAre, FitsTuple
    <2> HIDE DEF texts
    <2>3. /\ Fits(Header \o SubCommand \o Slot \o <<Lent("nonce", NonceSize, c.iv)>>
                  \o Associated(c) \o texts \o Tagged(c))
          /\ Fits(Answer \o Verdict(c) \o OutputOf(c))
      BY <2>2
    <2> QED
      BY <2>3 DEF AesCcmDecrypt, texts, both
  <1> QED
    BY <1>1, <1>2, <1>3

LEMMA MacFits ==
    ASSUME NEW c, Ciphering(c), {"message", "output"} \subseteq DOMAIN c
    PROVE  /\ BothFit(CmacHmacCompute(c)) /\ BothFit(CmacHmacVerify(c))
           /\ BothFit(AesGmacCompute(c)) /\ BothFit(AesGmacVerify(c))
  <1>1. BothFit(CmacHmacCompute(c))
    <2>1. Fits(<<Fixed("mac_length", 1), From("message", c.message)>>)
      BY FittingAre, FitsTuple DEF Ciphering
    <2> QED
      BY <2>1, ServiceFits, SharedFit, CipherParts, FitsConcat DEF CmacHmacCompute
  <1>2. BothFit(CmacHmacVerify(c))
    <2>1. Fits(<<OneByte({"authentication_tag"}, c.tag.length)>>)
      BY FittingAre, FitsTuple
    <2> QED
      BY <2>1, ServiceFits, SharedFit, CipherParts, FitsConcat DEF CmacHmacVerify
  <1>3. Ciphering(WithoutMessage(c))
    <2>1. Null \in Lendable
      BY SizeAssumption DEF Null, Lendable
    <2>2. /\ WithoutMessage(c).message = Null /\ WithoutMessage(c).output = Null
          /\ WithoutMessage(c).associated_data = c.associated_data
          /\ WithoutMessage(c).iv = c.iv /\ WithoutMessage(c).tag = c.tag
      BY DEF WithoutMessage
    <2> QED
      BY <2>1, <2>2 DEF Ciphering
  <1>4. BothFit(AesGmacCompute(c)) /\ BothFit(AesGmacVerify(c))
    BY <1>3, GcmFits DEF AesGmacCompute, AesGmacVerify
  <1> QED
    BY <1>1, <1>2, <1>4

LEMMA EcbFits ==
    ASSUME NEW c, Ciphering(c)
    PROVE  BothFit(AesEcbEncrypt(c)) /\ BothFit(AesEcbDecrypt(c))
  BY ServiceFits, SharedFit, CipherParts, FitsConcat DEF AesEcbEncrypt, AesEcbDecrypt

LEMMA HashFits ==
    ASSUME NEW c, c.message \in Lendable
    PROVE  /\ BothFit(StartHash(c)) /\ BothFit(ProcessHash(c))
           /\ c.algorithm \in DOMAIN DigestSize => BothFit(FinishHash(c))
  <1>1. Fits(<<From("message", c.message)>>) /\ Fits(HashId(c.algorithm))
    BY FittingAre, FitsTuple DEF HashId
  <1>2. ASSUME c.algorithm \in DOMAIN DigestSize
        PROVE  Fits(<<Fixed("digest_size", 2), Lent("digest", DigestSize[c.algorithm], c.output)>>)
    <2>1. DigestSize[c.algorithm] \in Int
      BY <1>2, TableAssumption
    <2> QED
      BY <2>1, FittingAre, FitsTuple
  <1>3. BothFit(StartHash(c)) /\ BothFit(ProcessHash(c))
    BY <1>1, ServiceFits, SharedFit, FitsConcat DEF StartHash, ProcessHash
  <1>4. c.algorithm \in DOMAIN DigestSize => BothFit(FinishHash(c))
    BY <1>1, <1>2, ServiceFits, SharedFit, FitsConcat DEF FinishHash
  <1> QED
    BY <1>3, <1>4

LEMMA EnvelopeFits ==
    ASSUME NEW c, c.message \in Lendable, c.output \in Lendable
    PROVE  /\ BothFit(WrapPayload(c)) /\ BothFit(UnwrapPayload(c)) /\ BothFit(GenerateRandom(c))
           /\ BothFit(GenerateChallenge(c)) /\ BothFit(Echo(c))
  <1>1. /\ Fits(<<From("payload", c.message)>>) /\ Fits(<<From("message", c.message)>>)
        /\ Fits(<<From("wrapped", c.output)>>) /\ Fits(<<From("unwrapped", c.output)>>)
        /\ Fits(<<From("random", c.output)>>) /\ Fits(<<Fixed("subject", 1), Fixed("size", 1)>>)
    BY FittingAre, FitsTuple
  <1>2. c.output.length \in Int /\ c.message.length \in Int /\ ChallengeSize \in Int
    BY SizeAssumption, TableAssumption DEF Lendable
  <1>3. Fits(OutputOf(c))
    BY <1>2, FittingAre, FitsTuple DEF OutputOf
  <1>4. c.output.null \/ c.output.length < ChallengeSize
        \/ Fits(<<Part("challenge", ChallengeSize, c.output.length, c.output.null)>>)
    BY <1>2, FittingAre, FitsTuple
  <1>5. BothFit(WrapPayload(c)) /\ BothFit(UnwrapPayload(c)) /\ BothFit(GenerateRandom(c))
    BY <1>1, ServiceFits, SharedFit, FitsConcat DEF WrapPayload, UnwrapPayload, GenerateRandom
  <1>6. BothFit(GenerateChallenge(c))
    BY <1>4, ServiceFits, SharedFit, FitsConcat DEF GenerateChallenge
  <1>7. BothFit(Echo(c))
    BY <1>1, <1>3, ServiceFits, SharedFit, FitsConcat DEF Echo
  <1> QED
    BY <1>5, <1>6, <1>7

LEMMA DeviceFits ==
    /\ BothFit(DeletePassword) /\ BothFit(PutLifeCycleState) /\ BothFit(PutI2CParameters)
    /\ BothFit(QueryMaskId) /\ BothFit(Reset) /\ BothFit(Hibernate) /\ BothFit(Patch)
    /\ \A c : BothFit(QueryLifeCycleState(c)) /\ BothFit(QueryI2CParameters(c))
    /\ \A c : c.password \in Lendable => BothFit(VerifyPassword(c))
  <1> USE ServiceFits, SharedFit, FitsConcat
  <1>1. I2CParameters \in Int /\ MaskIdSize \in Int /\ 1 \in Int
    BY TableAssumption
  <1>2. /\ Fits(<<Fixed("life_cycle_state", 1)>>) /\ Fits(<<Fixed("i2c_parameters", I2CParameters)>>)
        /\ Fits(<<Fixed("sub_tag", 1), Fixed("sub_tag_size", 1), Fixed("mask_id", MaskIdSize)>>)
        /\ Fits(<<Fixed("wake_up_mode", 1)>>)
    BY <1>1, FittingAre, FitsTuple
  <1>3. BothFit(DeletePassword) /\ BothFit(PutLifeCycleState) /\ BothFit(PutI2CParameters)
        /\ BothFit(QueryMaskId) /\ BothFit(Reset) /\ BothFit(Hibernate) /\ BothFit(Patch)
    BY <1>2 DEF DeletePassword, PutLifeCycleState, PutI2CParameters, QueryMaskId, Reset, Hibernate,
                Patch
  <1>4. ASSUME NEW c PROVE BothFit(QueryLifeCycleState(c)) /\ BothFit(QueryI2CParameters(c))
    <2>1. /\ Fits(<<Lent("life_cycle_state", 1, c.output)>>)
          /\ Fits(<<Lent("i2c_parameters", I2CParameters, c.output)>>)
      BY <1>1, FittingAre, FitsTuple
    <2> QED
      BY <2>1 DEF QueryLifeCycleState, QueryI2CParameters
  <1>5. ASSUME NEW c, c.password \in Lendable PROVE BothFit(VerifyPassword(c))
    <2>1. /\ Fits(<<From("password", c.password)>>) /\ Fits(Verdict(c))
          /\ Fits(<<Lent("remaining_tries", 1, c.tries)>>)
      BY <1>1, <1>5, FittingAre, FitsTuple DEF Verdict
    <2> QED
      BY <2>1 DEF VerifyPassword
  <1> QED
    BY <1>3, <1>4, <1>5

\* Keys, and signatures.
LEMMA KeyFits ==
    ASSUME NEW kt \in KeyTypes
    PROVE  /\ Fits(CurveId(kt))
           /\ \A b : Fits(Signature(kt, b))
           /\ \A compact, b : ~b.null /\ kt \notin {"CURVE25519", "ED25519"} \ compact =>
                 Fits(PublicKey(kt, compact, b))
  <1> DEFINE n == EccInfo[kt].coordinate
             half == EccInfo[kt].signature \div 2
             beyond == IF EccInfo[kt].public_key < 2 * n THEN 0 ELSE n
  <1>1. n \in Int /\ half \in Int /\ EccInfo[kt].id \in Int /\ EccInfo[kt].public_key \in Int /\ 1 \in Int
    BY TableAssumption
  <1>2. kt \notin {"CURVE25519", "ED25519"} => beyond = n
    BY <1>1, TableAssumption
  <1>3. Fits(CurveId(kt))
    BY <1>1, FittingAre, FitsTuple DEF CurveId
  <1>4. ASSUME NEW b PROVE Fits(Signature(kt, b))
    <2> HIDE DEF half
    <2>1. Fits(<<BigEndian({"r"}, half), Lent("r", half, b), BigEndian({"s"}, half), Lent("s", half, b)>>)
      BY <1>1, FittingAre, FitsTuple
    <2> QED
      BY <2>1 DEF Signature, half
  <1>5. ASSUME NEW compact, NEW b, ~b.null, kt \notin {"CURVE25519", "ED25519"} \ compact
        PROVE  Fits(PublicKey(kt, compact, b))
    <2> DEFINE first == <<BigEndian({"x"}, n), Lent("x", n, b)>>
               second == <<BigEndian({"y"}, n), Part("y", n, IF b.null THEN 0 ELSE beyond, FALSE)>>
    <2>1. Fits(first)
      BY <1>1, FittingAre, FitsTuple
    <2>2. Fits(<<Fixed("point_representation_id", 1)>>)
      BY <1>1, FittingAre, FitsTuple
    <2>3. CASE kt \in compact
      BY <2>1, <2>3 DEF PublicKey
    <2>4. CASE kt \notin compact
      <3>1. beyond = n
        BY <1>2, <1>5, <2>4
      <3>2. (IF b.null THEN 0 ELSE beyond) = n
        BY <1>5, <3>1
      <3> HIDE DEF n
      <3>3. Fitting(Part("y", n, IF b.null THEN 0 ELSE beyond, FALSE))
        <4>1. Fitting(Part("y", n, n, FALSE))
          BY <1>1 DEF Part, Fitting
        <4> QED
          BY <3>2, <4>1
      <3>4. Fits(second)
        BY <3>3, FittingAre, FitsTuple
      <3> HIDE DEF first, second
      <3>5. Fits(<<Fixed("point_representation_id", 1)>> \o first \o second)
        BY <2>1, <2>2, <3>4, FitsConcat
      <3> QED
        BY <2>4, <3>5 DEF PublicKey, first, second, n
    <2> QED
      BY <2>3, <2>4
  <1> QED
    BY <1>3, <1>4, <1>5

LEMMA HashIdFits == \A kt, algorithm : Fits(HashId(algorithm)) /\ Fits(HashOf(kt, algorithm))
  <1>1. ASSUME NEW algorithm PROVE Fits(HashId(algorithm))
    BY FittingAre, FitsTuple DEF HashId
  <1>2. Fits(<<Fixed("no_hash", 2)>>)
    BY FittingAre, FitsTuple
  <1>3. ASSUME NEW kt, NEW algorithm PROVE Fits(HashOf(kt, algorithm))
    BY <1>1, <1>2 DEF HashOf
  <1> QED
    BY <1>1, <1>3

LEMMA EphemeralFits ==
    ASSUME NEW c, ~KeyRefused(c), c.key_type # "ED25519"
    PROVE  Fits(Ephemeral(c))
  <1>1. c.key_type \in KeyTypes /\ ~c.public_key.null
    BY DEF KeyRefused
  <1>2. Fits(CurveId(c.key_type)) /\ Fits(PublicKey(c.key_type, CompactAgreement, c.public_key))
    BY <1>1, KeyFits DEF CompactAgreement
  <1> QED
    BY <1>2, SharedFit, FitsConcat DEF Ephemeral

LEMMA SignedFits ==
    ASSUME NEW c, c.signature_key_type \in KeyTypes
    PROVE  Fits(Signed(c))
  BY KeyFits, HashIdFits, SharedFit, FitsConcat DEF Signed

\* The services that agree on a key.
LEMMA AgreementFits ==
    ASSUME NEW c, c.key_type # "ED25519"
    PROVE  /\ BothFit(StartVolatileKekSession(c)) /\ BothFit(StartVolatileKekSessionAuthenticated(c))
           /\ BothFit(EstablishSymmetricKey(c))
           /\ c.signature_key_type \in KeyTypes => BothFit(EstablishSymmetricKeyAuthenticated(c))
           /\ BothFit(EstablishHostKey(c)) /\ BothFit(EstablishHostKeyAuthenticated(c))
  <1>1. ~KeyRefused(c) => Fits(Ephemeral(c))
    BY EphemeralFits
  <1>2. c.signature_key_type \in KeyTypes => Fits(Signed(c))
    BY SignedFits
  <1>3. Fits(Padding(1))
    BY SharedFit
  <1>4. BothFit(StartVolatileKekSession(c))
    BY <1>1, ServiceFits, SharedFit, FitsConcat DEF StartVolatileKekSession
  <1>5. BothFit(StartVolatileKekSessionAuthenticated(c))
    BY <1>1, <1>2, <1>3, ServiceFits, SharedFit, FitsConcat DEF StartVolatileKekSessionAuthenticated
  <1>6. c.signature_key_type \in KeyTypes => BothFit(EstablishSymmetricKeyAuthenticated(c))
    BY <1>1, <1>2, <1>3, ServiceFits, SharedFit, FitsConcat DEF EstablishSymmetricKeyAuthenticated
  <1>7. BothFit(EstablishHostKey(c))
    BY <1>1, ServiceFits, SharedFit, FitsConcat DEF EstablishHostKey
  <1>8. BothFit(EstablishHostKeyAuthenticated(c))
    BY <1>1, <1>2, <1>3, ServiceFits, SharedFit, FitsConcat DEF EstablishHostKeyAuthenticated
  <1> QED
    BY <1>4, <1>5, <1>6, <1>7, <1>8 DEF EstablishSymmetricKey

LEMMA EccFits ==
    ASSUME NEW c, c.message \in Lendable
    PROVE  /\ c.key_type # "CURVE25519" => BothFit(EccVerifySignature(c))
           /\ BothFit(EccGenerateSignature(c)) /\ BothFit(EccEstablishSharedSecret(c))
           /\ BothFit(EccDecompressPublicKey(c)) /\ BothFit(VerifyEntitySignature(c))
           /\ BothFit(WriteGenericEccPublicKey(c)) /\ BothFit(GenerateEccKeyPair(c))
           /\ c.key_type # "CURVE25519" => BothFit(QueryGenericPublicKeySlotValue(c))
           /\ c.key_type # "ED25519" /\ ~c.public_key.null => BothFit(GenerateEcdheKeyPair(c))
  <1> USE ServiceFits, SharedFit, FitsConcat
  <1>0. ~KeyRefused(c) => c.key_type \in KeyTypes /\ ~c.public_key.null
    BY DEF KeyRefused
  <1>1. c.key_type \in KeyTypes =>
           /\ Fits(CurveId(c.key_type)) /\ Fits(Signature(c.key_type, c.signature))
           /\ ~c.public_key.null =>
                 /\ Fits(PublicKey(c.key_type, CompactKeys, c.public_key))
                 /\ c.key_type # "CURVE25519" =>
                       Fits(PublicKey(c.key_type, CompactSignature, c.public_key))
                 /\ c.key_type # "ED25519" =>
                       Fits(PublicKey(c.key_type, CompactAgreement, c.public_key))
    BY KeyFits DEF CompactKeys, CompactSignature, CompactAgreement
  <1>2. /\ Fits(<<Fixed("subject", 1)>>) /\ Fits(<<Fixed("eddsa_variant", 1)>>)
        /\ Fits(<<Lent("signature_validity", 1, c.verification)>>)
        /\ Fits(<<Fixed("point_representation_id", 1)>>) /\ Fits(<<Fixed("filler", 1)>>)
        /\ Fits(<<Fixed("usage_limit", UsageLimitSize)>>) /\ Fits(Verdict(c))
        /\ Fits(Padding(2))
    <2>1. UsageLimitSize \in Int /\ 1 \in Int /\ 2 \in Int
      BY TableAssumption
    <2>2. /\ Fits(<<Fixed("subject", 1)>>) /\ Fits(<<Fixed("eddsa_variant", 1)>>)
          /\ Fits(<<Lent("signature_validity", 1, c.verification)>>) /\ Fits(Verdict(c))
      BY <2>1, FittingAre, FitsTuple DEF Verdict
    <2>3. /\ Fits(<<Fixed("point_representation_id", 1)>>) /\ Fits(<<Fixed("filler", 1)>>)
          /\ Fits(<<Fixed("usage_limit", UsageLimitSize)>>) /\ Fits(Padding(2))
      BY <2>1, FittingAre, FitsTuple DEF Padding
    <2> QED
      BY <2>2, <2>3
  <1>3. Fits(With("message", c.message))
    BY WithFits
  <1>4. c.key_type # "CURVE25519" => BothFit(EccVerifySignature(c))
    <2> DEFINE variant == IF c.key_type = "ED25519" THEN <<Fixed("eddsa_variant", 1)>> ELSE << >>
    <2>1. Fits(variant)
      BY <1>2
    <2> HIDE DEF variant
    <2>2. c.key_type # "CURVE25519" /\ ~KeyRefused(c) =>
             Fits(Header \o <<Fixed("subject", 1)>> \o CurveId(c.key_type)
                  \o PublicKey(c.key_type, CompactSignature, c.public_key)
                  \o Signature(c.key_type, c.signature) \o variant \o With("message", c.message))
      BY <1>0, <1>1, <1>2, <1>3, <2>1
    <2> QED
      BY <1>2, <2>2 DEF EccVerifySignature, variant
  <1>5. BothFit(EccGenerateSignature(c))
    BY <1>1, <1>3 DEF EccGenerateSignature
  <1>6. BothFit(EccEstablishSharedSecret(c))
    <2> DEFINE n == EccInfo[c.key_type].shared_secret
    <2>1. c.key_type \in KeyTypes =>
             Fits(<<BigEndian({"shared_secret"}, n), Lent("shared_secret", n, c.output)>>)
      <3>1. SUFFICES ASSUME c.key_type \in KeyTypes
                     PROVE  Fits(<<BigEndian({"shared_secret"}, n), Lent("shared_secret", n, c.output)>>)
        OBVIOUS
      <3>2. n \in Int
        BY <3>1, TableAssumption
      <3>3. Fitting(BigEndian({"shared_secret"}, n)) /\ Fitting(Lent("shared_secret", n, c.output))
        BY <3>2, FittingAre
      <3> QED
        BY <3>3, FitsTuple
    <2> QED
      BY <1>0, <1>1, <2>1 DEF EccEstablishSharedSecret
  <1>7. BothFit(EccDecompressPublicKey(c))
    <2> DEFINE n == EccInfo[c.key_type].coordinate
    <2>1. c.key_type \in KeyTypes =>
             Fits(<<Lent("x", n, c.public_key)>>) /\ Fits(<<Lent("y", n, c.output)>>)
      BY TableAssumption, FittingAre, FitsTuple
    <2> QED
      BY <1>0, <1>1, <1>2, <2>1 DEF EccDecompressPublicKey
  <1>8. BothFit(VerifyEntitySignature(c))
    BY <1>1, <1>2 DEF VerifyEntitySignature
  <1>9. BothFit(WriteGenericEccPublicKey(c))
    BY <1>0, <1>1 DEF WriteGenericEccPublicKey
  <1>10. BothFit(GenerateEccKeyPair(c))
    BY <1>0, <1>1, <1>2 DEF GenerateEccKeyPair
  <1>11. c.key_type # "CURVE25519" => BothFit(QueryGenericPublicKeySlotValue(c))
    BY <1>0, <1>1 DEF QueryGenericPublicKeySlotValue
  <1>12. c.key_type # "ED25519" /\ ~c.public_key.null => BothFit(GenerateEcdheKeyPair(c))
    BY <1>1 DEF GenerateEcdheKeyPair
  <1> QED
    BY <1>4, <1>5, <1>6, <1>7, <1>8, <1>9, <1>10, <1>11, <1>12

-----------------------------------------------------------------------------
(* Slots                                                                   *)

LEMMA SlotFits ==
    /\ BothFit(SetGenericPublicSlotConfigurationFlag) /\ BothFit(StopVolatileKekSession)
    /\ BothFit(GenerateWrapUnwrapKey) /\ BothFit(EraseSymmetricKeySlot)
    /\ \A c : /\ BothFit(QueryCount(c)) /\ BothFit(QueryGenericPublicKeySlotInfo(c))
              /\ BothFit(QuerySymmetricKeySlotProvisioningCtrlFields(c))
              /\ BothFit(PutSymmetricKeySlotProvisioningCtrlFields(c))
              /\ BothFit(QueryHostKeyProvisioningCtrlFields(c))
              /\ BothFit(PutHostKeyProvisioningCtrlFields(c))
              /\ BothFit(QueryHostKey(c)) /\ BothFit(QueryHostKeyV2(c))
              /\ BothFit(PutAttributeHostKey(c))
  <1> USE ServiceFits, SharedFit, FitsConcat
  <1>1. /\ ConfigurationSize \in Int /\ CurveIdSize \in Int /\ HostKeyRoom.v1 \in Int
        /\ HostKeyRoom.v2 \in Int /\ HostKeySize.AES_128 \in Int /\ 1 \in Int
    BY TableAssumption
  <1>2. Fits(<<Fixed("key_length", 1)>>) /\ Fits(<<Fixed("curve_id", CurveIdSize)>>)
    BY <1>1, FittingAre, FitsTuple
  <1>3. /\ BothFit(SetGenericPublicSlotConfigurationFlag) /\ BothFit(StopVolatileKekSession)
        /\ BothFit(GenerateWrapUnwrapKey) /\ BothFit(EraseSymmetricKeySlot)
    BY <1>2 DEF SetGenericPublicSlotConfigurationFlag, StopVolatileKekSession, GenerateWrapUnwrapKey,
                EraseSymmetricKeySlot
  <1>4. ASSUME NEW c PROVE BothFit(QueryCount(c)) /\ BothFit(QueryGenericPublicKeySlotInfo(c))
    <2>1. Fits(<<Lent("slot_count", 1, c.output)>>)
      BY <1>1, FittingAre, FitsTuple
    <2> QED
      BY <1>2, <2>1 DEF QueryCount, QueryGenericPublicKeySlotInfo
  <1>5. ASSUME NEW c PROVE /\ BothFit(QuerySymmetricKeySlotProvisioningCtrlFields(c))
                           /\ BothFit(PutSymmetricKeySlotProvisioningCtrlFields(c))
    <2>1. /\ Fits(<<Lent("ctrl_fields", ConfigurationSize, c.output)>>)
          /\ Fits(<<Lent("ctrl_fields", ConfigurationSize, c.message)>>)
      BY <1>1, FittingAre, FitsTuple
    <2> QED
      BY <2>1 DEF QuerySymmetricKeySlotProvisioningCtrlFields, PutSymmetricKeySlotProvisioningCtrlFields
  <1>6. ASSUME NEW c, NEW name, NEW n \in Int
        PROVE  BothFit(QueryAttribute(c, name, n)) /\ BothFit(PutAttribute(c, name, n))
    <2>1. Fits(<<Lent(name, n, c.output)>>) /\ Fits(<<Lent(name, n, c.message)>>)
      BY FittingAre, FitsTuple
    <2> QED
      BY <2>1 DEF QueryAttribute, PutAttribute
  <1>7. ASSUME NEW c
        PROVE  /\ BothFit(QueryHostKeyProvisioningCtrlFields(c))
               /\ BothFit(PutHostKeyProvisioningCtrlFields(c))
               /\ BothFit(QueryHostKey(c)) /\ BothFit(QueryHostKeyV2(c))
               /\ BothFit(PutAttributeHostKey(c))
    BY <1>1, <1>6 DEF QueryHostKeyProvisioningCtrlFields, PutHostKeyProvisioningCtrlFields, QueryHostKey,
                      QueryHostKeyV2, PutAttributeHostKey
  <1> QED
    BY <1>3, <1>4, <1>5, <1>7

\* A table of as many entries as were asked for.
LEMMA TableFits ==
    ASSUME NEW c, c.slot_count \in Nat
    PROVE  BothFit(QueryPrivateKeyTable(c)) /\ BothFit(QuerySymmetricKeyTable(c))
  <1> USE ServiceFits, SharedFit, FitsConcat
  <1>1. /\ UsageLimitSize \in Int /\ c.slot_count * PrivateSlotSize \in Int
        /\ c.slot_count * SymmetricSlotSize \in Int /\ 1 \in Int
    BY TableAssumption
  <1>2. /\ Fits(<<Fixed("slot_count", 1)>>)
        /\ Fits(<<Fixed("global_usage_limit", UsageLimitSize),
                  Fixed("table_raw", c.slot_count * PrivateSlotSize)>>)
        /\ Fits(<<Fixed("rsp_raw", c.slot_count * SymmetricSlotSize)>>)
    BY <1>1, FittingAre, FitsTuple
  <1>3. BothFit(QueryPrivateKeyTable(c))
    BY <1>1, <1>2 DEF QueryPrivateKeyTable
  <1>4. BothFit(QuerySymmetricKeyTable(c))
    BY <1>2 DEF QuerySymmetricKeyTable
  <1> QED
    BY <1>3, <1>4

LEMMA ByteLess ==
    ASSUME NEW n \in Nat
    PROVE  n % Byte \in Nat /\ n % Byte <= n
  <1>1. Byte \in Nat /\ Byte > 0
    BY TableAssumption
  <1>2. n % Byte \in Nat /\ n % Byte < Byte
    BY <1>1
  <1>3. CASE n < Byte
    BY <1>1, <1>3
  <1>4. CASE ~(n < Byte)
    BY <1>1, <1>2, <1>4
  <1> QED
    BY <1>2, <1>3, <1>4

\* A list of descriptions of keys.
LEMMA ConfirmationFits ==
    ASSUME NEW c, c.infos \in Seq(Nat)
    PROVE  BothFit(ConfirmSymmetricKey(c))
  <1> DEFINE list == [i \in 1..Len(c.infos) |-> Fixed("key_information", c.infos[i] + 2)]
  <1>1. Fits(list)
    <2>1. Len(c.infos) \in Nat
      OBVIOUS
    <2>2. \A i \in 1..Len(c.infos) : Fitting(list[i])
      <3>1. \A i \in 1..Len(c.infos) : c.infos[i] + 2 \in Int
        OBVIOUS
      <3> QED
        BY <3>1, FittingAre
    <2>3. list = [i \in 1..Len(c.infos) |-> list[i]]
      OBVIOUS
    <2> HIDE DEF list
    <2> QED
      BY <2>1, <2>2, <2>3, FitsEach
  <1>2. Fits(<<Fixed("confirmation_mac", ConfirmationMac)>>)
    BY TableAssumption, FittingAre, FitsTuple
  <1> HIDE DEF list
  <1>3. Fits(Extended \o <<Fixed("confirmation_mac", ConfirmationMac)>> \o list)
    BY <1>1, <1>2, SharedFit, FitsConcat
  <1> QED
    BY <1>3, ServiceFits, SharedFit DEF ConfirmSymmetricKey, list

\* Values that are as long as their types say.
LEMMA ValueFits ==
    ASSUME NEW c, c.message \in Lendable
    PROVE  /\ BothFit(WriteSymmetricKeyWrapped(c))
           /\ /\ c.infos \in Seq(Nat) /\ c.infos # << >>
              /\ ~c.message.null =>
                    /\ c.symmetric_type = "GENERIC" => c.secret_length \in 0..c.message.length
                    /\ c.symmetric_type \in DOMAIN PlaintextLength =>
                          c.message.length >= PlaintextLength[c.symmetric_type]
              => BothFit(WriteSymmetricKeyPlaintext(c))
           /\ (~c.message.null /\ c.host_key_type # "INVALID" =>
                 /\ c.host_key_type \in DOMAIN HostKeySize
                 /\ c.message.length >= HostKeySize[c.host_key_type])
              => BothFit(HostKeyProvisioning(c))
           /\ (~c.message.null /\ c.host_key_type # "INVALID" =>
                 /\ c.host_key_type \in DOMAIN HostKeySize
                 /\ c.message.length >= HostKeySize[c.host_key_type] + 16)
              => BothFit(HostKeyProvisioningWrapped(c))
  <1> USE ServiceFits, SharedFit, FitsConcat
  <1> DEFINE n == c.message.length
  <1>1. n \in Nat
    BY SizeAssumption DEF Lendable
  <1> HIDE DEF n
  <1>2. ASSUME NEW name, NEW m \in Nat, m <= n
        PROVE  Fitting(Part(name, m, n, FALSE)) /\ Fits(<<Part(name, m, n, FALSE)>>)
    <2>1. Fitting(Part(name, m, n, FALSE))
      BY <1>2 DEF Part, Fitting
    <2> QED
      BY <2>1, FitsTuple
  <1>3. BothFit(WriteSymmetricKeyWrapped(c))
    <2>1. Fits(<<Part("envelope", n % Byte, n, FALSE)>>)
      BY <1>1, <1>2, ByteLess
    <2> QED
      BY <2>1 DEF WriteSymmetricKeyWrapped, n
  <1>4. ASSUME c.infos \in Seq(Nat), c.infos # << >>,
               ~c.message.null =>
                    /\ c.symmetric_type = "GENERIC" => c.secret_length \in 0..n
                    /\ c.symmetric_type \in DOMAIN PlaintextLength =>
                          n >= PlaintextLength[c.symmetric_type]
        PROVE  BothFit(WriteSymmetricKeyPlaintext(c))
    <2> DEFINE m == IF c.symmetric_type = "GENERIC" THEN c.secret_length
                    ELSE PlaintextLength[c.symmetric_type]
               refused == c.message.null \/ c.key_list.null
                          \/ c.symmetric_type \notin DOMAIN PlaintextLength \cup {"GENERIC"}
    <2>1. Head(c.infos) \in Int
      BY <1>4
    <2>2. c.symmetric_type \in DOMAIN PlaintextLength => PlaintextLength[c.symmetric_type] \in Nat
      BY DEF PlaintextLength
    <2>3. ~refused => m \in Nat /\ m <= n
      BY <1>1, <1>4, <2>2
    <2> HIDE DEF m
    <2>4. ~refused => Fits(<<Fixed("key_info", Head(c.infos)), Part("value", m, n, FALSE)>>)
      <3>1. ~refused => Fitting(Part("value", m, n, FALSE))
        BY <1>2, <2>3
      <3>2. Fitting(Fixed("key_info", Head(c.infos)))
        BY <2>1, FittingAre
      <3> HIDE DEF refused
      <3> QED
        BY <3>1, <3>2, FitsTuple
    <2> HIDE DEF refused
    <2>5. ~refused => Fits(Extended \o <<Fixed("key_info", Head(c.infos)), Part("value", m, n, FALSE)>>)
      BY <2>4
    <2> QED
      BY <2>5 DEF WriteSymmetricKeyPlaintext, m, n, refused
  <1>5. ASSUME ~c.message.null /\ c.host_key_type # "INVALID" =>
                  c.host_key_type \in DOMAIN HostKeySize /\ n >= HostKeySize[c.host_key_type]
        PROVE  BothFit(HostKeyProvisioning(c))
    <2> DEFINE m == HostKeySize[c.host_key_type]
    <2>1. ~(c.message.null \/ c.host_key_type = "INVALID") => m \in Nat /\ m <= n
      BY <1>1, <1>5, TableAssumption
    <2> HIDE DEF m
    <2>2. ~(c.message.null \/ c.host_key_type = "INVALID") => Fits(<<Part("host_keys", m, n, FALSE)>>)
      BY <1>2, <2>1
    <2>3. Fits(Padding(3))
      BY SharedFit
    <2> QED
      BY <2>2, <2>3 DEF HostKeyProvisioning, m, n
  <1>6. ASSUME ~c.message.null /\ c.host_key_type # "INVALID" =>
                  c.host_key_type \in DOMAIN HostKeySize /\ n >= HostKeySize[c.host_key_type] + 16
        PROVE  BothFit(HostKeyProvisioningWrapped(c))
    <2> DEFINE k == HostKeySize[c.host_key_type]
               m == HostKeySize[c.host_key_type] + 16
    <2>0. ~(c.message.null \/ c.host_key_type = "INVALID") => k \in Nat /\ k + 16 <= n
      BY <1>1, <1>6, TableAssumption
    <2>1. ~(c.message.null \/ c.host_key_type = "INVALID") => m \in Nat /\ m <= n
      <3> HIDE DEF k
      <3>1. m = k + 16
        BY DEF k
      <3> HIDE DEF m
      <3> QED
        BY <2>0, <3>1
    <2> HIDE DEF m, k
    <2>2. ~(c.message.null \/ c.host_key_type = "INVALID") => Fits(<<Part("host_keys", m, n, FALSE)>>)
      BY <1>2, <2>1
    <2> QED
      BY <2>2 DEF HostKeyProvisioningWrapped, m, n
  <1> QED
    BY <1>3, <1>4, <1>5, <1>6 DEF n

-----------------------------------------------------------------------------
(* Key derivation                                                          *)

OutputFits(k) ==
    k.length \in Nat /\ k.room \in Nat /\ (k.response => k.length <= k.room \/ k.null)
OutputsFit(okm) == Len(okm) \in Nat /\ \A i \in 1..Len(okm) : OutputFits(okm[i])

LEMMA DataFits ==
    ASSUME NEW name, NEW b \in Lendable
    PROVE  Fits(Data(name, b))
  <1> DEFINE bytes == IF b.length > 0 /\ ~b.null THEN <<From(name, b)>> ELSE << >>
  <1>1. Fits(<<BigEndian({name}, b.length)>>) /\ Fits(<<From(name, b)>>)
    BY FittingAre, FitsTuple
  <1>2. bytes \in {<<From(name, b)>>, << >>}
    OBVIOUS
  <1> HIDE DEF bytes
  <1>3. Fits(bytes)
    BY <1>1, <1>2, SharedFit
  <1>4. Fits(<<BigEndian({name}, b.length)>> \o bytes)
    BY <1>1, <1>3, FitsConcat
  <1> QED
    BY <1>4 DEF Data, bytes

LEMMA DescriptionFits ==
    ASSUME NEW k, OutputFits(k)
    PROVE  Fits(Description(k)) /\ Fitting(Derived(k))
  <1> DEFINE info == IF k.length > 1 THEN <<Fixed("key_info", k.length - 1)>> ELSE << >>
             slot == <<BigEndian({"destination", "lock_indicator", "key_info"}, 1 + k.length),
                       Fixed("destination", 1), Fixed("lock_indicator", 1)>>
             response == <<BigEndian({"destination", "key_length"}, 3), Fixed("destination", 1),
                           Fixed("key_length", 2)>>
  <1>1. k.length \in Int /\ k.length - 1 \in Int /\ k.room \in Int /\ 1 \in Int /\ 2 \in Int
    BY DEF OutputFits
  <1>2. Fits(slot) /\ Fits(response)
    BY <1>1, FittingAre, FitsTuple
  <1>3. Fits(info)
    <2>1. Fits(<<Fixed("key_info", k.length - 1)>>)
      BY <1>1, FittingAre, FitsTuple
    <2>2. info \in {<<Fixed("key_info", k.length - 1)>>, << >>}
      OBVIOUS
    <2> HIDE DEF info
    <2> QED
      BY <2>1, <2>2, SharedFit
  <1> HIDE DEF slot, info, response
  <1>4. Fits(slot \o info)
    BY <1>2, <1>3, FitsConcat
  <1>5. Description(k) = response \/ Description(k) = slot \o info
    BY DEF Description, response, slot, info
  <1>6. Fitting(Derived(k))
    <2>1. CASE k.response
      <3>1. Derived(k) = Part("derived_key", k.length, k.room, k.null)
        BY <2>1 DEF Derived
      <3>2. k.length <= k.room \/ k.null
        BY <2>1 DEF OutputFits
      <3> QED
        BY <3>1, <3>2 DEF Part, Fitting
    <2>2. CASE ~k.response
      <3>1. Derived(k) = Fixed("slot_number", 1)
        BY <2>2 DEF Derived
      <3> QED
        BY <1>1, <3>1, FittingAre
    <2> QED
      BY <2>1, <2>2
  <1> QED
    BY <1>2, <1>4, <1>5, <1>6

\* The derivation command: its four descriptions and their data.
LEMMA DeriveFits ==
    ASSUME NEW c, c.input.slot \/ c.input.buffer \in Lendable,
           c.extract => c.salt.slot \/ c.salt.buffer \in Lendable,
           c.expand => c.info \in Lendable /\ OutputsFit(c.okm)
    PROVE  BothFit(DeriveKeys(c))
  <1> DEFINE given == <<Fixed("mode_of_operation", 1), BigEndian({"input"}, c.input.buffer.length),
                        From("input", c.input.buffer)>>
             input == IF c.input.slot THEN Slot ELSE given
             described == [i \in 1..Len(c.okm) |-> Description(c.okm[i])]
             derived == [i \in 1..Len(c.okm) |-> Derived(c.okm[i])]
             source == IF c.salt.slot THEN Slot ELSE Data("salt", c.salt.buffer)
             salt == IF ~c.extract THEN << >> ELSE <<Fixed("salt_source", 1)>> \o source
             info == IF ~c.expand THEN << >> ELSE Data("info", c.info) \o FlattenSeq(described)
             prk == IF c.extract /\ ~c.expand THEN <<Fixed("prk_slot", 1)>> ELSE << >>
             okm == IF c.expand THEN derived ELSE << >>
  <1>1. /\ Fits(<<Fixed("input_source", 1)>>) /\ Fits(<<Fixed("hkdf_flags", 1), Fixed("hash_algo", 11)>>)
        /\ Fits(<<Fixed("salt_source", 1)>>) /\ Fits(<<Fixed("prk_slot", 1)>>)
    BY FittingAre, FitsTuple
  <1>2. Fits(input)
    <2>1. CASE c.input.slot
      BY <2>1, SharedFit
    <2>2. CASE ~c.input.slot
      <3>1. Fits(given)
        BY <2>2, FittingAre, FitsTuple
      <3> HIDE DEF given
      <3> QED
        BY <2>2, <3>1
    <2> QED
      BY <2>1, <2>2
  <1>3. c.expand => Fits(FlattenSeq(described)) /\ Fits(derived)
    <2> SUFFICES ASSUME c.expand PROVE Fits(FlattenSeq(described)) /\ Fits(derived)
      OBVIOUS
    <2>1. Len(c.okm) \in Nat
      BY DEF OutputsFit
    <2>2. \A i \in 1..Len(c.okm) : Fits(described[i]) /\ Fitting(derived[i])
      BY DescriptionFits DEF OutputsFit
    <2>3. described = [i \in 1..Len(c.okm) |-> described[i]] /\ derived = [i \in 1..Len(c.okm) |-> derived[i]]
      OBVIOUS
    <2> HIDE DEF described, derived
    <2>4. Fits(FlattenSeq(described))
      BY <2>1, <2>2, <2>3, FitsFlatten
    <2>5. Fits(derived)
      BY <2>1, <2>2, <2>3, FitsEach
    <2> QED
      BY <2>4, <2>5
  <1> HIDE DEF input, described, derived
  <1>4. Fits(salt)
    <2>1. CASE ~c.extract
      BY <2>1, SharedFit
    <2>2. CASE c.extract
      <3>1. Fits(source)
        <4>1. CASE c.salt.slot
          BY <4>1, SharedFit
        <4>2. CASE ~c.salt.slot
          <5>1. Fits(Data("salt", c.salt.buffer))
            BY <2>2, <4>2, DataFits
          <5> QED
            BY <4>2, <5>1
        <4> QED
          BY <4>1, <4>2
      <3> HIDE DEF source
      <3>2. Fits(<<Fixed("salt_source", 1)>> \o source)
        BY <1>1, <3>1, FitsConcat
      <3> QED
        BY <2>2, <3>2
    <2> QED
      BY <2>1, <2>2
  <1>5. Fits(info)
    <2>1. CASE ~c.expand
      BY <2>1, SharedFit
    <2>2. CASE c.expand
      <3>1. Fits(Data("info", c.info) \o FlattenSeq(described))
        BY <1>3, <2>2, DataFits, FitsConcat
      <3> QED
        BY <2>2, <3>1
    <2> QED
      BY <2>1, <2>2
  <1>6. Fits(prk)
    <2>1. prk \in {<<Fixed("prk_slot", 1)>>, << >>}
      OBVIOUS
    <2> HIDE DEF prk
    <2> QED
      BY <1>1, <2>1, SharedFit
  <1>7. Fits(okm)
    <2>1. CASE c.expand
      BY <1>3, <2>1
    <2>2. CASE ~c.expand
      BY <2>2, SharedFit
    <2> QED
      BY <2>1, <2>2
  <1> HIDE DEF salt, info, prk, okm
  <1>8. /\ Fits(Extended \o <<Fixed("input_source", 1)>> \o input
                \o <<Fixed("hkdf_flags", 1), Fixed("hash_algo", 11)>> \o salt \o info)
        /\ Fits(Answer \o prk \o okm)
    BY <1>1, <1>2, <1>4, <1>5, <1>6, <1>7, SharedFit, FitsConcat
  <1> QED
    BY <1>8, ServiceFits
    DEF DeriveKeys, input, given, salt, source, info, prk, okm, described, derived

\* A derivation with arguments of its own.
LEMMA DerivationFits ==
    ASSUME NEW c, {"input_null", "output", "input", "extract", "expand", "salt_null", "salt", "info",
                   "okm_null", "okm"} \subseteq DOMAIN c,
           NEW input, input.slot \/ input.buffer \in Lendable,
           NEW extract, extract => c.salt_data \in Lendable,
           NEW expand, NEW okm, expand => c.context \in Lendable /\ OutputsFit(okm)
    PROVE  BothFit(Derivation(c, input, extract, expand, okm))
  <1> DEFINE d == [c EXCEPT !.input_null = FALSE, !.output = Buffer(1), !.input = input,
                            !.extract = extract, !.expand = expand, !.salt_null = ~extract,
                            !.salt = FromCommand(c.salt_data), !.info = c.context,
                            !.okm_null = ~expand, !.okm = okm]
  <1>1. /\ d.input = input /\ d.extract = extract /\ d.expand = expand
        /\ d.salt = FromCommand(c.salt_data) /\ d.info = c.context /\ d.okm = okm
    OBVIOUS
  <1> HIDE DEF d
  <1>2. d.salt.buffer = c.salt_data
    BY <1>1 DEF FromCommand
  <1>3. BothFit(DeriveKeys(d))
    BY <1>1, <1>2, DeriveFits
  <1> QED
    BY <1>3 DEF Derivation, d

-----------------------------------------------------------------------------
(* The frames of a call                                                    *)

Sound(step) == step.kind = "send" => BothFit(step.service)

LEMMA SoundIs ==
    /\ \A command, service : BothFit(service) => Sound(Send(command, service))
    /\ \A ret : Sound(Finish(ret))
    /\ Sound(Invalid)
    /\ \A refuses, step : (~refuses => Sound(step)) => Sound(Checked(refuses, step))
    /\ \A c, l, service : BothFit(service) => Sound(Once(c, l, service))
    /\ \A refuses, c, l, service :
          (~refuses => BothFit(service)) => Sound(OnceChecked(refuses, c, l, service))
  <1>1. \A command, service : BothFit(service) => Sound(Send(command, service))
    BY SendKind DEF Sound
  <1>2. (\A ret : Sound(Finish(ret))) /\ Sound(Invalid)
    BY SendKind DEF Sound
  <1>3. ASSUME NEW refuses, NEW step, ~refuses => Sound(step) PROVE Sound(Checked(refuses, step))
    BY <1>2, <1>3 DEF Checked
  <1>4. ASSUME NEW c, NEW l, NEW service, BothFit(service) PROVE Sound(Once(c, l, service))
    BY <1>1, <1>2, <1>4 DEF Once
  <1>5. ASSUME NEW refuses, NEW c, NEW l, NEW service, ~refuses => BothFit(service)
        PROVE  Sound(OnceChecked(refuses, c, l, service))
    BY <1>3, <1>4, <1>5 DEF OnceChecked
  <1> QED
    BY <1>1, <1>2, <1>3, <1>4, <1>5

\* The arguments of a call.
Given(c) ==
    /\ {"message", "output", "tag", "digest_size", "session", "salt_data", "context", "input_null",
        "input", "extract", "expand", "salt_null", "salt", "info", "okm_null", "okm",
        "associated_data", "iv", "counter", "verification", "signature", "public_key",
        "key_type", "slot_count", "password", "tries", "op"} \subseteq DOMAIN c
    /\ {c.message, c.output, c.associated_data, c.iv, c.tag, c.password, c.salt_data,
        c.context, c.info, c.input.buffer, c.salt.buffer} \subseteq Lendable
    /\ c.infos \in Seq(Nat) /\ c.slot_count \in Nat
    /\ OutputsFit(c.okm)

\* Every call gives what BufferAssumption asks of it.
LEMMA GivenCalls ==
    ASSUME NEW type \in DOMAIN Calls, NEW c \in Calls[type]
    PROVE  Given(c)
  <1>1. OutputsFit(c.okm)
    <2> DEFINE T == [response : BOOLEAN, length : Nat, room : Nat, null : BOOLEAN]
    <2>1. c.okm \in Seq(T)
      BY BufferAssumption
    <2>2. \A k \in T : k.length \in Nat /\ k.room \in Nat
      OBVIOUS
    <2>3. \A i \in DOMAIN c.okm : c.okm[i].length <= c.okm[i].room \/ ~c.okm[i].response
      BY BufferAssumption
    <2> HIDE DEF T
    <2>4. Len(c.okm) \in Nat /\ \A i \in 1..Len(c.okm) : c.okm[i] \in T /\ i \in DOMAIN c.okm
      BY <2>1
    <2> QED
      BY <2>2, <2>3, <2>4 DEF OutputsFit, OutputFits
  <1>2. "op" \in DOMAIN c
    BY CallsAssumption
  <1> QED
    BY <1>1, <1>2, BufferAssumption, ArgumentAssumption DEF Given

LEMMA CipherCallsFit ==
    ASSUME NEW c, Given(c), NEW l
    PROVE  /\ c.op \in EcbAndCcm => BothFit(AesEcbAndCcmEncryption(c))
           /\ c.op \in CcmDecryption \ {"aes_ccm_decrypt_start"} => BothFit(AesCcmDecryption(c))
           /\ c.op \in GcmEncryption => BothFit(AesGcmEncryption(c))
           /\ c.op \in GcmDecryption => BothFit(AesGcmDecryption(c))
           /\ c.op \in MacCalls => BothFit(Mac(c))
  <1>1. Ciphering(c) /\ {"message", "output"} \subseteq DOMAIN c
    BY DEF Given, Ciphering
  <1>2. c.op \in EcbAndCcm => BothFit(AesEcbAndCcmEncryption(c))
    BY <1>1, EcbFits, CcmFits, GcmFits DEF EcbAndCcm, AesEcbAndCcmEncryption, AesCcmEncryptProcess
  <1>3. c.op \in CcmDecryption \ {"aes_ccm_decrypt_start"} => BothFit(AesCcmDecryption(c))
    BY <1>1, CcmFits, GcmFits DEF CcmDecryption, AesCcmDecryption, AesCcmEncryptFinish
  <1>4. c.op \in GcmEncryption => BothFit(AesGcmEncryption(c))
    BY <1>1, GcmFits DEF GcmEncryption, AesGcmEncryption, AesCcmDecryptProcess, AesCcmDecryptFinish
  <1>5. c.op \in GcmDecryption => BothFit(AesGcmDecryption(c))
    BY <1>1, GcmFits DEF GcmDecryption, AesGcmDecryption
  <1>6. c.op \in MacCalls => BothFit(Mac(c))
    BY <1>1, MacFits DEF MacCalls, Mac
  <1> QED
    BY <1>2, <1>3, <1>4, <1>5, <1>6

LEMMA BuffersAre ==
    /\ Null \in Lendable
    /\ \A n \in 0..(Word - 1) : Buffer(n) \in Lendable
    /\ \A n \in Int : \A name : Fitting(From(name, Buffer(n)))
  <1>1. Null \in Lendable
    BY SizeAssumption DEF Null, Lendable
  <1>2. \A n \in 0..(Word - 1) : Buffer(n) \in Lendable
    BY DEF Buffer, Lendable
  <1>3. \A n \in Int : \A name : Fitting(From(name, Buffer(n)))
    BY DEF Buffer, From, Part, Fitting
  <1> QED
    BY <1>1, <1>2, <1>3

LEMMA EchoSound ==
    ASSUME NEW c, NEW l, Fitting(From("message", c.message)), c.message.length \in Int
    PROVE  Sound(LEcho(c, l))
  <1>1. Fits(<<From("message", c.message)>>) /\ Fits(OutputOf(c))
    BY FittingAre, FitsTuple DEF OutputOf
  <1>2. BothFit(Service(FALSE, Header \o <<From("message", c.message)>>, Answer \o OutputOf(c)))
    <2>1. Fits(Header \o <<From("message", c.message)>>) /\ Fits(Answer \o OutputOf(c))
      BY <1>1, SharedFit, FitsConcat
    <2> QED
      BY <2>1, ServiceFits
  <1> QED
    BY <1>2, SoundIs DEF LEcho

LEMMA LServicesSound ==
    ASSUME NEW c, Given(c), NEW l
    PROVE  /\ Sound(LEcho(c, l)) /\ Sound(LWakeup(c, l))
           /\ BothFit(LHibernate) /\ BothFit(LReset)
           /\ BothFit(LGetData(c)) /\ BothFit(LPutData(c))
           /\ c.key_type \in KeyTypes => BothFit(LEccGenerateSignature(c))
  <1>1. c.message \in Lendable /\ c.output \in Lendable /\ c.associated_data \in Lendable
    BY DEF Given
  <1>2. c.message.length \in Int
    BY <1>1, SizeAssumption DEF Lendable
  <1>3. Sound(LEcho(c, l))
    BY <1>1, <1>2, FittingAre, EchoSound
  <1>4. Sound(LWakeup(c, l))
    <2> DEFINE probe == [c EXCEPT !.message = Buffer(1), !.output = Buffer(1)]
    <2>1. probe.message = Buffer(1)
      BY DEF Given
    <2> HIDE DEF probe
    <2>2. Fitting(From("message", probe.message)) /\ probe.message.length \in Int
      BY <2>1, BuffersAre DEF Buffer
    <2>3. Sound(LEcho(probe, l))
      BY <2>2, EchoSound
    <2> QED
      BY <2>3, SoundIs DEF LWakeup, probe
  <1>5. BothFit(LHibernate) /\ BothFit(LReset)
    BY SharedFit, ServiceFits DEF LHibernate, LReset
  <1>6. BothFit(LGetData(c)) /\ BothFit(LPutData(c))
    <2>1. /\ Fits(<<From("additional_data", c.associated_data)>>)
          /\ Fits(<<From("device_info", c.output)>>) /\ Fits(<<From("device_info", c.message)>>)
      BY <1>1, FittingAre, FitsTuple
    <2> QED
      BY <2>1, SharedFit, FitsConcat, ServiceFits DEF LGetData, LPutData
  <1>7. c.key_type \in KeyTypes => BothFit(LEccGenerateSignature(c))
    <2> SUFFICES ASSUME c.key_type \in KeyTypes PROVE BothFit(LEccGenerateSignature(c))
      OBVIOUS
    <2> DEFINE n == EccInfo[c.key_type].signature
    <2>1. n \in Int /\ 1 \in Int
      BY TableAssumption
    <2> HIDE DEF n
    <2>2. /\ Fits(<<From("challenge", c.message), Fixed("internal_data_subject", 1)>>)
          /\ Fits(<<Lent("signature", n, c.signature)>>)
      BY <1>1, <2>1, FittingAre, FitsTuple
    <2> QED
      BY <2>2, SharedFit, FitsConcat, ServiceFits DEF LEccGenerateSignature, n
  <1> QED
    BY <1>3, <1>4, <1>5, <1>6, <1>7

LEMMA MinIsInt ==
    ASSUME NEW a \in Int, NEW b \in Int
    PROVE  Min({a, b}) \in Int
  <1> DEFINE m == IF a <= b THEN a ELSE b
  <1>1. m \in {a, b} /\ \A x \in {a, b} : m <= x
    OBVIOUS
  <1>2. \A x \in {a, b} : (\A y \in {a, b} : x <= y) => x = m
    OBVIOUS
  <1> HIDE DEF m
  <1>3. (CHOOSE x \in {a, b} : \A y \in {a, b} : x <= y) \in {a, b}
    BY <1>1, <1>2
  <1> QED
    BY <1>3 DEF Min

LEMMA HashSound ==
    ASSUME NEW c, Given(c), NEW l, NEW type \in DOMAIN Calls, l.done \in Nat,
           c.op \in {"finish_hash", "compute_hash"} => c.algorithm \in DOMAIN DigestSize
    PROVE  /\ c.op = "compute_hash" => Sound(ComputeHash(c, l, type))
           /\ c.op \in HashCalls => Sound(OnceChecked(HashApiRefused(c), c, l, HashApi(c)))
  <1>1. c.message \in Lendable /\ c.message.length \in Nat
    BY SizeAssumption DEF Given, Lendable
  <1>2. MaxFrame[type] \in Nat /\ HashIdSize \in Nat
    BY SizeAssumption
  <1>3. ASSUME NEW n \in Int
        PROVE  BothFit(StartHash(Piece(c, n))) /\ BothFit(ProcessHash(Piece(c, n)))
    <2>1. Piece(c, n).message = Buffer(n)
      BY DEF Piece, Given
    <2>2. Fits(<<From("message", Piece(c, n).message)>>)
      BY <2>1, BuffersAre, FitsTuple
    <2> QED
      BY <2>2, HashIdFits, SharedFit, FitsConcat, ServiceFits DEF StartHash, ProcessHash
  <1>4. FirstChunk(c, type) \in Int
    BY <1>1, <1>2 DEF FirstChunk, MaximumChunk
  <1>5. NextChunk(c, l, type) \in Int
    <2>1. c.message.length - l.done \in Int /\ MaximumChunk(type) \in Int
      BY <1>1, <1>2 DEF MaximumChunk
    <2> QED
      BY <2>1, MinIsInt DEF NextChunk
  <1>6. c.op = "compute_hash" => BothFit(FinishHash([c EXCEPT !.message = Null]))
    <2> DEFINE d == [c EXCEPT !.message = Null]
    <2>1. d.message = Null /\ d.algorithm = c.algorithm
      BY DEF Given
    <2> HIDE DEF d
    <2> QED
      BY <2>1, BuffersAre, HashFits DEF d
  <1>7. c.op = "compute_hash" => Sound(Hashed(c, l, type))
    BY <1>3, <1>4, <1>5, <1>6, SoundIs DEF Hashed
  <1>8. c.op = "compute_hash" => Sound(ComputeHash(c, l, type))
    BY <1>7, SoundIs DEF ComputeHash
  <1>9. c.op \in HashCalls => BothFit(HashApi(c))
    BY <1>1, HashFits DEF HashCalls, HashApi
  <1> QED
    BY <1>8, <1>9, SoundIs

LEMMA RandomSound ==
    ASSUME NEW c, Given(c), NEW l, NEW type, l.done \in Nat
    PROVE  Sound(RandomNumbers(c, l, type))
  <1> DEFINE n == RandomChunk(c, l)
             d == [c EXCEPT !.output = Buffer(n)]
  <1>1. c.output.length \in Nat
    BY SizeAssumption DEF Given, Lendable
  <1>2. n \in Int
    <2>1. c.output.length - l.done \in Int /\ MaxRng \in Int
      BY <1>1, SizeAssumption
    <2> QED
      BY <2>1, MinIsInt DEF RandomChunk
  <1> HIDE DEF n
  <1>3. d.output = Buffer(n)
    BY DEF Given
  <1> HIDE DEF d
  <1>4. Fits(<<From("random", d.output)>>) /\ Fits(<<Fixed("subject", 1), Fixed("size", 1)>>)
    BY <1>2, <1>3, BuffersAre, FittingAre, FitsTuple
  <1>5. BothFit(GenerateRandom(d))
    BY <1>4, SharedFit, FitsConcat, ServiceFits DEF GenerateRandom
  <1> QED
    BY <1>5, SoundIs DEF RandomNumbers, d, n

\* The API functions, one exchange after the other.
LEMMA KeyCallsSound ==
    ASSUME NEW c, Given(c), NEW l, NEW type,
           c.op = "ecc_generate_signature" /\ type = "L010" => c.key_type \in KeyTypes
    PROVE  /\ c.key_type # "CURVE25519" => Sound(EccVerifySignatureApi(c, l))
           /\ c.op = "ecc_generate_signature" => Sound(EccGenerateSignatureApi(c, l, type))
           /\ Sound(EccEstablishSharedSecretApi(c, l)) /\ Sound(EccDecompressPublicKeyApi(c, l))
           /\ Sound(GetEccKeySlotsCount(c, l)) /\ Sound(GetEccKeyTableInfo(c, l))
           /\ c.key_type # "ED25519" => Sound(GenerateEcdheKeyPairApi(c, l))
           /\ Sound(GenerateEccKeyPairApi(c, l)) /\ Sound(WriteGenericEccPublicKeyApi(c, l))
  <1>1. c.message \in Lendable /\ c.slot_count \in Nat
    BY DEF Given
  <1>2. c.key_type # "CURVE25519" => Sound(EccVerifySignatureApi(c, l))
    BY <1>1, EccFits, SoundIs DEF EccVerifySignatureApi
  <1>3. c.op = "ecc_generate_signature" => Sound(EccGenerateSignatureApi(c, l, type))
    <2>1. BothFit(EccGenerateSignature(c))
      BY <1>1, EccFits
    <2>2. c.key_type \in KeyTypes => BothFit(LEccGenerateSignature(c))
      BY LServicesSound
    <2> DEFINE service == IF type = "L010" THEN LEccGenerateSignature(c) ELSE EccGenerateSignature(c)
    <2>3. c.op = "ecc_generate_signature" => BothFit(service)
      BY <2>1, <2>2
    <2> HIDE DEF service
    <2> QED
      BY <2>3, SoundIs DEF EccGenerateSignatureApi, service
  <1>4. Sound(EccEstablishSharedSecretApi(c, l)) /\ Sound(EccDecompressPublicKeyApi(c, l))
    BY <1>1, EccFits, SoundIs DEF EccEstablishSharedSecretApi, EccDecompressPublicKeyApi
  <1>5. Sound(GetEccKeySlotsCount(c, l)) /\ Sound(GetEccKeyTableInfo(c, l))
    BY <1>1, SlotFits, TableFits, SoundIs
    DEF GetEccKeySlotsCount, GetEccKeyTableInfo, QueryPrivateKeySlotsCount
  <1>6. c.key_type # "ED25519" => Sound(GenerateEcdheKeyPairApi(c, l))
    BY <1>1, EccFits, SoundIs DEF GenerateEcdheKeyPairApi
  <1>7. Sound(GenerateEccKeyPairApi(c, l)) /\ Sound(WriteGenericEccPublicKeyApi(c, l))
    BY <1>1, EccFits, SoundIs DEF GenerateEccKeyPairApi, WriteGenericEccPublicKeyApi
  <1> QED
    BY <1>2, <1>3, <1>4, <1>5, <1>6, <1>7

LEMMA SlotInfoSound ==
    ASSUME NEW c, Given(c), NEW l, l.count \in Nat
    PROVE  Sound(GetEccKeySlotInfo(c, l)) /\ Sound(GetSymmetricKeySlotInfo(c, l))
  <1> DEFINE d == [c EXCEPT !.slot_count = l.count]
             e == [c EXCEPT !.slot_count = l.count, !.output = Buffer(1)]
             f == [c EXCEPT !.output = Buffer(1)]
  <1>1. d.slot_count = l.count /\ e.slot_count = l.count
    BY DEF Given
  <1> HIDE DEF d, e, f
  <1>2. BothFit(QueryPrivateKeyTable(d)) /\ BothFit(QuerySymmetricKeyTable(e))
    BY <1>1, TableFits
  <1>3. BothFit(QueryCount(c)) /\ BothFit(QueryCount(f))
    BY SlotFits
  <1>4. Sound(GetEccKeySlotInfo(c, l))
    BY <1>2, <1>3, SoundIs DEF GetEccKeySlotInfo, d
  <1>5. Sound(GetSymmetricKeySlotInfo(c, l))
    BY <1>2, <1>3, SoundIs DEF GetSymmetricKeySlotInfo, e, f
  <1> QED
    BY <1>4, <1>5

LEMMA SymmetricKeySound ==
    ASSUME NEW c, Given(c), c.op \in SymmetricKeyCalls,
           c.op = "write_symmetric_key_plaintext" =>
               /\ c.infos # << >>
               /\ ~c.message.null =>
                    /\ c.symmetric_type = "GENERIC" => c.secret_length \in 0..c.message.length
                    /\ c.symmetric_type \in DOMAIN PlaintextLength =>
                          c.message.length >= PlaintextLength[c.symmetric_type]
    PROVE  BothFit(SymmetricKeyApi(c))
  <1> DEFINE d == [c EXCEPT !.slot_count = c.slot_count % Byte]
  <1>1. c.message \in Lendable /\ c.infos \in Seq(Nat) /\ c.slot_count \in Nat
    BY DEF Given
  <1>2. d.slot_count = c.slot_count % Byte
    BY DEF Given
  <1> HIDE DEF d
  <1>3. BothFit(QuerySymmetricKeyTable(d))
    BY <1>1, <1>2, ByteLess, TableFits
  <1>4. BothFit(QuerySymmetricKeySlotsCount(c))
    BY SlotFits DEF QuerySymmetricKeySlotsCount
  <1>5. c.op = "write_symmetric_key_plaintext" => BothFit(WriteSymmetricKeyPlaintext(c))
    BY <1>1, ValueFits
  <1> QED
    BY <1>3, <1>4, <1>5, SlotFits DEF SymmetricKeyCalls, SymmetricKeyApi, d

LEMMA DerivationsSound ==
    ASSUME NEW c, Given(c), NEW l
    PROVE  /\ Sound(DeriveKey(c, l)) /\ Sound(DeriveKeySimple(c, l)) /\ Sound(DeriveKeyExtract(c, l))
           /\ Sound(DeriveKeyExpand(c, l)) /\ Sound(DeriveSessionKeys(c, l))
           /\ c.infos # << >> => Sound(DeriveKeyToSlot(c, l))
           /\ Sound(DeriveKeyExpandMultiple(c, l)) /\ Sound(DeriveKeyFromIkm(c, l))
           /\ BothFit(DeriveKeys(c))
  <1> DEFINE Taken == {"input_null", "output", "input", "extract", "expand", "salt_null", "salt", "info",
                       "okm_null", "okm"}
  <1>1. /\ Taken \cup {"salt_data", "context"} \subseteq DOMAIN c
        /\ c.message \in Lendable /\ c.output \in Lendable /\ c.tag \in Lendable
        /\ c.salt_data \in Lendable /\ c.context \in Lendable /\ c.infos \in Seq(Nat)
        /\ OutputsFit(c.okm)
    BY DEF Given
  <1>2. FromSlot.slot /\ \A b : FromCommand(b).buffer = b
    BY DEF FromSlot, FromCommand
  <1>3. \A b \in Lendable : OutputsFit(<<InResponse(b)>>)
    <2>1. \A b \in Lendable : OutputFits(InResponse(b))
      BY SizeAssumption DEF OutputFits, InResponse, Lendable
    <2>2. \A k : OutputFits(k) => OutputsFit(<<k>>)
      BY DEF OutputsFit
    <2> QED
      BY <2>1, <2>2
  <1>4. ASSUME NEW d, Taken \subseteq DOMAIN d, d.salt_data \in Lendable, d.context \in Lendable,
               d.output \in Lendable
        PROVE  /\ BothFit(Derivation(d, FromSlot, TRUE, TRUE, <<InResponse(d.output)>>))
               /\ BothFit(Extraction(d))
               /\ \A b \in Lendable : BothFit(Expansion(d, b))
    <2>1. BothFit(Derivation(d, FromSlot, TRUE, TRUE, <<InResponse(d.output)>>))
      BY <1>2, <1>3, <1>4, DerivationFits
    <2>2. BothFit(Extraction(d))
      BY <1>2, <1>4, DerivationFits DEF Extraction
    <2>3. ASSUME NEW b \in Lendable PROVE BothFit(Expansion(d, b))
      BY <1>2, <1>3, <1>4, <2>3, DerivationFits DEF Expansion
    <2> QED
      BY <2>1, <2>2, <2>3
  <1>5. Sound(DeriveKey(c, l)) /\ Sound(DeriveKeyExtract(c, l)) /\ Sound(DeriveKeyExpand(c, l))
    BY <1>1, <1>4, SoundIs DEF DeriveKey, DeriveKeyExtract, DeriveKeyExpand
  <1>6. Sound(DeriveKeySimple(c, l))
    <2> DEFINE d == [c EXCEPT !.salt_data = Null]
    <2>1. Taken \subseteq DOMAIN d /\ d.salt_data = Null /\ d.context = c.context /\ d.output = c.output
      BY <1>1
    <2> HIDE DEF d
    <2>2. Sound(DeriveKey(d, l))
      BY <1>1, <1>4, <2>1, BuffersAre, SoundIs DEF DeriveKey
    <2> QED
      BY <2>2 DEF DeriveKeySimple, d
  <1>7. Sound(DeriveSessionKeys(c, l))
    <2> DEFINE named == [c EXCEPT !.context = Buffer(3)]
               salted == [c EXCEPT !.salt_data = Buffer(SessionIdSize)]
    <2>1. /\ Taken \subseteq DOMAIN named /\ named.context = Buffer(3) /\ named.salt_data = c.salt_data
          /\ named.output = c.output
          /\ Taken \subseteq DOMAIN salted /\ salted.context = c.context
          /\ salted.salt_data = Buffer(SessionIdSize) /\ salted.output = c.output
      BY <1>1
    <2> HIDE DEF named, salted
    <2>2. Buffer(3) \in Lendable /\ Buffer(SessionIdSize) \in Lendable
      <3>1. 3 \in 0..(Word - 1) /\ SessionIdSize \in 0..(Word - 1)
        BY TableAssumption, SizeAssumption
      <3> QED
        BY <3>1, BuffersAre
    <2>3. BothFit(Extraction(salted))
      BY <1>1, <1>4, <2>1, <2>2
    <2>4. BothFit(Expansion(named, c.output)) /\ BothFit(Expansion(named, c.tag))
      BY <1>1, <1>4, <2>1, <2>2
    <2> QED
      BY <2>3, <2>4, SoundIs DEF DeriveSessionKeys, named, salted
  <1>8. c.infos # << >> => Sound(DeriveKeyToSlot(c, l))
    <2> SUFFICES ASSUME c.infos # << >> PROVE Sound(DeriveKeyToSlot(c, l))
      OBVIOUS
    <2>1. Head(c.infos) \in Nat
      BY <1>1
    <2>2. OutputFits(InSlot(c))
      BY <2>1 DEF OutputFits, InSlot
    <2>3. OutputsFit(<<InSlot(c)>>)
      BY <2>2 DEF OutputsFit
    <2>4. BothFit(Derivation(c, FromSlot, TRUE, TRUE, <<InSlot(c)>>))
      BY <1>1, <1>2, <2>3, DerivationFits
    <2> QED
      BY <2>4, SoundIs DEF DeriveKeyToSlot
  <1>9. Sound(DeriveKeyExpandMultiple(c, l))
    <2>1. BothFit(Derivation(c, FromSlot, FALSE, TRUE, c.okm))
      BY <1>1, <1>2, DerivationFits
    <2> QED
      BY <2>1, SoundIs DEF DeriveKeyExpandMultiple
  <1>10. Sound(DeriveKeyFromIkm(c, l))
    <2>1. BothFit(Derivation(c, FromCommand(c.message), TRUE, TRUE, <<InResponse(c.output)>>))
      BY <1>1, <1>2, <1>3, DerivationFits
    <2> QED
      BY <2>1, SoundIs DEF DeriveKeyFromIkm
  <1>11. BothFit(DeriveKeys(c))
    <2>1. c.input.buffer \in Lendable /\ c.salt.buffer \in Lendable /\ c.info \in Lendable
      BY DEF Given
    <2> QED
      BY <1>1, <2>1, DeriveFits
  <1> QED
    BY <1>5, <1>6, <1>7, <1>8, <1>9, <1>10, <1>11

LEMMA DeviceCallsSound ==
    ASSUME NEW c, Given(c), NEW l, NEW type
    PROVE  /\ Sound(InitHandle(c, l, type)) /\ Sound(DeviceEnterHibernate(c, l, type))
           /\ c.op \in {"device_power_on", "device_power_off"} => Sound(DevicePower(c, l))
           /\ Sound(DeviceEcho(c, l, type)) /\ Sound(DeviceReset(c, l, type))
           /\ Sound(DeviceLock(c, l, type)) /\ Sound(DeviceUnlock(c, l, type))
           /\ Sound(DeviceGetLifeCycleState(c, l, type)) /\ Sound(PutI2CParametersApi(c, l))
  <1>1. c.message \in Lendable /\ c.output \in Lendable /\ c.password \in Lendable
    BY DEF Given
  <1>2. Sound(InitHandle(c, l, type))
    <2>1. BothFit(Service(FALSE, Header \o Tag, Answer))
      BY SharedFit, FitsConcat, ServiceFits
    <2>2. Sound([kind |-> "platform"])
      BY DEF Sound
    <2> QED
      BY <2>1, <2>2, DeviceFits, SoundIs DEF InitHandle
  <1>3. Sound(DeviceEnterHibernate(c, l, type)) /\ Sound(DeviceReset(c, l, type))
    <2>1. BothFit(IF type = "L010" THEN LHibernate ELSE Hibernate)
          /\ BothFit(IF type = "L010" THEN LReset ELSE Reset)
      BY DeviceFits, LServicesSound
    <2> QED
      BY <2>1, SoundIs DEF DeviceEnterHibernate, DeviceReset
  <1>4. Sound(DevicePower(c, l))
    <2>1. Sound([kind |-> "power"])
      BY DEF Sound
    <2> QED
      BY <2>1, SoundIs DEF DevicePower
  <1>5. Sound(DeviceEcho(c, l, type))
    BY <1>1, EnvelopeFits, LServicesSound, SoundIs DEF DeviceEcho
  <1>6. ASSUME NEW tries, NEW command PROVE Sound(ChangeLifeCycle(c, l, type, tries, command))
    <2> DEFINE d == [c EXCEPT !.verification = Buffer(1), !.tries = tries]
    <2>1. d.password = c.password
      OBVIOUS
    <2> HIDE DEF d
    <2>2. BothFit(VerifyPassword(d))
      BY <1>1, <2>1, DeviceFits
    <2> QED
      BY <2>2, DeviceFits, SoundIs DEF ChangeLifeCycle, d
  <1>7. Sound(DeviceLock(c, l, type)) /\ Sound(DeviceUnlock(c, l, type))
    BY <1>6 DEF DeviceLock, DeviceUnlock
  <1>8. Sound(DeviceGetLifeCycleState(c, l, type)) /\ Sound(PutI2CParametersApi(c, l))
    BY DeviceFits, SoundIs DEF DeviceGetLifeCycleState, PutI2CParametersApi
  <1> QED
    BY <1>2, <1>3, <1>4, <1>5, <1>7, <1>8

LEMMA ProvisionedFits ==
    ASSUME NEW c, c.message \in Lendable,
           ~c.message.null /\ c.host_key_type # "INVALID" =>
                 /\ c.host_key_type \in DOMAIN HostKeySize
                 /\ c.message.length >= HostKeySize[c.host_key_type]
    PROVE  BothFit(HostKeyProvisioning(c))
  BY ValueFits

LEMMA WrappedFits ==
    ASSUME NEW c, c.message \in Lendable,
           ~c.message.null /\ c.host_key_type # "INVALID" =>
                 /\ c.host_key_type \in DOMAIN HostKeySize
                 /\ c.message.length >= HostKeySize[c.host_key_type] + 16
    PROVE  BothFit(HostKeyProvisioningWrapped(c))
  BY ValueFits

\* The calls that may go past a buffer.
Exempt(c) ==
    \/ c.op \in {"ecc_verify_signature", "query_generic_public_key_slot_value"}
          /\ c.key_type = "CURVE25519"
    \/ c.op \in EphemeralKeys /\ c.key_type = "ED25519"
    \/ c.op = "generate_ecdhe_key_pair" /\ c.key_type = "ED25519"
    \/ c.op = "aes_ccm_decrypt_start"

\* The services of one exchange without an API function of their own.
LEMMA DirectFits ==
    ASSUME NEW type \in DOMAIN Calls, NEW c \in Calls[type], ~Exempt(c),
           c.op \in DirectCalls
    PROVE  BothFit(DirectService(c))
  <1>1. Given(c)
    BY GivenCalls
  <1>2. c.message \in Lendable /\ c.output \in Lendable /\ c.infos \in Seq(Nat)
    BY <1>1 DEF Given
  <1>3. c.op \in EphemeralKeys => c.key_type # "ED25519"
    BY DEF Exempt
  <1>4. c.op = "start_volatile_kek_session" => BothFit(StartVolatileKekSession(c))
    BY <1>3, AgreementFits DEF EphemeralKeys
  <1>5. c.op = "start_volatile_kek_session_authenticated" =>
           BothFit(StartVolatileKekSessionAuthenticated(c))
    BY <1>3, AgreementFits DEF EphemeralKeys
  <1>6. c.op = "establish_symmetric_key" => BothFit(EstablishSymmetricKey(c))
    BY <1>3, AgreementFits DEF EphemeralKeys
  <1>7. c.op = "establish_symmetric_key_authenticated" => BothFit(EstablishSymmetricKeyAuthenticated(c))
    BY <1>3, AgreementFits, CallerAssumption DEF EphemeralKeys
  <1>8. c.op = "establish_host_key" => BothFit(EstablishHostKey(c))
    BY <1>3, AgreementFits DEF EphemeralKeys
  <1>9. c.op = "establish_host_key_authenticated" => BothFit(EstablishHostKeyAuthenticated(c))
    BY <1>3, AgreementFits DEF EphemeralKeys
  <1>10. c.op = "query_generic_public_key_slot_value" => BothFit(QueryGenericPublicKeySlotValue(c))
    BY <1>2, EccFits DEF Exempt
  <1>11. c.op = "host_key_provisioning" => BothFit(HostKeyProvisioning(c))
    <2> SUFFICES ASSUME c.op = "host_key_provisioning" PROVE BothFit(HostKeyProvisioning(c))
      OBVIOUS
    <2>1. ~c.message.null /\ c.host_key_type # "INVALID" =>
             /\ c.host_key_type \in DOMAIN HostKeySize
             /\ c.message.length >= HostKeySize[c.host_key_type] + 0
      BY CallerAssumption
    <2>2. c.host_key_type \in DOMAIN HostKeySize =>
             HostKeySize[c.host_key_type] + 0 = HostKeySize[c.host_key_type]
      BY TableAssumption
    <2>3. ~c.message.null /\ c.host_key_type # "INVALID" =>
             /\ c.host_key_type \in DOMAIN HostKeySize
             /\ c.message.length >= HostKeySize[c.host_key_type]
      BY <2>1, <2>2
    <2> QED
      BY <1>2, <2>3, ProvisionedFits
  <1>12. c.op = "host_key_provisioning_wrapped" => BothFit(HostKeyProvisioningWrapped(c))
    <2> SUFFICES ASSUME c.op = "host_key_provisioning_wrapped" PROVE BothFit(HostKeyProvisioningWrapped(c))
      OBVIOUS
    <2>1. ~c.message.null /\ c.host_key_type # "INVALID" =>
             /\ c.host_key_type \in DOMAIN HostKeySize
             /\ c.message.length >= HostKeySize[c.host_key_type] + 16
      BY CallerAssumption
    <2> QED
      BY <1>2, <2>1, WrappedFits
  <1>13. /\ BothFit(WrapPayload(c)) /\ BothFit(UnwrapPayload(c)) /\ BothFit(GenerateChallenge(c))
         /\ BothFit(VerifyEntitySignature(c)) /\ BothFit(DeletePassword) /\ BothFit(QueryI2CParameters(c))
         /\ BothFit(StopVolatileKekSession) /\ BothFit(QueryGenericPublicKeySlotsCount(c))
         /\ BothFit(QueryGenericPublicKeySlotInfo(c))
         /\ BothFit(SetGenericPublicSlotConfigurationFlag) /\ BothFit(Patch)
    BY <1>2, EnvelopeFits, EccFits, DeviceFits, SlotFits DEF QueryGenericPublicKeySlotsCount
  <1>14. /\ BothFit(ConfirmSymmetricKey(c)) /\ BothFit(WriteSymmetricKeyWrapped(c))
         /\ BothFit(GenerateWrapUnwrapKey) /\ BothFit(EraseSymmetricKeySlot)
         /\ BothFit(QueryHostKeyProvisioningCtrlFields(c)) /\ BothFit(PutHostKeyProvisioningCtrlFields(c))
         /\ BothFit(QueryHostKey(c)) /\ BothFit(QueryHostKeyV2(c)) /\ BothFit(PutAttributeHostKey(c))
         /\ BothFit(DeriveKeys(c)) /\ BothFit(LGetData(c)) /\ BothFit(LPutData(c))
    BY <1>1, <1>2, ConfirmationFits, ValueFits, SlotFits, DerivationsSound, LServicesSound
  <1> QED
    BY <1>4, <1>5, <1>6, <1>7, <1>8, <1>9, <1>10, <1>11, <1>12, <1>13, <1>14
    DEF DirectService, DirectCalls, EphemeralKeys

LEMMA HashApiSound ==
    ASSUME NEW type \in DOMAIN Calls, NEW c \in Calls[type], NEW l, l.done \in Nat
    PROVE  /\ c.op = "compute_hash" => Sound(ComputeHash(c, l, type))
           /\ c.op \in HashCalls => Sound(OnceChecked(HashApiRefused(c), c, l, HashApi(c)))
  <1>1. Given(c)
    BY GivenCalls
  <1>2. c.op \in {"finish_hash", "compute_hash"} => c.algorithm \in DOMAIN DigestSize
    BY CallerAssumption
  <1> QED
    BY <1>1, <1>2, HashSound

LEMMA SymmetricCallSound ==
    ASSUME NEW type \in DOMAIN Calls, NEW c \in Calls[type], NEW l, c.op \in SymmetricKeyCalls
    PROVE  Sound(Once(c, l, SymmetricKeyApi(c)))
  <1>1. Given(c)
    BY GivenCalls
  <1>2. c.op = "write_symmetric_key_plaintext" =>
               /\ c.infos # << >>
               /\ ~c.message.null =>
                    /\ c.symmetric_type = "GENERIC" => c.secret_length \in 0..c.message.length
                    /\ c.symmetric_type \in DOMAIN PlaintextLength =>
                          c.message.length >= PlaintextLength[c.symmetric_type]
    BY CallerAssumption
  <1>3. BothFit(SymmetricKeyApi(c))
    BY <1>1, <1>2, SymmetricKeySound
  <1> QED
    BY <1>3, SoundIs

\* stse_init is called before the type is known: its frames do not depend on it.
LEMMA InitSound ==
    ASSUME NEW c, NEW l, NEW type
    PROVE  Sound(InitHandle(c, l, type))
  <1>1. BothFit(Service(FALSE, Header \o Tag, Answer))
    BY SharedFit, FitsConcat, ServiceFits
  <1>2. Sound([kind |-> "platform"])
    BY DEF Sound
  <1> QED
    BY <1>1, <1>2, DeviceFits, SoundIs DEF InitHandle

\* Whatever a call sends is inside its buffers, at each of its exchanges.
LEMMA StepSound ==
    ASSUME NEW type \in DOMAIN Calls, NEW c, NEW l,
           c.op # "init" => c \in Calls[type], ~Exempt(c), l.done \in Nat, l.count \in Nat
    PROVE  Sound(Step(c, l, type))
  <1>1. CASE c.op = "init"
    <2>1. Sound(InitHandle(c, l, type)) /\ Sound(Finish("HANDLER_NOT_INITIALISED"))
      BY SoundIs, InitSound
    <2> QED
      BY <1>1, <2>1 DEF Step, EcbAndCcm, CcmDecryption, GcmEncryption, GcmDecryption, MacCalls,
         HashCalls, SymmetricKeyCalls
  <1>2. CASE c.op # "init"
    <2>0. c \in Calls[type] /\ Given(c)
      BY <1>2, GivenCalls
    <2>1. /\ c.op \in EcbAndCcm => Sound(Once(c, l, AesEcbAndCcmEncryption(c)))
          /\ c.op \in CcmDecryption => Sound(Once(c, l, AesCcmDecryption(c)))
          /\ c.op \in GcmEncryption => Sound(Once(c, l, AesGcmEncryption(c)))
          /\ c.op \in GcmDecryption => Sound(Once(c, l, AesGcmDecryption(c)))
          /\ c.op \in MacCalls => Sound(Once(c, l, Mac(c)))
      BY <2>0, CipherCallsFit, SoundIs DEF Exempt
    <2>2. /\ c.op \in HashCalls => Sound(OnceChecked(HashApiRefused(c), c, l, HashApi(c)))
          /\ c.op \in SymmetricKeyCalls => Sound(Once(c, l, SymmetricKeyApi(c)))
          /\ c.op = "compute_hash" => Sound(ComputeHash(c, l, type))
          /\ c.op = "generate_random" => Sound(RandomNumbers(c, l, type))
      BY <2>0, HashApiSound, SymmetricCallSound, RandomSound
    <2>3. /\ c.op = "ecc_verify_signature" => Sound(EccVerifySignatureApi(c, l))
          /\ c.op = "ecc_generate_signature" => Sound(EccGenerateSignatureApi(c, l, type))
          /\ Sound(EccEstablishSharedSecretApi(c, l)) /\ Sound(EccDecompressPublicKeyApi(c, l))
          /\ Sound(GetEccKeySlotsCount(c, l)) /\ Sound(GetEccKeyTableInfo(c, l))
          /\ c.op = "generate_ecdhe_key_pair" => Sound(GenerateEcdheKeyPairApi(c, l))
          /\ Sound(GenerateEccKeyPairApi(c, l)) /\ Sound(WriteGenericEccPublicKeyApi(c, l))
      <3>1. c.op = "ecc_generate_signature" /\ type = "L010" => c.key_type \in KeyTypes
        BY <2>0, CallerAssumption
      <3>2. /\ c.op = "ecc_verify_signature" => c.key_type # "CURVE25519"
            /\ c.op = "generate_ecdhe_key_pair" => c.key_type # "ED25519"
        BY DEF Exempt
      <3> QED
        BY <2>0, <3>1, <3>2, KeyCallsSound
    <2>4. Sound(GetEccKeySlotInfo(c, l)) /\ Sound(GetSymmetricKeySlotInfo(c, l))
      BY <2>0, SlotInfoSound
    <2>5. /\ Sound(DeriveKey(c, l)) /\ Sound(DeriveKeySimple(c, l)) /\ Sound(DeriveKeyExtract(c, l))
          /\ Sound(DeriveKeyExpand(c, l)) /\ Sound(DeriveSessionKeys(c, l))
          /\ c.op = "derive_key_to_slot" => Sound(DeriveKeyToSlot(c, l))
          /\ Sound(DeriveKeyExpandMultiple(c, l)) /\ Sound(DeriveKeyFromIkm(c, l))
      <3>1. c.op = "derive_key_to_slot" => c.infos # << >>
        BY <2>0, CallerAssumption
      <3> QED
        BY <2>0, <3>1, DerivationsSound
    <2>6. /\ Sound(DeviceEnterHibernate(c, l, type))
          /\ c.op \in {"device_power_on", "device_power_off"} => Sound(DevicePower(c, l))
          /\ Sound(DeviceEcho(c, l, type)) /\ Sound(DeviceReset(c, l, type))
          /\ Sound(DeviceLock(c, l, type)) /\ Sound(DeviceUnlock(c, l, type))
          /\ Sound(DeviceGetLifeCycleState(c, l, type)) /\ Sound(PutI2CParametersApi(c, l))
          /\ Sound(LWakeup(c, l)) /\ Sound(Finish("HANDLER_NOT_INITIALISED"))
      BY <2>0, DeviceCallsSound, LServicesSound, SoundIs
    <2>7. c.op \in DirectCalls => Sound(Once(c, l, DirectService(c)))
      BY <2>0, DirectFits, SoundIs
    <2>8. c.op \in ComposedCalls \cup DirectCalls
      BY <2>0, FunctionAssumption
    <2> QED
      BY <1>2, <2>1, <2>2, <2>3, <2>4, <2>5, <2>6, <2>7, <2>8 DEF Step, ComposedCalls
  <1> QED
    BY <1>1, <1>2

-----------------------------------------------------------------------------
(* Every step keeps to the buffers                                         *)

LEMMA FitsInside ==
    ASSUME NEW s, Fits(s)
    PROVE  Inside(s)
  <1>1. PICK T : s \in Seq(T) /\ \A e \in T : Fitting(e)
    BY DEF Fits
  <1>2. \A i \in DOMAIN s : s[i] \in T
    BY <1>1
  <1>3. \A i \in DOMAIN s : Fitting(s[i])
    BY <1>1, <1>2
  <1> HIDE DEF Fitting
  <1> QED
    BY <1>3, Zenon DEF Inside, Fitting

\* The table of the private keys is asked for by two functions.
LEMMA TableSends ==
    ASSUME NEW c, "op" \in DOMAIN c, c.op \in ComposedCalls \cup DirectCalls, NEW l, NEW type,
           Step(c, l, type).kind = "send", Step(c, l, type).command \in PrivateTables
    PROVE  \/ c.op = "get_ecc_key_table_info" /\ l.n = 0
           \/ c.op = "get_ecc_key_slot_info" /\ l.n = 1
  <1>1. Step(c, l, type).command \in Commands(c.op)
    BY ProperStep DEF Proper
  <1>2. c.op # "query_private_key_table"
    BY DEF ComposedCalls, DirectCalls, EcbAndCcm, CcmDecryption, GcmEncryption, GcmDecryption,
           MacCalls, HashCalls, SymmetricKeyCalls, EphemeralKeys
  <1>3. c.op \in {"get_ecc_key_table_info", "get_ecc_key_slot_info"}
    BY <1>1, <1>2 DEF Commands, PrivateTables, HashCalls
  <1>4. Step(c, l, type) # Finish("HANDLER_NOT_INITIALISED")
    BY SendKind
  <1>5. CASE c.op = "get_ecc_key_table_info"
    <2>1. Step(c, l, type) = GetEccKeyTableInfo(c, l)
      BY <1>4, <1>5 DEF Step, EcbAndCcm, CcmDecryption, GcmEncryption, GcmDecryption,
                        MacCalls, HashCalls, SymmetricKeyCalls
    <2>2. l.n # 0 => GetEccKeyTableInfo(c, l).kind = "return"
      BY SendKind DEF GetEccKeyTableInfo, OnceChecked, Checked, Once
    <2> QED
      BY <1>5, <2>1, <2>2
  <1>6. CASE c.op = "get_ecc_key_slot_info"
    <2>1. Step(c, l, type) = GetEccKeySlotInfo(c, l)
      BY <1>4, <1>6 DEF Step, EcbAndCcm, CcmDecryption, GcmEncryption, GcmDecryption,
                        MacCalls, HashCalls, SymmetricKeyCalls
    <2>2. \/ GetEccKeySlotInfo(c, l).kind = "return"
          \/ GetEccKeySlotInfo(c, l).command = "query_private_key_slots_count"
          \/ l.n = 1
      BY SendKind DEF GetEccKeySlotInfo
    <2> QED
      BY <1>6, <2>1, <2>2 DEF PrivateTables
  <1> QED
    BY <1>3, <1>5, <1>6

LEMMA DoneIsNat ==
    ASSUME Shape, Fields, RandomInv, HashInv, DoneInv
    PROVE  local.done \in Nat
  <1>1. CASE phase = "idle"
    BY <1>1 DEF Shape, NoLocal
  <1>2. CASE phase # "idle"
    <2>1. call.message.length \in Nat /\ call.output.length \in Nat
      BY <1>2, ArgumentsAre, SizeAssumption
    <2> QED
      BY <1>2, <2>1 DEF RandomInv, HashInv, DoneInv
  <1> QED
    BY <1>1, <1>2

\* Between two exchanges.
LEMMA LendRest ==
    ASSUME Fields, LendInv, phase # "idle", call' = call, ~OnTheWay',
           handle'.type = handle.type \/ call.op = "init",
           \/ local' = local
           \/ local' = [local EXCEPT !.platform = TRUE]
           \/ \E v, k \in Nat : local' = [local EXCEPT !.n = v, !.count = k]
    PROVE  LendInv'
  <1>1. DOMAIN local = DOMAIN NoLocal
    BY DEF Fields
  <1>2. /\ {local'.count, local'.wrote, local'.room} \subseteq Nat
        /\ local'.wrote = local.wrote /\ local'.room = local.room
    <2>1. local.count \in Nat /\ local.wrote \in Nat /\ local.room \in Nat
      BY DEF LendInv
    <2>2. {"n", "count", "wrote", "room", "platform"} \subseteq DOMAIN local
      BY <1>1 DEF NoLocal
    <2>3. /\ local'.count \in Nat
          /\ local'.wrote = local.wrote /\ local'.room = local.room
      BY <2>1, <2>2
    <2> QED
      BY <2>1, <2>3
  <1>3. PastTable' <=> PastTable
    BY <1>2 DEF PastTable
  <1> QED
    BY <1>2, <1>3 DEF LendInv

\* The count, the size of the table and what was asked of it, after an answer.
LEMMA AfterTable ==
    ASSUME Fields
    PROVE  /\ After.count = IF cmd.command \in Counts THEN reply.number ELSE local.count
           /\ IF cmd.command \in PrivateTables \cup SymmetricTables
              THEN After.wrote = SlotCount /\ After.room = Asked
              ELSE After.wrote = local.wrote /\ After.room = local.room
  <1> DEFINE l == [local EXCEPT !.n = Min({@ + 1, 3})]
  <1>1. /\ DOMAIN l = DOMAIN NoLocal /\ l.count = local.count
        /\ l.wrote = local.wrote /\ l.room = local.room
    BY DEF Fields, NoLocal
  <1>2. CASE cmd.command \in PrivateTables \cup SymmetricTables
    <2>1. After = [l EXCEPT !.wrote = SlotCount, !.room = Asked]
      BY <1>2 DEF After, Counts, PrivateTables, SymmetricTables
    <2>2. cmd.command \notin Counts
      BY <1>2 DEF Counts, PrivateTables, SymmetricTables
    <2> HIDE DEF l
    <2> QED
      BY <1>1, <1>2, <2>1, <2>2 DEF NoLocal
  <1>3. CASE cmd.command \in Counts
    <2>0. /\ cmd.command \notin {"start_hash", "process_hash"} /\ cmd.command # "finish_hash"
          /\ cmd.command # "generate_random" /\ cmd.command # "verify_password"
          /\ cmd.command \notin PrivateTables \cup SymmetricTables
          /\ cmd.command \notin {"query_mask_id", "extract", "expand_enc", "expand_mac"}
      BY <1>3 DEF Counts, PrivateTables, SymmetricTables
    <2> DEFINE m == [l EXCEPT !.count = reply.number]
    <2>1. After = m
      BY <1>3, <2>0 DEF After
    <2> HIDE DEF l
    <2> QED
      BY <1>1, <1>3, <2>0, <2>1 DEF NoLocal
  <1>4. CASE cmd.command \notin PrivateTables \cup SymmetricTables \cup Counts
    <2>1. \/ After = l
          \/ \E v : After = [l EXCEPT !.done = v]
          \/ \E v, w : After = [l EXCEPT !.finished = v, !.covered = w]
          \/ \E v, w : After = [l EXCEPT !.done = v, !.covered = w]
          \/ \E v : After = [l EXCEPT !.verdict = v]
          \/ \E v : After = [l EXCEPT !.mask = v]
          \/ \E v : After = [l EXCEPT !.prk = v]
          \/ \E v : After = [l EXCEPT !.enc = v]
          \/ \E v : After = [l EXCEPT !.mac = v]
      BY <1>4 DEF After, l
    <2> HIDE DEF l
    <2>2. After.count = local.count /\ After.wrote = local.wrote /\ After.room = local.room
      BY <1>1, <2>1 DEF NoLocal
    <2> QED
      BY <1>4, <2>2
  <1> QED
    BY <1>2, <1>3, <1>4

\* An answer that is accepted does not go past the table, but for PastTable.
LEMMA LendDelivered ==
    ASSUME Shape, Fields, Typed, LendInv, phase = "answered", ~WrongTable, local' = After,
           call' = call, ~OnTheWay', handle'.type = handle.type \/ call.op = "init"
    PROVE  LendInv'
  <1>1. local.count \in Nat /\ local.wrote \in Nat /\ local.room \in Nat /\ reply.number \in Nat
        /\ SlotCount \in Nat
    BY SizeAssumption DEF LendInv, Typed
  <1>2. After.count \in Nat
    BY <1>1, AfterTable
  <1>3. Asked \in Nat
    <2>1. \E type \in DOMAIN Calls : call \in Calls[type]
      BY <1>1 DEF Fields
    <2>2. call.slot_count \in Nat /\ Byte \in Nat \ {0}
      BY <2>1, BufferAssumption, TableAssumption
    <2>3. call.slot_count % Byte \in Nat
      BY <2>2
    <2> QED
      BY <1>1, <2>3 DEF Asked
  <1>4. After.wrote \in Nat /\ After.room \in Nat
    BY <1>1, <1>3, AfterTable
  <1>5. CASE cmd.command \in PrivateTables
    <2>1. After.wrote = SlotCount /\ After.room = Asked
      BY <1>5, AfterTable
    <2>2. AsksTable
      BY <1>5 DEF LendInv, OnTheWay
    <2>3. CASE call.op = "get_ecc_key_slot_info"
      BY <2>1, <2>3, <1>2, <1>4 DEF LendInv, PastTable
    <2>4. CASE call.op = "get_ecc_key_table_info"
      <3>1. local.n = 0
        BY <2>2, <2>4 DEF AsksTable
      <3>2. Asked = call.slot_count
        <4>1. \E type \in DOMAIN Calls : call \in Calls[type]
          BY DEF Fields
        <4>2. call.slot_count \in Nat /\ call.slot_count < Byte /\ Byte \in Nat
          BY <2>4, <4>1, BufferAssumption, CallerAssumption, TableAssumption
        <4>3. call.slot_count % Byte = call.slot_count
          BY <4>2, ByteLess
        <4> QED
          BY <3>1, <4>3 DEF Asked
      <3> QED
        BY <2>1, <2>4, <3>2, <1>2, <1>4 DEF LendInv, PastTable
    <2> QED
      BY <2>2, <2>3, <2>4 DEF AsksTable
  <1>6. CASE cmd.command \in SymmetricTables
    <2>1. After.wrote = SlotCount /\ After.room = Asked /\ ~(Asked < SlotCount)
      BY <1>6, AfterTable DEF WrongTable
    <2>2. ~(After.wrote > After.room)
      BY <1>1, <1>3, <2>1
    <2> QED
      BY <2>2, <1>2, <1>4 DEF LendInv
  <1>7. CASE cmd.command \notin PrivateTables \cup SymmetricTables
    <2>1. After.wrote = local.wrote /\ After.room = local.room
      BY <1>7, AfterTable
    <2>2. PastTable' <=> PastTable
      BY <2>1 DEF PastTable
    <2> QED
      BY <1>2, <1>4, <2>1, <2>2 DEF LendInv
  <1> QED
    BY <1>5, <1>6, <1>7

\* The induction step: the frames on the way and the entries of a table.
LEMMA LendStep ==
    ASSUME Shape, Fields, InitInv, SentInv, Typed, RandomInv, HashInv, DoneInv, LendInv, [Next]_vars
    PROVE  LendInv'
  <1> USE DEF OnTheWay
  <1>1. CASE \E c \in Calls[handle.type] : Call(c)
    <2>1. /\ phase = "idle" /\ phase' = "host" /\ call' \in Calls[handle.type]
          /\ UNCHANGED <<handle, local>>
      BY <1>1 DEF Call
    <2>2. local' = NoLocal
      BY <2>1 DEF Shape
    <2> QED
      BY <2>1, <2>2 DEF LendInv, NoLocal
  <1>2. CASE HostReturns \/ PreparesPlatform \/ SwitchesPower
    <2>1. /\ phase = "host" /\ call' = call /\ ~OnTheWay' /\ handle'.type = handle.type
          /\ local' = local \/ local' = [local EXCEPT !.platform = TRUE]
      BY <1>2 DEF HostReturns, PreparesPlatform, SwitchesPower, Returns, Shape
    <2> QED
      BY <2>1, LendRest
  <1>3. ASSUME NEW ret, ExchangeFails(ret), phase # "idle", UNCHANGED <<handle, call>>
        PROVE  LendInv'
    <2>1. ~OnTheWay'
      BY <1>3, FailureIs
    <2>2. \/ local' = local
          \/ \E v, k \in Nat : local' = [local EXCEPT !.n = v, !.count = k]
      <3>1. CASE \E k \in GarbageCounts : local' = [local EXCEPT !.n = @ + 1, !.count = k]
        <4>1. PICK k \in GarbageCounts : local' = [local EXCEPT !.n = @ + 1, !.count = k]
          BY <3>1
        <4>2. local.n + 1 \in Nat /\ k \in Nat
          BY SizeAssumption DEF Shape
        <4>3. local' = [local EXCEPT !.n = local.n + 1, !.count = k]
          BY <4>1
        <4> QED
          BY <4>2, <4>3
      <3> QED
        BY <1>3, <3>1, FailureIs
    <2> QED
      BY <1>3, <2>1, <2>2, LendRest
  <1>4. CASE HostSends
    <2>1. CASE RefusalOf(NextStep.service) = "NONE"
      <3>1. /\ phase = "host" /\ NextStep.kind = "send" /\ cmd' = NextStep
            /\ UNCHANGED <<handle, call, local>>
        BY <1>4, <2>1 DEF HostSends
      <3>2. ~PastBuffers => Inside(NextStep.service.request) /\ Inside(NextStep.service.answer)
        <4> SUFFICES ASSUME ~PastBuffers
                     PROVE  Inside(NextStep.service.request) /\ Inside(NextStep.service.answer)
          OBVIOUS
        <4>1. ~Exempt(call)
          BY DEF PastBuffers, Exempt
        <4>2. handle.type \in DOMAIN Calls
          BY DEF Shape
        <4>3. call.op # "init" => call \in Calls[handle.type]
          BY <3>1 DEF LendInv
        <4>4. local.done \in Nat /\ local.count \in Nat
          BY DoneIsNat DEF LendInv
        <4>5. Sound(NextStep)
          BY <4>1, <4>2, <4>3, <4>4, StepSound DEF NextStep
        <4> QED
          BY <3>1, <4>5, FitsInside DEF Sound, BothFit
      <3>3. NextStep.command \in PrivateTables => AsksTable
        <4>1. call.op \in ComposedCalls \cup DirectCalls
          BY <3>1, FunctionAssumption DEF Fields
        <4>2. "op" \in DOMAIN call
          BY DEF Shape
        <4> QED
          BY <3>1, <4>1, <4>2, TableSends DEF AsksTable, NextStep
      <3>4. (PastBuffers' <=> PastBuffers) /\ (AsksTable' <=> AsksTable) /\ (PastTable' <=> PastTable)
        BY <3>1 DEF PastBuffers, AsksTable, PastTable
      <3> QED
        BY <3>1, <3>2, <3>3, <3>4 DEF LendInv, Inside
    <2>2. CASE RefusalOf(NextStep.service) # "NONE"
      <3>1. ExchangeFails(RefusalOf(NextStep.service)) /\ phase # "idle" /\ UNCHANGED <<handle, call>>
        BY <1>4, <2>2 DEF HostSends
      <3> QED
        BY <1>3, <3>1
    <2> QED
      BY <2>1, <2>2
  <1>5. CASE Deliver
    <2>1. /\ phase = "answered" /\ call' = call /\ ~OnTheWay'
      BY <1>5 DEF Deliver, Returns
    <2>2. handle'.type = handle.type \/ call.op = "init"
      BY <1>5, <2>1 DEF Deliver, InitInv
    <2>3. CASE WrongTable
      <3>1. local' = local
        BY <1>5, <2>3 DEF Deliver
      <3> QED
        BY <2>1, <2>2, <3>1, LendRest
    <2>4. CASE ~WrongTable
      <3>1. local' = After
        BY <1>5, <2>4 DEF Deliver
      <3> QED
        BY <2>1, <2>2, <2>4, <3>1, LendDelivered
    <2> QED
      BY <2>3, <2>4
  <1>6. CASE Fails
    <2>1. PICK ret : ExchangeFails(ret) /\ phase # "idle" /\ UNCHANGED <<handle, call>>
      BY <1>6 DEF Fails
    <2> QED
      BY <1>3, <2>1
  <1>7. CASE Execute \/ Retransmit \/ PowerLoss \/ OtherTask \/ UNCHANGED vars
    <2>1. /\ UNCHANGED <<handle, call, local, cmd>>
          /\ phase # "idle" => OnTheWay' = OnTheWay /\ phase' # "idle"
          /\ phase = "idle" => phase' = "idle"
      BY <1>7 DEF Execute, Retransmit, PowerLoss, OtherTask, vars
    <2>2. (PastBuffers' <=> PastBuffers) /\ (AsksTable' <=> AsksTable) /\ (PastTable' <=> PastTable)
      BY <2>1 DEF PastBuffers, AsksTable, PastTable
    <2> QED
      BY <2>1, <2>2 DEF LendInv, Inside
  <1>8. CASE Return
    BY <1>8 DEF Return, LendInv, NoLocal
  <1> QED
    BY <1>1, <1>2, <1>4, <1>5, <1>6, <1>7, <1>8 DEF Next, Host

\* Nothing is read or written beyond the buffer that was lent for it, whatever the
\* lengths (InsideBuffers), in any of the calls, for buffers of any size: by the
\* lengths of the parts of every frame, and by what was asked of a table.
THEOREM BuffersKept == Spec => []InsideBuffers
  <1> DEFINE Inv == /\ Shape /\ Fields /\ InitInv /\ SessionInv /\ SentInv /\ Typed
                    /\ RandomInv /\ HashInv /\ DoneInv /\ LendInv
  <1>1. Init => Inv
    <2> SUFFICES ASSUME Init PROVE Inv
      OBVIOUS
    <2>1. Shape /\ Fields /\ Typed
      BY InitShape, FieldsInit, InitTyped
    <2>2. phase = "idle" /\ ~OnTheWay /\ local = NoLocal
      BY DEF Init, OnTheWay
    <2>3. InitInv
      BY DEF Init, InitInv, OnTheWay, NoCall
    <2>4. LendInv
      BY <2>2 DEF LendInv, NoLocal
    <2> QED
      BY <2>1, <2>2, <2>3, <2>4 DEF SessionInv, RandomInv, HashInv, SentInv, DoneInv
  <1>2. Inv /\ [Next]_vars => Inv'
    <2> SUFFICES ASSUME Inv, [Next]_vars PROVE Inv'
      OBVIOUS
    <2>1. Shape' /\ Fields'
      BY NextShape, FieldsStep
    <2>2. InitInv' /\ SessionInv' /\ SentInv' /\ Typed'
      BY InitInvStep, SessionStep, SentStep, TypedStep
    <2>3. RandomInv' /\ HashInv' /\ DoneInv' /\ LendInv'
      BY <2>1, RandomStep, HashStep, DoneStep, LendStep
    <2> QED
      BY <2>1, <2>2, <2>3
  <1>3. Inv => InsideBuffers
    BY DEF LendInv, InsideBuffers, OnTheWay
  <1> QED
    BY <1>1, <1>2, <1>3, PTL DEF Spec

-----------------------------------------------------------------------------
(* Frames whose lengths are announced rightly                              *)

\* The names of the elements that some length announces: an announcement, and
\* the elements between, have other names.
Announceable == {"associated_data", "message", "nonce", "iv", "authentication_tag", "x", "y", "r", "s",
                 "hash_id", "shared_secret", "input", "salt", "info", "destination", "key_length",
                 "lock_indicator", "key_info"}

\* The announcement at i counts the elements up to n, and it is right.
Reaches(s, i, n) ==
    /\ n \in i..Len(s)
    /\ \A j \in (i + 1)..n : s[j].name \in s[i].of
    /\ n < Len(s) => s[n + 1].name \notin s[i].of
RightAt(s, i) == \E n \in Nat : Reaches(s, i, n) /\ s[i].says = TotalLength(SubSeq(s, i + 1, n))
Right(s) == \A i \in 1..Len(s) : s[i].of # {} => RightAt(s, i)

\* Lists that can follow any other: they begin with a name that is not announced.
Unannounced(s) == s = << >> \/ s[1].name \notin Announceable
Typical(s) == \E T : s \in Seq(T) /\ \A e \in T : e.of \subseteq Announceable
Honest(s) == Typical(s) /\ Right(s) /\ Unannounced(s)

\* No announcement stands for an element of this name.
Leaves(s, name) == \E T : s \in Seq(T) /\ \A e \in T : name \notin e.of
\* No announcement at all.
Plain(s) == \E T : s \in Seq(T) /\ \A e \in T : e.of = {}

LEMMA ReachesIs ==
    ASSUME NEW U, NEW s \in Seq(U), NEW i \in 1..Len(s), RightAt(s, i)
    PROVE  s[i].says = Announced(s, i)
  <1>1. PICK n \in Nat : Reaches(s, i, n) /\ s[i].says = TotalLength(SubSeq(s, i + 1, n))
    BY DEF RightAt
  <1> DEFINE Ends == {j \in (i + 1)..Len(s) : s[j].name \notin s[i].of} \cup {Len(s) + 1}
  <1>2. Len(s) \in Nat /\ i \in Nat /\ i <= n /\ n <= Len(s)
    BY <1>1 DEF Reaches
  <1>3. n + 1 \in Ends
    BY <1>1, <1>2 DEF Reaches
  <1>4. \A j \in Ends : j \in Nat /\ n + 1 <= j
    BY <1>1, <1>2 DEF Reaches
  <1> HIDE DEF Ends
  <1>5. Min(Ends) = n + 1
    <2>1. \A x \in Ends : (\A y \in Ends : x <= y) => x = n + 1
      BY <1>2, <1>3, <1>4
    <2>2. \A y \in Ends : n + 1 <= y
      BY <1>4
    <2>3. (CHOOSE x \in Ends : \A y \in Ends : x <= y) = n + 1
      BY <1>3, <2>1, <2>2
    <2> QED
      BY <2>3 DEF Min
  <1>6. Min(Ends) - 1 = n
    BY <1>2, <1>5
  <1> QED
    BY <1>1, <1>6 DEF Announced, Ends

\* In a longer list.
LEMMA RightBefore ==
    ASSUME NEW U, NEW s \in Seq(U), NEW t \in Seq(U), NEW i \in 1..Len(s), RightAt(s, i),
           t # << >> => t[1].name \notin s[i].of
    PROVE  RightAt(s \o t, i)
  <1>1. PICK n \in Nat : Reaches(s, i, n) /\ s[i].says = TotalLength(SubSeq(s, i + 1, n))
    BY DEF RightAt
  <1>2. Len(s) \in Nat /\ Len(t) \in Nat /\ i \in Nat /\ i >= 1 /\ i <= n /\ n <= Len(s)
    BY <1>1 DEF Reaches
  <1>3. Len(s \o t) = Len(s) + Len(t) /\ \A j \in 1..Len(s) : (s \o t)[j] = s[j]
    OBVIOUS
  <1>4. n < Len(s \o t) => (s \o t)[n + 1].name \notin s[i].of
    <2>1. CASE n < Len(s)
      <3>1. n + 1 \in 1..Len(s)
        BY <1>2, <2>1
      <3> QED
        BY <1>1, <1>3, <2>1, <3>1 DEF Reaches
    <2>2. CASE n = Len(s)
      <3>1. CASE t = << >>
        BY <1>2, <1>3, <2>2, <3>1
      <3>2. CASE t # << >>
        <4>1. (s \o t)[Len(s) + 1] = t[1]
          BY <1>2, <3>2
        <4> QED
          BY <2>2, <3>2, <4>1
      <3> QED
        BY <3>1, <3>2
    <2> QED
      BY <1>2, <2>1, <2>2
  <1>5. Reaches(s \o t, i, n)
    <2>1. n \in i..Len(s \o t)
      BY <1>2, <1>3
    <2>2. \A j \in (i + 1)..n : j \in 1..Len(s)
      BY <1>2
    <2>3. \A j \in (i + 1)..n : (s \o t)[j].name \in s[i].of
      BY <1>1, <1>3, <2>2 DEF Reaches
    <2> QED
      BY <1>3, <1>4, <2>1, <2>3 DEF Reaches
  <1>6. SubSeq(s \o t, i + 1, n) = SubSeq(s, i + 1, n)
    <2>1. CASE n = i
      BY <1>2, <2>1, SubSeqEmpty
    <2>2. CASE n # i
      <3>1. i + 1 \in 1..Len(s) /\ n \in 1..Len(s)
        BY <1>2, <2>2
      <3> QED
        BY <3>1, SubSeqOfConcat1
    <2> QED
      BY <2>1, <2>2
  <1> QED
    BY <1>1, <1>3, <1>5, <1>6 DEF RightAt

LEMMA SubSeqSecond ==
    ASSUME NEW U, NEW s \in Seq(U), NEW t \in Seq(U), NEW a \in Nat, NEW b \in Nat,
           1 <= a, a <= b, b <= Len(t)
    PROVE  SubSeq(s \o t, Len(s) + a, Len(s) + b) = SubSeq(t, a, b)
  <1> DEFINE x == Len(s) + a
             y == Len(s) + b
  <1>1. /\ x \in (Len(s) + 1)..(Len(s) + Len(t)) /\ y \in (Len(s) + 1)..(Len(s) + Len(t))
        /\ x - Len(s) = a /\ y - Len(s) = b
    OBVIOUS
  <1> HIDE DEF x, y
  <1>2. SubSeq(s \o t, x, y) = SubSeq(t, x - Len(s), y - Len(s))
    BY <1>1, SubSeqOfConcat2
  <1> QED
    BY <1>1, <1>2 DEF x, y

LEMMA RightAfter ==
    ASSUME NEW U, NEW s \in Seq(U), NEW t \in Seq(U), NEW i \in 1..Len(t), RightAt(t, i)
    PROVE  RightAt(s \o t, Len(s) + i)
  <1>1. PICK n \in Nat : Reaches(t, i, n) /\ t[i].says = TotalLength(SubSeq(t, i + 1, n))
    BY DEF RightAt
  <1> DEFINE m == Len(s)
             u == s \o t
  <1>2. m \in Nat /\ Len(t) \in Nat /\ i \in Nat /\ i >= 1 /\ i <= n /\ n <= Len(t)
    BY <1>1 DEF Reaches
  <1>3. Len(u) = m + Len(t) /\ \A j \in 1..Len(t) : u[m + j] = t[j]
    OBVIOUS
  <1>4. SubSeq(u, (m + i) + 1, m + n) = SubSeq(t, i + 1, n)
    <2>1. CASE n = i
      <3>1. (m + i) + 1 \in Int /\ m + n \in Int /\ m + n < (m + i) + 1
            /\ i + 1 \in Int /\ n \in Int /\ n < i + 1
        BY <1>2, <2>1
      <3> HIDE DEF u
      <3>2. SubSeq(u, (m + i) + 1, m + n) = << >>
        BY <3>1, SubSeqEmpty
      <3>3. SubSeq(t, i + 1, n) = << >>
        BY <3>1, SubSeqEmpty
      <3> QED
        BY <3>2, <3>3
    <2>2. CASE n # i
      <3>1. i + 1 \in Nat /\ 1 <= i + 1 /\ i + 1 <= n /\ (m + i) + 1 = m + (i + 1)
        BY <1>2, <2>2
      <3>2. SubSeq(u, m + (i + 1), m + n) = SubSeq(t, i + 1, n)
        BY <1>2, <3>1, SubSeqSecond
      <3> HIDE DEF m, u
      <3> QED
        BY <3>1, <3>2
    <2> QED
      BY <2>1, <2>2
  <1> HIDE DEF m, u
  <1>5. u[m + i] = t[i]
    BY <1>3
  <1>6. Reaches(u, m + i, m + n)
    <2>1. m + n \in (m + i)..Len(u)
      BY <1>2, <1>3
    <2>2. \A j \in ((m + i) + 1)..(m + n) : u[j].name \in t[i].of
      <3> SUFFICES ASSUME NEW j \in ((m + i) + 1)..(m + n) PROVE u[j].name \in t[i].of
        OBVIOUS
      <3>1. j - m \in (i + 1)..n /\ j - m \in 1..Len(t) /\ j = m + (j - m)
        BY <1>2
      <3>2. u[j] = t[j - m]
        BY <1>3, <3>1
      <3> QED
        BY <1>1, <3>1, <3>2 DEF Reaches
    <2>3. m + n < Len(u) => u[(m + n) + 1].name \notin t[i].of
      <3> SUFFICES ASSUME m + n < Len(u) PROVE u[(m + n) + 1].name \notin t[i].of
        OBVIOUS
      <3>1. n < Len(t) /\ n + 1 \in 1..Len(t) /\ (m + n) + 1 = m + (n + 1)
        BY <1>2, <1>3
      <3>2. u[(m + n) + 1] = t[n + 1]
        BY <1>3, <3>1
      <3> QED
        BY <1>1, <3>1, <3>2 DEF Reaches
    <2> QED
      BY <1>5, <2>1, <2>2, <2>3 DEF Reaches
  <1>7. m + n \in Nat /\ u[m + i].says = TotalLength(SubSeq(u, (m + i) + 1, m + n))
    <2>1. m + n \in Nat
      BY <1>2
    <2> QED
      BY <1>1, <1>4, <1>5, <2>1
  <1> QED
    BY <1>6, <1>7 DEF RightAt, m, u

\* Two lists one after the other: no announcement of the first one stands for the
\* element the second one begins with.
LEMMA RightConcat ==
    ASSUME NEW U, NEW s \in Seq(U), NEW t \in Seq(U), Right(s), Right(t),
           t # << >> => \A i \in 1..Len(s) : t[1].name \notin s[i].of
    PROVE  Right(s \o t)
  <1> SUFFICES ASSUME NEW i \in 1..Len(s \o t), (s \o t)[i].of # {} PROVE RightAt(s \o t, i)
    BY DEF Right
  <1>1. Len(s) \in Nat /\ Len(t) \in Nat /\ Len(s \o t) = Len(s) + Len(t)
    OBVIOUS
  <1>2. CASE i <= Len(s)
    <2>1. i \in 1..Len(s) /\ (s \o t)[i] = s[i]
      BY <1>1, <1>2
    <2> QED
      BY <2>1, RightBefore DEF Right
  <1>3. CASE ~(i <= Len(s))
    <2>1. i - Len(s) \in 1..Len(t) /\ i = Len(s) + (i - Len(s)) /\ (s \o t)[i] = t[i - Len(s)]
      BY <1>1, <1>3
    <2>2. RightAt(t, i - Len(s))
      BY <2>1 DEF Right
    <2> QED
      BY <2>1, <2>2, RightAfter
  <1> QED
    BY <1>2, <1>3

LEMMA HonestConcat ==
    ASSUME NEW s, NEW t, Honest(s), Honest(t)
    PROVE  Honest(s \o t)
  <1>1. PICK T : s \in Seq(T) /\ \A e \in T : e.of \subseteq Announceable
    BY DEF Honest, Typical
  <1>2. PICK U : t \in Seq(U) /\ \A e \in U : e.of \subseteq Announceable
    BY DEF Honest, Typical
  <1>3. s \in Seq(T \cup U) /\ t \in Seq(T \cup U)
    BY <1>1, <1>2
  <1>4. s \o t \in Seq(T \cup U) /\ \A e \in T \cup U : e.of \subseteq Announceable
    BY <1>1, <1>2, <1>3
  <1>5. t # << >> => \A i \in 1..Len(s) : t[1].name \notin s[i].of
    <2>1. \A i \in 1..Len(s) : s[i].of \subseteq Announceable
      BY <1>1
    <2> QED
      BY <2>1 DEF Honest, Unannounced
  <1>6. Right(s \o t)
    BY <1>3, <1>5, RightConcat DEF Honest
  <1>7. Unannounced(s \o t)
    <2>1. CASE s = << >>
      <3>1. s \o t = t
        BY <1>2, <2>1
      <3> QED
        BY <3>1 DEF Honest
    <2>2. CASE s # << >>
      <3>1. (s \o t)[1] = s[1]
        BY <1>3, <2>2
      <3> QED
        BY <2>2, <3>1 DEF Honest, Unannounced
    <2> QED
      BY <2>1, <2>2
  <1> QED
    BY <1>4, <1>6, <1>7 DEF Honest, Typical

\* Lists without announcements.
LEMMA PlainOf ==
    ASSUME NEW s, NEW T, s \in Seq(T), \A e \in T : e.of = {}
    PROVE  Plain(s)
  BY DEF Plain

LEMMA PlainConcat ==
    ASSUME NEW s, NEW t, Plain(s), Plain(t)
    PROVE  Plain(s \o t)
  <1>1. PICK T : s \in Seq(T) /\ \A e \in T : e.of = {}
    BY DEF Plain
  <1>2. PICK U : t \in Seq(U) /\ \A e \in U : e.of = {}
    BY DEF Plain
  <1>3. s \in Seq(T \cup U) /\ t \in Seq(T \cup U)
    BY <1>1, <1>2
  <1>4. s \o t \in Seq(T \cup U) /\ \A e \in T \cup U : e.of = {}
    BY <1>1, <1>2, <1>3
  <1> QED
    BY <1>4 DEF Plain

LEMMA PlainRight ==
    ASSUME NEW s, Plain(s)
    PROVE  Right(s) /\ Typical(s) /\ \A name : Leaves(s, name)
  <1>1. PICK T : s \in Seq(T) /\ \A e \in T : e.of = {}
    BY DEF Plain
  <1>2. Right(s)
    BY <1>1 DEF Right
  <1>3. Typical(s) /\ \A name : Leaves(s, name)
    BY <1>1 DEF Typical, Leaves
  <1> QED
    BY <1>2, <1>3

LEMMA HonestPlain ==
    ASSUME NEW s, Plain(s), Unannounced(s)
    PROVE  Honest(s)
  BY PlainRight DEF Honest

LEMMA PlainEach ==
    ASSUME NEW n \in Nat, NEW s, s = [i \in 1..n |-> s[i]], \A i \in 1..n : s[i].of = {}
    PROVE  Plain(s)
  <1> DEFINE T == {s[i] : i \in 1..n}
  <1>1. \A i \in 1..n : s[i] \in T
    OBVIOUS
  <1>2. \A e \in T : e.of = {}
    OBVIOUS
  <1> HIDE DEF T
  <1>3. [i \in 1..n |-> s[i]] \in Seq(T)
    BY <1>1
  <1> QED
    BY <1>2, <1>3 DEF Plain

LEMMA PlainNone == Plain(<< >>) /\ Honest(<< >>)
  <1> DEFINE s == << >>
             T == {}
  <1>1. s \in Seq(T)
    OBVIOUS
  <1>2. \A e \in T : e.of = {}
    OBVIOUS
  <1>3. Unannounced(s)
    BY DEF Unannounced
  <1> HIDE DEF s, T
  <1>4. Plain(s)
    BY <1>1, <1>2, PlainOf
  <1>5. Honest(s)
    BY <1>3, <1>4, HonestPlain
  <1> QED
    BY <1>4, <1>5 DEF s

LEMMA PlainTuple ==
    /\ \A a : a.of = {} => Plain(<<a>>)
    /\ \A a, b : a.of = {} /\ b.of = {} => Plain(<<a, b>>)
    /\ \A a, b, c : a.of = {} /\ b.of = {} /\ c.of = {} => Plain(<<a, b, c>>)
  <1>1. ASSUME NEW a, a.of = {} PROVE Plain(<<a>>)
    <2> DEFINE s == <<a>>
               T == {a}
    <2>1. s \in Seq(T)
      OBVIOUS
    <2>2. \A e \in T : e.of = {}
      BY <1>1
    <2> HIDE DEF s, T
    <2>3. Plain(s)
      BY <2>1, <2>2, PlainOf
    <2> QED
      BY <2>3 DEF s
  <1>2. ASSUME NEW a, NEW b, a.of = {}, b.of = {} PROVE Plain(<<a, b>>)
    <2> DEFINE s == <<a, b>>
               T == {a, b}
    <2>1. s \in Seq(T)
      OBVIOUS
    <2>2. \A e \in T : e.of = {}
      BY <1>2
    <2> HIDE DEF s, T
    <2>3. Plain(s)
      BY <2>1, <2>2, PlainOf
    <2> QED
      BY <2>3 DEF s
  <1>3. ASSUME NEW a, NEW b, NEW c, a.of = {}, b.of = {}, c.of = {} PROVE Plain(<<a, b, c>>)
    <2> DEFINE s == <<a, b, c>>
               T == {a, b, c}
    <2>1. s \in Seq(T)
      OBVIOUS
    <2>2. \A e \in T : e.of = {}
      BY <1>3
    <2> HIDE DEF s, T
    <2>3. Plain(s)
      BY <2>1, <2>2, PlainOf
    <2> QED
      BY <2>3 DEF s
  <1> QED
    BY <1>1, <1>2, <1>3

\* A list that ends with an element without announcement, of a name that nothing
\* before announces.
LEMMA RightThen ==
    ASSUME NEW s, NEW e, Typical(s), Right(s), Leaves(s, e.name), e.of = {}
    PROVE  Typical(s \o <<e>>) /\ Right(s \o <<e>>)
  <1>1. PICK T : s \in Seq(T) /\ \A f \in T : f.of \subseteq Announceable
    BY DEF Typical
  <1>2. PICK U : s \in Seq(U) /\ \A f \in U : e.name \notin f.of
    BY DEF Leaves
  <1> DEFINE t == <<e>>
             V == T \cup {e}
  <1>3. s \in Seq(V) /\ t \in Seq(V) /\ t[1] = e /\ \A f \in V : f.of \subseteq Announceable
    BY <1>1
  <1>4. Right(t)
    BY PlainTuple, PlainRight
  <1> HIDE DEF t, V
  <1>5. \A i \in 1..Len(s) : t[1].name \notin s[i].of
    BY <1>2, <1>3
  <1>6. Right(s \o t)
    BY <1>3, <1>4, <1>5, RightConcat
  <1>7. s \o t \in Seq(V)
    BY <1>3
  <1> QED
    BY <1>3, <1>6, <1>7 DEF Typical, t

LEMMA LeavesConcat ==
    ASSUME NEW s, NEW t, NEW name, Leaves(s, name), Leaves(t, name)
    PROVE  Leaves(s \o t, name)
  <1>1. PICK T : s \in Seq(T) /\ \A e \in T : name \notin e.of
    BY DEF Leaves
  <1>2. PICK U : t \in Seq(U) /\ \A e \in U : name \notin e.of
    BY DEF Leaves
  <1>3. s \in Seq(T \cup U) /\ t \in Seq(T \cup U)
    BY <1>1, <1>2
  <1>4. s \o t \in Seq(T \cup U) /\ \A e \in T \cup U : name \notin e.of
    BY <1>1, <1>2, <1>3
  <1> QED
    BY <1>4 DEF Leaves

\* A list of one element before another.
LEMMA HeadConcat ==
    ASSUME NEW U, NEW t \in Seq(U), NEW h \in Seq(U), Len(h) = 1
    PROVE  /\ h \o t \in Seq(U) /\ Len(h \o t) = Len(t) + 1 /\ (h \o t)[1] = h[1]
           /\ \A j \in 2..(Len(t) + 1) : j - 1 \in 1..Len(t) /\ (h \o t)[j] = t[j - 1]
           /\ SubSeq(h \o t, 2, Len(t) + 1) = t
  <1> DEFINE s == h \o t
  <1>1. Len(t) \in Nat
    OBVIOUS
  <1>2. /\ s \in Seq(U) /\ Len(s) = Len(h) + Len(t)
        /\ \A i \in 1..(Len(h) + Len(t)) : s[i] = IF i <= Len(h) THEN h[i] ELSE t[i - Len(h)]
    BY ConcatProperties
  <1>4. SubSeq(s, 2, Len(t) + 1) = t
    <2>1. CASE Len(t) = 0
      <3> DEFINE n == Len(t) + 1
      <3>1. n \in Int /\ n < 2 /\ 2 \in Int /\ t = << >>
        BY <1>1, <2>1
      <3> HIDE DEF s, n
      <3>2. SubSeq(s, 2, n) = << >>
        BY <3>1, SubSeqEmpty
      <3> QED
        BY <3>1, <3>2 DEF n
    <2>2. CASE Len(t) # 0
      <3> DEFINE a == 1
                 b == Len(t)
      <3>1. /\ a \in Nat /\ b \in Nat /\ 1 <= a /\ a <= b /\ b <= Len(t)
            /\ Len(h) + a = 2 /\ Len(h) + b = Len(t) + 1
        BY <1>1, <2>2
      <3>3. SubSeq(t, a, b) = t
        BY SubSeqFull
      <3> HIDE DEF a, b
      <3>2. SubSeq(h \o t, Len(h) + a, Len(h) + b) = SubSeq(t, a, b)
        BY <3>1, SubSeqSecond
      <3> QED
        BY <3>1, <3>2, <3>3
    <2> QED
      BY <2>1, <2>2
  <1> HIDE DEF s
  <1>3. s[1] = h[1] /\ Len(s) = Len(t) + 1
    BY <1>1, <1>2
  <1>5. \A j \in 2..(Len(t) + 1) : j - 1 \in 1..Len(t) /\ s[j] = t[j - 1]
    BY <1>1, <1>2
  <1> QED
    BY <1>2, <1>3, <1>4, <1>5 DEF s

\* An announcement and what it stands for.
LEMMA BlockRight ==
    ASSUME NEW T, NEW t \in Seq(T), NEW e, e.name = "length", e.of \subseteq Announceable,
           \A f \in T : f.of = {} /\ f.name \in e.of, e.says = TotalLength(t)
    PROVE  Honest(<<e>> \o t)
  <1> DEFINE h == <<e>>
             U == T \cup {e}
             s == h \o t
             n == Len(t) + 1
  <1>1. h \in Seq(U)
    OBVIOUS
  <1>2. Len(h) = 1 /\ h[1] = e /\ T \subseteq U /\ \A f \in U : f.of \subseteq Announceable
    OBVIOUS
  <1>3. n \in Nat /\ n >= 1
    OBVIOUS
  <1> HIDE DEF h, U
  <1>4. /\ s \in Seq(U) /\ Len(s) = n /\ s[1] = e /\ SubSeq(s, 2, n) = t
        /\ \A j \in 2..n : s[j] \in T
    <2>1. t \in Seq(U)
      BY <1>2
    <2>2. /\ s \in Seq(U) /\ Len(s) = n /\ s[1] = e /\ SubSeq(s, 2, n) = t
          /\ \A j \in 2..n : j - 1 \in 1..Len(t) /\ s[j] = t[j - 1]
      BY <1>1, <1>2, <2>1, HeadConcat
    <2>3. \A j \in 1..Len(t) : t[j] \in T
      BY ElementOfSeq
    <2> HIDE DEF s, n
    <2> QED
      BY <2>2, <2>3
  <1> HIDE DEF s, n
  <1>6. RightAt(s, 1)
    <2>1. Reaches(s, 1, n)
      <3>1. \A j \in 2..n : s[j].name \in e.of
        BY <1>4
      <3> QED
        BY <1>3, <1>4, <3>1 DEF Reaches
    <2>2. 1 + 1 = 2
      OBVIOUS
    <2> QED
      BY <1>3, <1>4, <2>1, <2>2 DEF RightAt
  <1>7. Right(s)
    <2>1. \A i \in 2..n : s[i].of = {}
      BY <1>4
    <2> QED
      BY <1>3, <1>4, <1>6, <2>1 DEF Right
  <1>8. Unannounced(s)
    BY <1>4 DEF Unannounced, Announceable
  <1> QED
    BY <1>2, <1>4, <1>7, <1>8 DEF Honest, Typical, s, h

\* Short lists written as one.
LEMMA JoinedIs ==
    ASSUME NEW T, NEW s \in Seq(T), NEW t \in Seq(T), NEW u \in Seq(T), Len(u) = Len(s) + Len(t),
           \A i \in 1..Len(s) : u[i] = s[i], \A i \in 1..Len(t) : u[Len(s) + i] = t[i]
    PROVE  s \o t = u
  <1> DEFINE v == s \o t
  <1>1. /\ v \in Seq(T) /\ Len(v) = Len(s) + Len(t)
        /\ \A i \in 1..(Len(s) + Len(t)) : v[i] = IF i <= Len(s) THEN s[i] ELSE t[i - Len(s)]
    BY ConcatProperties
  <1>2. Len(s) \in Nat /\ Len(t) \in Nat
    OBVIOUS
  <1> HIDE DEF v
  <1>3. ASSUME NEW i \in 1..Len(v) PROVE v[i] = u[i]
    <2>1. CASE i <= Len(s)
      <3>1. i \in 1..Len(s)
        BY <1>2, <2>1
      <3> QED
        BY <1>1, <2>1, <3>1
    <2>2. CASE ~(i <= Len(s))
      <3>1. i - Len(s) \in 1..Len(t) /\ Len(s) + (i - Len(s)) = i
        BY <1>1, <1>2, <2>2
      <3> QED
        BY <1>1, <2>2, <3>1
    <2> QED
      BY <2>1, <2>2
  <1>4. v = u
    BY <1>1, <1>3, SeqEqual
  <1> QED
    BY <1>4 DEF v

LEMMA JoinedTwo ==
    ASSUME NEW e, NEW f
    PROVE  <<e>> \o <<f>> = <<e, f>>
  <1> DEFINE s == <<e>>
             t == <<f>>
             u == <<e, f>>
             T == {e, f}
  <1>1. s \in Seq(T) /\ Len(s) = 1 /\ s[1] = e
    OBVIOUS
  <1>2. t \in Seq(T) /\ Len(t) = 1 /\ t[1] = f
    OBVIOUS
  <1>3. u \in Seq(T) /\ Len(u) = 2 /\ u[1] = e /\ u[2] = f
    OBVIOUS
  <1> HIDE DEF s, t, u, T
  <1>4. s \o t = u
    <2>1. \A i \in 1..Len(s) : u[i] = s[i]
      BY <1>1, <1>2, <1>3
    <2>2. \A i \in 1..Len(t) : u[Len(s) + i] = t[i]
      BY <1>1, <1>2, <1>3
    <2>3. s \in Seq(T) /\ t \in Seq(T) /\ u \in Seq(T) /\ Len(u) = Len(s) + Len(t)
      BY <1>1, <1>2, <1>3
    <2> QED
      BY <2>1, <2>2, <2>3, JoinedIs
  <1> QED
    BY <1>4 DEF s, t, u

LEMMA JoinedThree ==
    ASSUME NEW e, NEW f, NEW g
    PROVE  <<e>> \o <<f, g>> = <<e, f, g>> /\ <<e, f>> \o <<g>> = <<e, f, g>>
  <1> DEFINE s == <<e>>
             t == <<f, g>>
             v == <<e, f>>
             w == <<g>>
             u == <<e, f, g>>
             T == {e, f, g}
  <1>1. s \in Seq(T) /\ Len(s) = 1 /\ s[1] = e
    OBVIOUS
  <1>2. t \in Seq(T) /\ Len(t) = 2 /\ t[1] = f /\ t[2] = g
    OBVIOUS
  <1>3. u \in Seq(T) /\ Len(u) = 3 /\ u[1] = e /\ u[2] = f /\ u[3] = g
    OBVIOUS
  <1>4. v \in Seq(T) /\ Len(v) = 2 /\ v[1] = e /\ v[2] = f
    OBVIOUS
  <1>5. w \in Seq(T) /\ Len(w) = 1 /\ w[1] = g
    OBVIOUS
  <1> HIDE DEF s, t, u, v, w, T
  <1>6. s \o t = u
    <2>1. \A i \in 1..Len(s) : u[i] = s[i]
      BY <1>1, <1>2, <1>3
    <2>2. \A i \in 1..Len(t) : u[Len(s) + i] = t[i]
      BY <1>1, <1>2, <1>3
    <2>3. s \in Seq(T) /\ t \in Seq(T) /\ u \in Seq(T) /\ Len(u) = Len(s) + Len(t)
      BY <1>1, <1>2, <1>3
    <2> QED
      BY <2>1, <2>2, <2>3, JoinedIs
  <1>7. v \o w = u
    <2>1. \A i \in 1..Len(v) : u[i] = v[i]
      BY <1>3, <1>4, <1>5
    <2>2. \A i \in 1..Len(w) : u[Len(v) + i] = w[i]
      BY <1>3, <1>4, <1>5
    <2>3. v \in Seq(T) /\ w \in Seq(T) /\ u \in Seq(T) /\ Len(u) = Len(v) + Len(w)
      BY <1>3, <1>4, <1>5
    <2> QED
      BY <2>1, <2>2, <2>3, JoinedIs
  <1> QED
    BY <1>6, <1>7 DEF s, t, u, v, w

LEMMA JoinedFour ==
    ASSUME NEW e, NEW f, NEW g, NEW h
    PROVE  /\ <<e>> \o <<f, g, h>> = <<e, f, g, h>> /\ <<e, f>> \o <<g, h>> = <<e, f, g, h>>
           /\ <<e, f, g>> \o <<h>> = <<e, f, g, h>>
  <1> DEFINE s == <<e>>
             t == <<f, g, h>>
             v == <<e, f>>
             w == <<g, h>>
             x == <<e, f, g>>
             y == <<h>>
             u == <<e, f, g, h>>
             T == {e, f, g, h}
  <1>1. s \in Seq(T) /\ Len(s) = 1 /\ s[1] = e
    OBVIOUS
  <1>2. t \in Seq(T) /\ Len(t) = 3 /\ t[1] = f /\ t[2] = g /\ t[3] = h
    OBVIOUS
  <1>3. u \in Seq(T) /\ Len(u) = 4 /\ u[1] = e /\ u[2] = f /\ u[3] = g /\ u[4] = h
    OBVIOUS
  <1>4. v \in Seq(T) /\ Len(v) = 2 /\ v[1] = e /\ v[2] = f
    OBVIOUS
  <1>5. w \in Seq(T) /\ Len(w) = 2 /\ w[1] = g /\ w[2] = h
    OBVIOUS
  <1>6. x \in Seq(T) /\ Len(x) = 3 /\ x[1] = e /\ x[2] = f /\ x[3] = g
    OBVIOUS
  <1>7. y \in Seq(T) /\ Len(y) = 1 /\ y[1] = h
    OBVIOUS
  <1> HIDE DEF s, t, u, v, w, x, y, T
  <1>8. s \o t = u
    <2>1. \A i \in 1..Len(s) : u[i] = s[i]
      BY <1>1, <1>2, <1>3
    <2>2. \A i \in 1..Len(t) : u[Len(s) + i] = t[i]
      BY <1>1, <1>2, <1>3
    <2>3. s \in Seq(T) /\ t \in Seq(T) /\ u \in Seq(T) /\ Len(u) = Len(s) + Len(t)
      BY <1>1, <1>2, <1>3
    <2> QED
      BY <2>1, <2>2, <2>3, JoinedIs
  <1>9. v \o w = u
    <2>1. \A i \in 1..Len(v) : u[i] = v[i]
      BY <1>3, <1>4, <1>5
    <2>2. \A i \in 1..Len(w) : u[Len(v) + i] = w[i]
      BY <1>3, <1>4, <1>5
    <2>3. v \in Seq(T) /\ w \in Seq(T) /\ u \in Seq(T) /\ Len(u) = Len(v) + Len(w)
      BY <1>3, <1>4, <1>5
    <2> QED
      BY <2>1, <2>2, <2>3, JoinedIs
  <1>10. x \o y = u
    <2>1. \A i \in 1..Len(x) : u[i] = x[i]
      BY <1>3, <1>6, <1>7
    <2>2. \A i \in 1..Len(y) : u[Len(x) + i] = y[i]
      BY <1>3, <1>6, <1>7
    <2>3. x \in Seq(T) /\ y \in Seq(T) /\ u \in Seq(T) /\ Len(u) = Len(x) + Len(y)
      BY <1>3, <1>6, <1>7
    <2> QED
      BY <2>1, <2>2, <2>3, JoinedIs
  <1> QED
    BY <1>8, <1>9, <1>10 DEF s, t, u, v, w, x, y

LEMMA TotalLengthTwo ==
    ASSUME NEW f, NEW g, f.length \in Nat, g.length \in Nat
    PROVE  TotalLength(<<f, g>>) = f.length + g.length
  <1> DEFINE T == {f, g}
             s == <<f>>
             t == <<g>>
  <1>1. s \in Seq(T) /\ t \in Seq(T) /\ \A x \in T : x.length \in Nat
    OBVIOUS
  <1>2. TotalLength(s) = f.length /\ TotalLength(t) = g.length
    <2>1. f \in T /\ g \in T
      OBVIOUS
    <2> HIDE DEF T
    <2> QED
      BY <1>1, <2>1, TotalLengthOne
  <1> HIDE DEF s, t, T
  <1>3. TotalLength(s \o t) = TotalLength(s) + TotalLength(t)
    BY <1>1, TotalLengthConcat
  <1>4. s \o t = <<f, g>>
    BY JoinedTwo DEF s, t
  <1> QED
    BY <1>2, <1>3, <1>4
LEMMA TotalLengthThree ==
    ASSUME NEW f, NEW g, NEW h, f.length \in Nat, g.length \in Nat, h.length \in Nat
    PROVE  TotalLength(<<f, g, h>>) = f.length + g.length + h.length
  <1> DEFINE T == {f, g, h}
             s == <<f, g>>
             t == <<h>>
  <1>1. s \in Seq(T) /\ t \in Seq(T) /\ \A x \in T : x.length \in Nat
    OBVIOUS
  <1>2. TotalLength(t) = h.length
    <2>1. h \in T
      OBVIOUS
    <2> HIDE DEF T
    <2> QED
      BY <1>1, <2>1, TotalLengthOne
  <1>5. TotalLength(s) = f.length + g.length
    BY TotalLengthTwo
  <1> HIDE DEF s, t, T
  <1>3. TotalLength(s \o t) = TotalLength(s) + TotalLength(t)
    BY <1>1, TotalLengthConcat
  <1>4. s \o t = <<f, g, h>>
    BY JoinedThree DEF s, t
  <1> QED
    BY <1>2, <1>3, <1>4, <1>5

\* An announcement of nothing, of one, two or three elements.
Announces(e) == e.name = "length" /\ e.of \subseteq Announceable
StandsFor(e, f) == f.of = {} /\ f.name \in e.of /\ f.length \in Nat

LEMMA BlockNone ==
    ASSUME NEW e, Announces(e), e.says = 0
    PROVE  Honest(<<e>>)
  <1> DEFINE T == {}
             t == << >>
  <1>1. t \in Seq(T)
    OBVIOUS
  <1>2. <<e>> \o t = <<e>>
    OBVIOUS
  <1>3. TotalLength(t) = 0
    BY TotalLengthEmpty
  <1>4. \A f \in T : f.of = {} /\ f.name \in e.of
    OBVIOUS
  <1> HIDE DEF t, T
  <1>5. Honest(<<e>> \o t)
    BY <1>1, <1>3, <1>4, BlockRight DEF Announces
  <1> QED
    BY <1>2, <1>5

LEMMA BlockOne ==
    ASSUME NEW e, NEW f, Announces(e), StandsFor(e, f), e.says = f.length
    PROVE  Honest(<<e, f>>) /\ Honest(<<e>> \o <<f>>)
  <1> DEFINE T == {f}
             t == <<f>>
  <1>1. t \in Seq(T)
    OBVIOUS
  <1>2. <<e>> \o t = <<e, f>>
    BY JoinedTwo
  <1>3. TotalLength(t) = f.length
    <2>1. f \in T /\ \A x \in T : x.length \in Nat
      BY DEF StandsFor
    <2> HIDE DEF T
    <2> QED
      BY <2>1, TotalLengthOne
  <1>4. \A x \in T : x.of = {} /\ x.name \in e.of
    BY DEF StandsFor
  <1> HIDE DEF t, T
  <1>5. Honest(<<e>> \o t)
    BY <1>1, <1>3, <1>4, BlockRight DEF Announces
  <1> QED
    BY <1>2, <1>5 DEF t

LEMMA BlockTwo ==
    ASSUME NEW e, NEW f, NEW g, Announces(e), StandsFor(e, f), StandsFor(e, g),
           e.says = f.length + g.length
    PROVE  Honest(<<e, f, g>>) /\ Honest(<<e, f>> \o <<g>>)
  <1> DEFINE T == {f, g}
             t == <<f, g>>
  <1>1. t \in Seq(T)
    OBVIOUS
  <1>2. <<e>> \o t = <<e, f, g>> /\ <<e, f>> \o <<g>> = <<e, f, g>>
    BY JoinedThree
  <1>3. TotalLength(t) = f.length + g.length
    BY TotalLengthTwo DEF StandsFor
  <1>4. \A x \in T : x.of = {} /\ x.name \in e.of
    BY DEF StandsFor
  <1> HIDE DEF t, T
  <1>5. Honest(<<e>> \o t)
    BY <1>1, <1>3, <1>4, BlockRight DEF Announces
  <1> QED
    BY <1>2, <1>5

LEMMA BlockThree ==
    ASSUME NEW e, NEW f, NEW g, NEW h, Announces(e), StandsFor(e, f), StandsFor(e, g),
           StandsFor(e, h), e.says = f.length + g.length + h.length
    PROVE  Honest(<<e, f, g>> \o <<h>>)
  <1> DEFINE T == {f, g, h}
             t == <<f, g, h>>
  <1>1. t \in Seq(T)
    OBVIOUS
  <1>2. <<e>> \o t = <<e, f, g, h>> /\ <<e, f, g>> \o <<h>> = <<e, f, g, h>>
    BY JoinedFour
  <1>3. TotalLength(t) = f.length + g.length + h.length
    BY TotalLengthThree DEF StandsFor
  <1>4. \A x \in T : x.of = {} /\ x.name \in e.of
    BY DEF StandsFor
  <1> HIDE DEF t, T
  <1>5. Honest(<<e>> \o t)
    BY <1>1, <1>3, <1>4, BlockRight DEF Announces
  <1> QED
    BY <1>2, <1>5

\* The elements that services are made of.
LEMMA ElementsAre ==
    /\ \A name, n : Fixed(name, n).name = name /\ Fixed(name, n).of = {} /\ Fixed(name, n).length = n
    /\ \A name, b : From(name, b).name = name /\ From(name, b).of = {} /\ From(name, b).length = b.length
    /\ \A name, n, b : /\ Lent(name, n, b).name = name /\ Lent(name, n, b).of = {}
                       /\ Lent(name, n, b).length = n
    /\ \A name, m, n, null : /\ Part(name, m, n, null).name = name /\ Part(name, m, n, null).of = {}
                             /\ Part(name, m, n, null).length = m
  BY DEF Fixed, From, Lent, Part

LEMMA NumbersAre ==
    /\ \A of, n : BigEndian(of, n).name = "length" /\ BigEndian(of, n).of = of
                  /\ BigEndian(of, n).says = n % Word
    /\ \A of, n : OneByte(of, n).name = "length" /\ OneByte(of, n).of = of
                  /\ OneByte(of, n).says = n % Byte
    /\ \A of, n : /\ Swap(HostOrder(of, n)).name = "length" /\ Swap(HostOrder(of, n)).of = of
                  /\ Swap(HostOrder(of, n)).says = Swapped(Swapped(n) % Word)
  <1>1. \A of, n : BigEndian(of, n).name = "length" /\ BigEndian(of, n).of = of
                  /\ BigEndian(of, n).says = n % Word
    BY DEF BigEndian, Fixed, Part
  <1>2. \A of, n : OneByte(of, n).name = "length" /\ OneByte(of, n).of = of
                  /\ OneByte(of, n).says = n % Byte
    BY DEF OneByte, Fixed, Part
  <1>3. \A of, n : /\ Swap(HostOrder(of, n)).name = "length" /\ Swap(HostOrder(of, n)).of = of
                  /\ Swap(HostOrder(of, n)).says = Swapped(Swapped(n) % Word)
    BY DEF Swap, HostOrder, BigEndian, Fixed, Part
  <1> QED
    BY <1>1, <1>2, <1>3

\* A number of two bytes swapped twice is itself.
LEMMA DivMod ==
    ASSUME NEW b \in Nat \ {0}, NEW q \in 0..(b - 1), NEW r \in 0..(b - 1)
    PROVE  ((q * b) + r) % b = r /\ ((q * b) + r) \div b = q
  OBVIOUS

LEMMA SwapTwice ==
    ASSUME NEW n \in 0..(Word - 1)
    PROVE  Swapped(n) \in 0..(Word - 1) /\ Swapped(Swapped(n) % Word) = n
  <1> DEFINE q == n \div Byte
             r == n % Byte
             m == (r * Byte) + q
  <1>1. Byte \in Nat \ {0} /\ Word = Byte * Byte
    BY TableAssumption, WidthAssumption
  <1>2. q \in Int /\ r \in 0..(Byte - 1) /\ n = (q * Byte) + r
    BY <1>1
  <1>3. q \in 0..(Byte - 1)
    BY <1>1, <1>2
  <1> HIDE DEF q, r
  <1>4. m \in 0..(Word - 1)
    BY <1>1, <1>2, <1>3
  <1>5. m % Byte = q /\ m \div Byte = r
    BY <1>1, <1>2, <1>3, DivMod
  <1> HIDE DEF m
  <1>6. Swapped(n) = m
    BY DEF Swapped, m, q, r
  <1>7. m % Word = m
    BY <1>1, <1>4
  <1>8. Swapped(m) = n
    BY <1>2, <1>5 DEF Swapped
  <1> QED
    BY <1>4, <1>6, <1>7, <1>8

-----------------------------------------------------------------------------
(* The lengths that the services announce                                  *)

Truthful(s) == Typical(s) /\ Right(s)
BothTrue(service) == Truthful(service.request) /\ Truthful(service.answer)

LEMMA HonestTrue == \A s : Honest(s) => Truthful(s)
  BY DEF Honest, Truthful

LEMMA PlainTrue == \A s : Plain(s) => Truthful(s)
  BY PlainRight DEF Truthful

LEMMA TrueThen ==
    ASSUME NEW s, NEW e, Honest(s), Leaves(s, e.name), e.of = {}
    PROVE  Truthful(s \o <<e>>)
  BY RightThen DEF Truthful, Honest

LEMMA ServiceTrue ==
    ASSUME NEW refuses, NEW request, NEW answer,
           ~refuses => Truthful(request) /\ Truthful(answer)
    PROVE  BothTrue(Service(refuses, request, answer))
  <1>1. CASE refuses
    BY <1>1, PlainNone, PlainTrue DEF Service, BothTrue
  <1>2. CASE ~refuses
    BY <1>2 DEF Service, BothTrue
  <1> QED
    BY <1>1, <1>2

\* One list after two others, or after the second of them.
LEMMA Regroup ==
    ASSUME NEW s, NEW t, NEW u, Typical(s), Typical(t), Typical(u)
    PROVE  (s \o t) \o u = s \o (t \o u)
  <1>1. PICK S : s \in Seq(S)
    BY DEF Typical
  <1>2. PICK T : t \in Seq(T)
    BY DEF Typical
  <1>3. PICK U : u \in Seq(U)
    BY DEF Typical
  <1> DEFINE V == (S \cup T) \cup U
  <1>4. s \in Seq(V) /\ t \in Seq(V) /\ u \in Seq(V)
    BY <1>1, <1>2, <1>3, SeqMonotonic
  <1> HIDE DEF V
  <1> QED
    BY <1>4, ConcatAssociative

LEMMA TypicalAre ==
    /\ \A s : Honest(s) \/ Plain(s) => Typical(s)
    /\ \A e : e.of \subseteq Announceable => Typical(<<e>>)
  <1>1. \A s : Honest(s) \/ Plain(s) => Typical(s)
    BY PlainRight DEF Honest
  <1>2. ASSUME NEW e, e.of \subseteq Announceable PROVE Typical(<<e>>)
    <2> DEFINE s == <<e>>
               T == {e}
    <2>1. s \in Seq(T)
      OBVIOUS
    <2>2. \A x \in T : x.of \subseteq Announceable
      BY <1>2
    <2> HIDE DEF s, T
    <2>3. Typical(s)
      BY <2>1, <2>2 DEF Typical
    <2> QED
      BY <2>3 DEF s
  <1> QED
    BY <1>1, <1>2

LEMMA LeavesTuple ==
    /\ \A a, name : name \notin a.of => Leaves(<<a>>, name)
    /\ \A a, b, name : name \notin a.of /\ name \notin b.of => Leaves(<<a, b>>, name)
  <1>1. ASSUME NEW a, NEW name, name \notin a.of PROVE Leaves(<<a>>, name)
    <2> DEFINE s == <<a>>
               T == {a}
    <2>1. s \in Seq(T)
      OBVIOUS
    <2>2. \A e \in T : name \notin e.of
      BY <1>1
    <2> HIDE DEF s, T
    <2>3. Leaves(s, name)
      BY <2>1, <2>2 DEF Leaves
    <2> QED
      BY <2>3 DEF s
  <1>2. ASSUME NEW a, NEW b, NEW name, name \notin a.of, name \notin b.of PROVE Leaves(<<a, b>>, name)
    <2> DEFINE s == <<a, b>>
               T == {a, b}
    <2>1. s \in Seq(T)
      OBVIOUS
    <2>2. \A e \in T : name \notin e.of
      BY <1>2
    <2> HIDE DEF s, T
    <2>3. Leaves(s, name)
      BY <2>1, <2>2 DEF Leaves
    <2> QED
      BY <2>3 DEF s
  <1> QED
    BY <1>1, <1>2

\* Elements that announce nothing, before any others.
LEMMA HonestTuple ==
    /\ \A a : a.of = {} /\ a.name \notin Announceable => Honest(<<a>>)
    /\ \A a, b : a.of = {} /\ b.of = {} /\ a.name \notin Announceable => Honest(<<a, b>>)
    /\ \A a, b, c : a.of = {} /\ b.of = {} /\ c.of = {} /\ a.name \notin Announceable =>
          Honest(<<a, b, c>>)
  <1>1. ASSUME NEW a, a.of = {}, a.name \notin Announceable PROVE Honest(<<a>>)
    <2>1. Unannounced(<<a>>)
      BY <1>1 DEF Unannounced
    <2>2. Plain(<<a>>)
      BY <1>1, PlainTuple
    <2> QED
      BY <2>1, <2>2, HonestPlain
  <1>2. ASSUME NEW a, NEW b, a.of = {}, b.of = {}, a.name \notin Announceable PROVE Honest(<<a, b>>)
    <2>1. Unannounced(<<a, b>>)
      BY <1>2 DEF Unannounced
    <2>2. Plain(<<a, b>>)
      BY <1>2, PlainTuple
    <2> QED
      BY <2>1, <2>2, HonestPlain
  <1>3. ASSUME NEW a, NEW b, NEW c, a.of = {}, b.of = {}, c.of = {}, a.name \notin Announceable
        PROVE  Honest(<<a, b, c>>)
    <2>1. Unannounced(<<a, b, c>>)
      BY <1>3 DEF Unannounced
    <2>2. Plain(<<a, b, c>>)
      BY <1>3, PlainTuple
    <2> QED
      BY <2>1, <2>2, HonestPlain
  <1> QED
    BY <1>1, <1>2, <1>3

LEMMA SharedPlain ==
    /\ Plain(Header) /\ Plain(Extended) /\ Plain(Answer) /\ Plain(Slot) /\ Plain(Tag)
    /\ Plain(SubCommand) /\ Plain(CounterPresence) /\ Plain(Algorithm) /\ Plain(Presence)
    /\ Plain(Configuration) /\ Plain(HostKeyType) /\ Plain(<< >>)
    /\ \A n : Plain(Padding(n))
    /\ \A kt : Plain(CurveId(kt))
  BY ElementsAre, PlainTuple, PlainNone
  DEF Header, Extended, Answer, Slot, Tag, SubCommand, CounterPresence, Algorithm, Presence,
      Configuration, HostKeyType, Padding, CurveId

LEMMA SharedHonest ==
    /\ Honest(Header) /\ Honest(Extended) /\ Honest(Answer) /\ Honest(Slot) /\ Honest(Tag)
    /\ Honest(SubCommand) /\ Honest(CounterPresence) /\ Honest(Algorithm) /\ Honest(Presence)
    /\ Honest(Configuration) /\ Honest(HostKeyType) /\ Honest(<< >>)
    /\ \A n : Honest(Padding(n))
    /\ \A kt : Honest(CurveId(kt))
  <1>1. {"header", "slot_number", "tag", "sub_command_distinguisher", "counter_presence", "algorithm_id",
         "presence_flag", "configuration_flags", "host_key_type", "padding", "curve_id"}
          \cap Announceable = {}
    BY DEF Announceable
  <1> QED
    BY <1>1, ElementsAre, HonestTuple, PlainNone
    DEF Header, Extended, Answer, Slot, Tag, SubCommand, CounterPresence, Algorithm, Presence,
        Configuration, HostKeyType, Padding, CurveId

\* A buffer after its length.
LEMMA WithHonest ==
    ASSUME NEW name \in Announceable, NEW b \in Lendable
    PROVE  Honest(With(name, b)) /\ \A other : other # name => Leaves(With(name, b), other)
  <1> DEFINE e == Swap(HostOrder({name}, b.length))
             f == From(name, b)
  <1>1. b.length \in 0..(Word - 1) /\ b.length \in Nat
    BY SizeAssumption DEF Lendable
  <1>2. e.name = "length" /\ e.of = {name} /\ e.says = b.length
    BY <1>1, NumbersAre, SwapTwice
  <1>3. f.name = name /\ f.of = {} /\ f.length = b.length
    BY ElementsAre
  <1> HIDE DEF e, f
  <1>4. Honest(<<e, f>>)
    BY <1>1, <1>2, <1>3, BlockOne DEF Announces, StandsFor
  <1>5. \A other : other # name => Leaves(<<e, f>>, other)
    BY <1>2, <1>3, LeavesTuple
  <1> QED
    BY <1>4, <1>5 DEF With, e, f

LEMMA CipherTruth ==
    ASSUME NEW c, Ciphering(c)
    PROVE  /\ Honest(Associated(c)) /\ Honest(Message(c)) /\ Honest(With("nonce", c.iv))
           /\ Honest(With("iv", c.iv))
           /\ Plain(OutputOf(c)) /\ Plain(Tagged(c)) /\ Plain(Verdict(c))
           /\ Plain(<<From("message", c.message)>>)
           /\ Leaves(Associated(c), "authentication_tag") /\ Leaves(Message(c), "authentication_tag")
           /\ Leaves(With("iv", c.iv), "authentication_tag")
  <1>1. c.message \in Lendable /\ c.associated_data \in Lendable /\ c.iv \in Lendable
    BY DEF Ciphering
  <1>2. {"associated_data", "message", "nonce", "iv"} \subseteq Announceable
    BY DEF Announceable
  <1>3. /\ Honest(Associated(c)) /\ Honest(Message(c)) /\ Honest(With("nonce", c.iv))
        /\ Honest(With("iv", c.iv))
    BY <1>1, <1>2, WithHonest DEF Associated, Message
  <1>4. /\ Leaves(Associated(c), "authentication_tag") /\ Leaves(Message(c), "authentication_tag")
        /\ Leaves(With("iv", c.iv), "authentication_tag")
    BY <1>1, <1>2, WithHonest DEF Associated, Message
  <1>5. /\ Plain(OutputOf(c)) /\ Plain(Tagged(c)) /\ Plain(Verdict(c))
        /\ Plain(<<From("message", c.message)>>)
    BY ElementsAre, PlainTuple DEF OutputOf, Tagged, Verdict
  <1> QED
    BY <1>3, <1>4, <1>5

LEMMA GcmTrue ==
    ASSUME NEW c, Ciphering(c)
    PROVE  /\ BothTrue(AesGcmEncrypt(c)) /\ BothTrue(AesGcmDecrypt(c))
           /\ BothTrue(AesGcmEncryptStart(c)) /\ BothTrue(AesGcmDecryptStart(c))
           /\ BothTrue(AesGcmEncryptProcess(c)) /\ BothTrue(AesGcmDecryptProcess(c))
           /\ BothTrue(AesGcmEncryptFinish(c)) /\ BothTrue(AesGcmDecryptFinish(c))
  <1> DEFINE whole == Header \o SubCommand \o Slot \o With("iv", c.iv) \o Associated(c) \o Message(c)
             start == Extended \o Slot \o With("iv", c.iv) \o Associated(c) \o Message(c)
             more == Extended \o Associated(c) \o Message(c)
             tag == From("authentication_tag", c.tag)
  <1>1. Honest(whole) /\ Honest(start) /\ Honest(more)
    BY SharedHonest, CipherTruth, HonestConcat
  <1>2. Leaves(whole, "authentication_tag") /\ Leaves(more, "authentication_tag")
    <2>1. /\ Leaves(Header, "authentication_tag") /\ Leaves(SubCommand, "authentication_tag")
          /\ Leaves(Slot, "authentication_tag") /\ Leaves(Extended, "authentication_tag")
      BY SharedPlain, PlainRight
    <2>2. /\ Leaves(Associated(c), "authentication_tag") /\ Leaves(Message(c), "authentication_tag")
          /\ Leaves(With("iv", c.iv), "authentication_tag")
      BY CipherTruth
    <2> QED
      BY <2>1, <2>2, LeavesConcat
  <1>3. /\ Plain(Answer \o OutputOf(c)) /\ Plain(Answer \o OutputOf(c) \o Tagged(c))
        /\ Plain(Answer \o Verdict(c) \o OutputOf(c))
    BY SharedPlain, CipherTruth, PlainConcat
  <1> HIDE DEF whole, start, more
  <1>4. Truthful(whole \o Tagged(c)) /\ Truthful(more \o Tagged(c))
    <2>1. tag.name = "authentication_tag" /\ tag.of = {}
      BY ElementsAre
    <2> HIDE DEF tag
    <2>2. Truthful(whole \o <<tag>>) /\ Truthful(more \o <<tag>>)
      BY <1>1, <1>2, <2>1, TrueThen
    <2> QED
      BY <2>2 DEF Tagged, tag
  <1>5. BothTrue(AesGcmEncrypt(c))
    BY <1>1, <1>3, HonestTrue, PlainTrue, ServiceTrue DEF AesGcmEncrypt, whole
  <1>6. BothTrue(AesGcmDecrypt(c))
    BY <1>3, <1>4, PlainTrue, ServiceTrue DEF AesGcmDecrypt, whole
  <1>7. BothTrue(AesGcmEncryptStart(c))
    BY <1>1, <1>3, HonestTrue, PlainTrue, ServiceTrue DEF AesGcmEncryptStart, start
  <1>8. BothTrue(AesGcmDecryptStart(c))
    BY <1>1, <1>3, HonestTrue, PlainTrue, ServiceTrue DEF AesGcmDecryptStart, start
  <1>9. BothTrue(AesGcmEncryptProcess(c))
    BY <1>1, <1>3, HonestTrue, PlainTrue, ServiceTrue DEF AesGcmEncryptProcess, more
  <1>10. BothTrue(AesGcmDecryptProcess(c))
    BY <1>1, <1>3, HonestTrue, PlainTrue, ServiceTrue DEF AesGcmDecryptProcess, more
  <1>11. BothTrue(AesGcmEncryptFinish(c))
    BY <1>1, <1>3, HonestTrue, PlainTrue, ServiceTrue DEF AesGcmEncryptFinish, more
  <1>12. BothTrue(AesGcmDecryptFinish(c))
    BY <1>3, <1>4, PlainTrue, ServiceTrue DEF AesGcmDecryptFinish, more
  <1> QED
    BY <1>5, <1>6, <1>7, <1>8, <1>9, <1>10, <1>11, <1>12

\* The fixed nonce of the commands that are whole messages.
LEMMA NonceHonest ==
    ASSUME NEW c
    PROVE  Honest(Header \o SubCommand \o Slot \o <<Lent("nonce", NonceSize, c.iv)>>)
  <1> DEFINE h == Fixed("header", 1)
             d == Fixed("sub_command_distinguisher", 1)
             n == Fixed("slot_number", 1)
             e == Lent("nonce", NonceSize, c.iv)
  <1>1. h.of = {} /\ d.of = {} /\ n.of = {} /\ e.of = {} /\ h.name = "header"
    BY ElementsAre
  <1> HIDE DEF h, d, n, e
  <1>2. Plain(<<h>> \o <<d>> \o <<n>> \o <<e>>)
    BY <1>1, PlainTuple, PlainConcat
  <1>3. <<h>> \o <<d>> \o <<n>> \o <<e>> = <<h, d, n, e>>
    <2>1. <<h>> \o <<d>> = <<h, d>>
      BY JoinedTwo
    <2>2. <<h, d>> \o <<n>> = <<h, d, n>>
      BY JoinedThree
    <2>3. <<h, d, n>> \o <<e>> = <<h, d, n, e>>
      BY JoinedFour
    <2> QED
      BY <2>1, <2>2, <2>3, Zenon
  <1>4. Unannounced(<<h, d, n, e>>)
    BY <1>1 DEF Unannounced, Announceable
  <1>5. Honest(<<h>> \o <<d>> \o <<n>> \o <<e>>)
    BY <1>2, <1>3, <1>4, HonestPlain
  <1> QED
    BY <1>5 DEF Header, SubCommand, Slot, h, d, n, e

LEMMA CcmEncryptTrue ==
    ASSUME NEW c, Ciphering(c), ~(c.associated_data.length = 0 /\ c.message.length # 0)
    PROVE  BothTrue(AesCcmEncrypt(c))
  <1> DEFINE lengths == <<Head(Associated(c)), Head(Message(c))>>
             counter == <<Lent("counter", CounterSize, c.counter)>>
             texts == IF c.associated_data.length # 0 THEN Associated(c) \o Message(c) ELSE lengths
             last == IF c.presence = 0 THEN << >> ELSE counter
  <1>1. Honest(texts)
    <2>1. CASE c.associated_data.length # 0
      <3>1. Honest(Associated(c) \o Message(c))
        BY CipherTruth, HonestConcat
      <3> QED
        BY <2>1, <3>1
    <2>2. CASE c.associated_data.length = 0
      <3> DEFINE d == Swap(HostOrder({"associated_data"}, c.associated_data.length))
                 m == Swap(HostOrder({"message"}, c.message.length))
      <3>1. Head(Associated(c)) = d /\ Head(Message(c)) = m
        BY DEF Associated, Message, With
      <3>2. c.associated_data.length = 0 /\ c.message.length = 0 /\ 0 \in 0..(Word - 1)
        BY <2>2, SizeAssumption
      <3>3. Announces(d) /\ d.says = 0 /\ Announces(m) /\ m.says = 0
        BY <3>2, NumbersAre, SwapTwice DEF Announces, Announceable
      <3> HIDE DEF d, m
      <3>4. Honest(<<d>> \o <<m>>)
        BY <3>3, BlockNone, HonestConcat
      <3>5. Honest(lengths)
        BY <3>1, <3>4, JoinedTwo
      <3> HIDE DEF lengths
      <3> QED
        BY <2>2, <3>5
    <2> QED
      BY <2>1, <2>2
  <1>2. Plain(last)
    <2>1. Plain(counter)
      BY ElementsAre, PlainTuple
    <2>2. last \in {<< >>, counter}
      OBVIOUS
    <2> HIDE DEF last, counter
    <2> QED
      BY <2>1, <2>2, PlainNone
  <1> HIDE DEF texts, last
  <1>3. Honest(Header \o SubCommand \o Slot \o <<Lent("nonce", NonceSize, c.iv)>> \o texts)
    BY <1>1, NonceHonest, HonestConcat
  <1>4. Plain(Answer \o OutputOf(c) \o Tagged(c) \o CounterPresence \o last)
    BY <1>2, SharedPlain, CipherTruth, PlainConcat
  <1> QED
    BY <1>3, <1>4, HonestTrue, PlainTrue, ServiceTrue DEF AesCcmEncrypt, texts, last, lengths, counter

LEMMA CcmStartTrue ==
    ASSUME NEW c, Ciphering(c)
    PROVE  BothTrue(AesCcmEncryptStart(c)) /\ BothTrue(AesCcmDecryptStart(c))
  <1>1. /\ Honest(<<Fixed("total_associated_data_length", 2), Fixed("total_message_length", 4)>>)
        /\ Honest(<<Fixed("total_associated_data_length", 2),
                    Part("total_ciphertext_length", 4, 2, FALSE)>>)
        /\ Plain(<<Fixed("counter", CounterSize)>>)
    <2> DEFINE d == Fixed("total_associated_data_length", 2)
               m == Fixed("total_message_length", 4)
               p == Part("total_ciphertext_length", 4, 2, FALSE)
    <2>1. d.of = {} /\ d.name = "total_associated_data_length" /\ m.of = {} /\ p.of = {}
      BY DEF Fixed, Part
    <2>2. d.name \notin Announceable
      BY <2>1 DEF Announceable
    <2>3. Plain(<<Fixed("counter", CounterSize)>>)
      BY ElementsAre, PlainTuple
    <2> HIDE DEF d, m, p
    <2>4. Honest(<<d, m>>) /\ Honest(<<d, p>>)
      BY <2>1, <2>2, HonestTuple
    <2> QED
      BY <2>3, <2>4 DEF d, m, p
  <1>2. /\ Honest(Extended \o Slot \o With("nonce", c.iv)
                  \o <<Fixed("total_associated_data_length", 2), Fixed("total_message_length", 4)>>
                  \o Associated(c) \o Message(c))
        /\ Honest(Extended \o Slot \o With("nonce", c.iv)
                  \o <<Fixed("total_associated_data_length", 2),
                       Part("total_ciphertext_length", 4, 2, FALSE)>>
                  \o Associated(c) \o Message(c))
    BY <1>1, SharedHonest, CipherTruth, HonestConcat
  <1>3. /\ Plain(Answer \o OutputOf(c) \o CounterPresence \o <<Fixed("counter", CounterSize)>>)
        /\ Plain(Answer \o OutputOf(c))
    BY <1>1, SharedPlain, CipherTruth, PlainConcat
  <1> QED
    BY <1>2, <1>3, HonestTrue, PlainTrue, ServiceTrue DEF AesCcmEncryptStart, AesCcmDecryptStart

LEMMA CcmDecryptTrue ==
    ASSUME NEW c, Ciphering(c), c.message.length + c.tag.length < Word
    PROVE  BothTrue(AesCcmDecrypt(c))
  <1> DEFINE both == (c.message.length + c.tag.length) % Word
             e == Swap(HostOrder({"message", "authentication_tag"}, both))
             f == From("message", c.message)
             g == From("authentication_tag", c.tag)
             before == Header \o SubCommand \o Slot \o <<Lent("nonce", NonceSize, c.iv)>>
                       \o Associated(c)
  <1>1. /\ c.message.length \in Nat /\ c.tag.length \in Nat /\ both \in 0..(Word - 1)
        /\ both = c.message.length + c.tag.length
    BY SizeAssumption DEF Ciphering, Lendable
  <1> HIDE DEF both
  <1>2. e.name = "length" /\ e.of = {"message", "authentication_tag"} /\ e.says = both
    BY <1>1, NumbersAre, SwapTwice
  <1>3. /\ f.name = "message" /\ f.of = {} /\ f.length = c.message.length
        /\ g.name = "authentication_tag" /\ g.of = {} /\ g.length = c.tag.length
    BY ElementsAre
  <1>4. Honest(before)
    BY NonceHonest, CipherTruth, HonestConcat
  <1> HIDE DEF e, f, g, before
  <1>5. Announces(e) /\ StandsFor(e, f) /\ StandsFor(e, g) /\ e.says = f.length + g.length
    BY <1>1, <1>2, <1>3 DEF Announces, StandsFor, Announceable
  <1>6. Honest(before \o (<<e, f>> \o <<g>>))
    BY <1>4, <1>5, BlockTwo, HonestConcat
  <1>7. (before \o <<e, f>>) \o <<g>> = before \o (<<e, f>> \o <<g>>)
    <2>1. Typical(<<e>>) /\ Typical(<<f>>) /\ Typical(<<g>>) /\ Typical(before)
      BY <1>3, <1>4, <1>5, TypicalAre DEF Announces
    <2>2. Typical(<<e, f>>)
      <3> DEFINE s == <<e, f>>
                 T == {e, f}
      <3>1. s \in Seq(T)
        OBVIOUS
      <3>2. \A x \in T : x.of \subseteq Announceable
        BY <1>3, <1>5 DEF Announces
      <3> HIDE DEF s, T
      <3>3. Typical(s)
        BY <3>1, <3>2 DEF Typical
      <3> QED
        BY <3>3 DEF s
    <2> QED
      BY <2>1, <2>2, Regroup
  <1>8. Truthful(before \o <<e, f>> \o <<g>>)
    BY <1>6, <1>7, HonestTrue
  <1>9. Plain(Answer \o Verdict(c) \o OutputOf(c))
    BY SharedPlain, CipherTruth, PlainConcat
  <1> QED
    BY <1>8, <1>9, PlainTrue, ServiceTrue DEF AesCcmDecrypt, Tagged, both, e, f, g, before

\* Services that announce no length.
LEMMA ServicePlain ==
    ASSUME NEW refuses, NEW request, NEW answer, Plain(request), Plain(answer)
    PROVE  BothTrue(Service(refuses, request, answer))
  BY PlainTrue, ServiceTrue

LEMMA PlainOne ==
    /\ \A name, n : Plain(<<Fixed(name, n)>>)
    /\ \A name, b : Plain(<<From(name, b)>>)
    /\ \A name, n, b : Plain(<<Lent(name, n, b)>>)
    /\ \A name, m, n : Plain(<<Part(name, m, n, FALSE)>>)
  <1>1. ASSUME NEW name, NEW m, NEW n PROVE Plain(<<Part(name, m, n, FALSE)>>)
    <2> DEFINE p == Part(name, m, n, FALSE)
    <2>1. p.of = {}
      BY DEF Part
    <2> HIDE DEF p
    <2>2. Plain(<<p>>)
      BY <2>1, PlainTuple
    <2> QED
      BY <2>2 DEF p
  <1>2. \A name, n : Plain(<<Fixed(name, n)>>)
    BY ElementsAre, PlainTuple
  <1>3. \A name, b : Plain(<<From(name, b)>>)
    BY ElementsAre, PlainTuple
  <1>4. \A name, n, b : Plain(<<Lent(name, n, b)>>)
    BY ElementsAre, PlainTuple
  <1> QED
    BY <1>1, <1>2, <1>3, <1>4

LEMMA PlainCiphers ==
    ASSUME NEW c
    PROVE  /\ BothTrue(AesEcbEncrypt(c)) /\ BothTrue(AesEcbDecrypt(c)) /\ BothTrue(CmacHmacCompute(c))
           /\ BothTrue(ProcessHash(c)) /\ BothTrue(FinishHash(c))
           /\ BothTrue(WrapPayload(c)) /\ BothTrue(UnwrapPayload(c)) /\ BothTrue(GenerateRandom(c))
           /\ BothTrue(GenerateChallenge(c)) /\ BothTrue(Echo(c))
  <1> USE ServicePlain, SharedPlain, PlainConcat, PlainOne
  <1>1. Plain(OutputOf(c)) /\ Plain(Tagged(c))
    BY DEF OutputOf, Tagged
  <1>2. Plain(<<Fixed("mac_length", 1), From("message", c.message)>>)
        /\ Plain(<<Fixed("digest_size", 2), Lent("digest", DigestSize[c.algorithm], c.output)>>)
        /\ Plain(<<Fixed("subject", 1), Fixed("size", 1)>>)
    BY ElementsAre, PlainTuple
  <1>3. BothTrue(AesEcbEncrypt(c)) /\ BothTrue(AesEcbDecrypt(c))
    BY <1>1 DEF AesEcbEncrypt, AesEcbDecrypt
  <1>4. BothTrue(CmacHmacCompute(c))
    BY <1>1, <1>2 DEF CmacHmacCompute
  <1>5. BothTrue(ProcessHash(c)) /\ BothTrue(FinishHash(c))
    BY <1>2 DEF ProcessHash, FinishHash
  <1>6. BothTrue(WrapPayload(c)) /\ BothTrue(UnwrapPayload(c))
    BY DEF WrapPayload, UnwrapPayload
  <1>7. BothTrue(GenerateRandom(c)) /\ BothTrue(Echo(c))
    BY <1>1, <1>2 DEF GenerateRandom, Echo
  <1>8. BothTrue(GenerateChallenge(c))
    <2> DEFINE p == Part("challenge", ChallengeSize, c.output.length, c.output.null)
    <2>1. p.of = {}
      BY DEF Part
    <2> HIDE DEF p
    <2>2. Plain(<<p>>)
      BY <2>1, PlainTuple
    <2> QED
      BY <2>2 DEF GenerateChallenge, p
  <1> QED
    BY <1>3, <1>4, <1>5, <1>6, <1>7, <1>8

LEMMA PlainDevice ==
    /\ BothTrue(DeletePassword) /\ BothTrue(PutLifeCycleState) /\ BothTrue(PutI2CParameters)
    /\ BothTrue(QueryMaskId) /\ BothTrue(Reset) /\ BothTrue(Hibernate) /\ BothTrue(Patch)
    /\ BothTrue(LHibernate) /\ BothTrue(LReset) /\ BothTrue(StopVolatileKekSession)
    /\ BothTrue(Service(FALSE, Header \o Tag, Answer))
    /\ \A c : /\ BothTrue(QueryLifeCycleState(c)) /\ BothTrue(QueryI2CParameters(c))
              /\ BothTrue(VerifyPassword(c))
              /\ BothTrue(LEccGenerateSignature(c)) /\ BothTrue(LGetData(c)) /\ BothTrue(LPutData(c))
  <1> USE ServicePlain, SharedPlain, PlainConcat, PlainOne
  <1>1. BothTrue(DeletePassword) /\ BothTrue(PutLifeCycleState) /\ BothTrue(PutI2CParameters)
    BY DEF DeletePassword, PutLifeCycleState, PutI2CParameters
  <1>2. BothTrue(QueryMaskId)
    <2>1. Plain(<<Fixed("sub_tag", 1), Fixed("sub_tag_size", 1), Fixed("mask_id", MaskIdSize)>>)
      BY ElementsAre, PlainTuple
    <2> QED
      BY <2>1 DEF QueryMaskId
  <1>3. /\ BothTrue(Reset) /\ BothTrue(Hibernate) /\ BothTrue(LHibernate) /\ BothTrue(LReset)
        /\ BothTrue(StopVolatileKekSession) /\ BothTrue(Service(FALSE, Header \o Tag, Answer))
    BY DEF Reset, Hibernate, LHibernate, LReset, StopVolatileKekSession
  <1>4. BothTrue(Patch)
    BY DEF Patch
  <1>5. ASSUME NEW c
        PROVE  /\ BothTrue(QueryLifeCycleState(c)) /\ BothTrue(QueryI2CParameters(c))
               /\ BothTrue(VerifyPassword(c))
    <2>1. Plain(Verdict(c))
      BY DEF Verdict
    <2> QED
      BY <2>1 DEF QueryLifeCycleState, QueryI2CParameters, VerifyPassword
  <1>6. ASSUME NEW c
        PROVE  BothTrue(LEccGenerateSignature(c)) /\ BothTrue(LGetData(c)) /\ BothTrue(LPutData(c))
    <2>1. Plain(<<From("challenge", c.message), Fixed("internal_data_subject", 1)>>)
      BY ElementsAre, PlainTuple
    <2> QED
      BY <2>1 DEF LEccGenerateSignature, LGetData, LPutData
  <1> QED
    BY <1>1, <1>2, <1>3, <1>4, <1>5, <1>6

LEMMA PlainKeys ==
    /\ BothTrue(SetGenericPublicSlotConfigurationFlag) /\ BothTrue(GenerateWrapUnwrapKey)
    /\ BothTrue(EraseSymmetricKeySlot)
    /\ \A c : /\ BothTrue(QueryCount(c)) /\ BothTrue(QueryGenericPublicKeySlotInfo(c))
              /\ BothTrue(QueryPrivateKeyTable(c)) /\ BothTrue(QuerySymmetricKeyTable(c))
              /\ BothTrue(EccDecompressPublicKey(c))
              /\ BothTrue(QuerySymmetricKeySlotProvisioningCtrlFields(c))
              /\ BothTrue(PutSymmetricKeySlotProvisioningCtrlFields(c))
              /\ BothTrue(WriteSymmetricKeyWrapped(c)) /\ BothTrue(WriteSymmetricKeyPlaintext(c))
              /\ BothTrue(HostKeyProvisioning(c)) /\ BothTrue(HostKeyProvisioningWrapped(c))
              /\ BothTrue(QueryHostKeyProvisioningCtrlFields(c))
              /\ BothTrue(PutHostKeyProvisioningCtrlFields(c))
              /\ BothTrue(QueryHostKey(c)) /\ BothTrue(QueryHostKeyV2(c))
              /\ BothTrue(PutAttributeHostKey(c))
              /\ c.infos \in Seq(Nat) => BothTrue(ConfirmSymmetricKey(c))
  <1> USE ServicePlain, SharedPlain, PlainConcat, PlainOne
  <1>1. /\ BothTrue(SetGenericPublicSlotConfigurationFlag) /\ BothTrue(GenerateWrapUnwrapKey)
        /\ BothTrue(EraseSymmetricKeySlot)
    BY DEF SetGenericPublicSlotConfigurationFlag, GenerateWrapUnwrapKey, EraseSymmetricKeySlot
  <1> SUFFICES ASSUME NEW c
               PROVE  /\ BothTrue(QueryCount(c)) /\ BothTrue(QueryGenericPublicKeySlotInfo(c))
                      /\ BothTrue(QueryPrivateKeyTable(c)) /\ BothTrue(QuerySymmetricKeyTable(c))
                      /\ BothTrue(EccDecompressPublicKey(c))
                      /\ BothTrue(QuerySymmetricKeySlotProvisioningCtrlFields(c))
                      /\ BothTrue(PutSymmetricKeySlotProvisioningCtrlFields(c))
                      /\ BothTrue(WriteSymmetricKeyWrapped(c)) /\ BothTrue(WriteSymmetricKeyPlaintext(c))
                      /\ BothTrue(HostKeyProvisioning(c)) /\ BothTrue(HostKeyProvisioningWrapped(c))
                      /\ BothTrue(QueryHostKeyProvisioningCtrlFields(c))
                      /\ BothTrue(PutHostKeyProvisioningCtrlFields(c))
                      /\ BothTrue(QueryHostKey(c)) /\ BothTrue(QueryHostKeyV2(c))
                      /\ BothTrue(PutAttributeHostKey(c))
                      /\ c.infos \in Seq(Nat) => BothTrue(ConfirmSymmetricKey(c))
    BY <1>1
  <1>2. /\ BothTrue(QueryCount(c)) /\ BothTrue(QueryGenericPublicKeySlotInfo(c))
        /\ BothTrue(QuerySymmetricKeyTable(c)) /\ BothTrue(EccDecompressPublicKey(c))
    BY DEF QueryCount, QueryGenericPublicKeySlotInfo, QuerySymmetricKeyTable, EccDecompressPublicKey
  <1>3. BothTrue(QueryPrivateKeyTable(c))
    <2>1. Plain(<<Fixed("global_usage_limit", UsageLimitSize),
                  Fixed("table_raw", c.slot_count * PrivateSlotSize)>>)
      BY ElementsAre, PlainTuple
    <2> QED
      BY <2>1 DEF QueryPrivateKeyTable
  <1>4. /\ BothTrue(QuerySymmetricKeySlotProvisioningCtrlFields(c))
        /\ BothTrue(PutSymmetricKeySlotProvisioningCtrlFields(c))
    BY DEF QuerySymmetricKeySlotProvisioningCtrlFields, PutSymmetricKeySlotProvisioningCtrlFields
  <1>5. BothTrue(WriteSymmetricKeyWrapped(c))
    BY DEF WriteSymmetricKeyWrapped
  <1>6. BothTrue(WriteSymmetricKeyPlaintext(c))
    <2> DEFINE m == IF c.symmetric_type = "GENERIC" THEN c.secret_length
                    ELSE PlaintextLength[c.symmetric_type]
               refused == c.message.null \/ c.key_list.null
                          \/ c.symmetric_type \notin DOMAIN PlaintextLength \cup {"GENERIC"}
               k == Fixed("key_info", Head(c.infos))
               p == Part("value", m, c.message.length, FALSE)
    <2>1. k.of = {} /\ p.of = {}
      BY DEF Fixed, Part
    <2> HIDE DEF k, p
    <2>2. Plain(<<k, p>>)
      BY <2>1, PlainTuple
    <2> HIDE DEF refused
    <2>3. BothTrue(Service(refused, Extended \o <<k, p>>, Answer))
      BY <2>2
    <2> QED
      BY <2>3 DEF WriteSymmetricKeyPlaintext, k, p, refused
  <1>7. BothTrue(HostKeyProvisioning(c)) /\ BothTrue(HostKeyProvisioningWrapped(c))
    BY DEF HostKeyProvisioning, HostKeyProvisioningWrapped
  <1>8. \A name, n : BothTrue(QueryAttribute(c, name, n)) /\ BothTrue(PutAttribute(c, name, n))
    BY DEF QueryAttribute, PutAttribute
  <1>9. /\ BothTrue(QueryHostKeyProvisioningCtrlFields(c)) /\ BothTrue(PutHostKeyProvisioningCtrlFields(c))
        /\ BothTrue(QueryHostKey(c)) /\ BothTrue(QueryHostKeyV2(c)) /\ BothTrue(PutAttributeHostKey(c))
    BY <1>8 DEF QueryHostKeyProvisioningCtrlFields, PutHostKeyProvisioningCtrlFields, QueryHostKey,
                QueryHostKeyV2, PutAttributeHostKey
  <1>10. ASSUME c.infos \in Seq(Nat) PROVE BothTrue(ConfirmSymmetricKey(c))
    <2> DEFINE list == [i \in 1..Len(c.infos) |-> Fixed("key_information", c.infos[i] + 2)]
    <2>1. Len(c.infos) \in Nat
      BY <1>10
    <2>2. \A i \in 1..Len(c.infos) : list[i].of = {}
      BY ElementsAre
    <2>3. list = [i \in 1..Len(c.infos) |-> list[i]]
      OBVIOUS
    <2> HIDE DEF list
    <2>4. Plain(list)
      BY <2>1, <2>2, <2>3, PlainEach
    <2> QED
      BY <2>4 DEF ConfirmSymmetricKey, list
  <1> QED
    BY <1>2, <1>3, <1>4, <1>5, <1>6, <1>7, <1>9, <1>10

LEMMA MacTrue ==
    ASSUME NEW c, Ciphering(c), {"message", "output"} \subseteq DOMAIN c
    PROVE  /\ BothTrue(AesGmacCompute(c)) /\ BothTrue(AesGmacVerify(c))
           /\ c.tag.length < Byte => BothTrue(CmacHmacVerify(c))
  <1>1. Ciphering(WithoutMessage(c))
    <2>1. Null \in Lendable
      BY SizeAssumption DEF Null, Lendable
    <2>2. /\ WithoutMessage(c).message = Null /\ WithoutMessage(c).output = Null
          /\ WithoutMessage(c).associated_data = c.associated_data
          /\ WithoutMessage(c).iv = c.iv /\ WithoutMessage(c).tag = c.tag
      BY DEF WithoutMessage
    <2> QED
      BY <2>1, <2>2 DEF Ciphering
  <1>2. BothTrue(AesGmacCompute(c)) /\ BothTrue(AesGmacVerify(c))
    BY <1>1, GcmTrue DEF AesGmacCompute, AesGmacVerify
  <1>3. ASSUME c.tag.length < Byte PROVE BothTrue(CmacHmacVerify(c))
    <2> DEFINE e == OneByte({"authentication_tag"}, c.tag.length)
               f == From("authentication_tag", c.tag)
               m == From("message", c.message)
               before == Header \o SubCommand \o Slot
    <2>1. c.tag.length \in Nat /\ c.tag.length % Byte = c.tag.length
      BY <1>3, SizeAssumption, TableAssumption DEF Ciphering, Lendable
    <2>2. /\ e.name = "length" /\ e.of = {"authentication_tag"} /\ e.says = c.tag.length
          /\ f.name = "authentication_tag" /\ f.of = {} /\ f.length = c.tag.length
          /\ m.name = "message" /\ m.of = {}
      BY <2>1, NumbersAre, ElementsAre
    <2>3. Honest(before) /\ Leaves(before, "message")
      <3>1. Leaves(Header, "message") /\ Leaves(SubCommand, "message") /\ Leaves(Slot, "message")
        BY SharedPlain, PlainRight
      <3> QED
        BY <3>1, SharedHonest, HonestConcat, LeavesConcat
    <2> HIDE DEF e, f, m, before
    <2>4. Announces(e) /\ StandsFor(e, f)
      BY <2>1, <2>2 DEF Announces, StandsFor, Announceable
    <2>5. Honest(before \o (<<e>> \o <<f>>))
      BY <2>2, <2>3, <2>4, BlockOne, HonestConcat
    <2>6. (before \o <<e>>) \o <<f>> = before \o (<<e>> \o <<f>>)
      <3>1. Typical(before) /\ Typical(<<e>>) /\ Typical(<<f>>)
        BY <2>2, <2>3, <2>4, TypicalAre DEF Announces
      <3> QED
        BY <3>1, Regroup
    <2>7. Leaves(before \o (<<e>> \o <<f>>), m.name)
      <3>1. Leaves(<<e>>, "message") /\ Leaves(<<f>>, "message")
        BY <2>2, LeavesTuple
      <3> QED
        BY <2>2, <2>3, <3>1, LeavesConcat
    <2>8. Truthful(before \o <<e>> \o <<f>> \o <<m>>)
      BY <2>2, <2>5, <2>6, <2>7, TrueThen
    <2>9. Plain(Answer \o Verdict(c))
      BY SharedPlain, CipherTruth, PlainConcat
    <2> QED
      BY <2>8, <2>9, PlainTrue, ServiceTrue DEF CmacHmacVerify, Tagged, before, e, f, m
  <1> QED
    BY <1>2, <1>3

\* Two bytes, and the one element they stand for.
LEMMA BigEndianHonest ==
    ASSUME NEW name \in Announceable, NEW n \in 0..(Word - 1), NEW f,
           f.name = name, f.of = {}, f.length = n
    PROVE  /\ Honest(<<BigEndian({name}, n), f>>)
           /\ \A other : other # name => Leaves(<<BigEndian({name}, n), f>>, other)
  <1> DEFINE e == BigEndian({name}, n)
  <1>1. n \in Nat /\ n % Word = n
    BY SizeAssumption
  <1>2. e.name = "length" /\ e.of = {name} /\ e.says = n
    BY <1>1, NumbersAre
  <1> HIDE DEF e
  <1>3. Honest(<<e, f>>)
    BY <1>1, <1>2, BlockOne DEF Announces, StandsFor
  <1>4. \A other : other # name => Leaves(<<e, f>>, other)
    BY <1>2, LeavesTuple
  <1> QED
    BY <1>3, <1>4 DEF e

\* An algorithm that has an identifier of nine bytes.
LEMMA HashIdTrue ==
    ASSUME NEW algorithm \in DOMAIN HashIdLength, algorithm # "SHA_1"
    PROVE  Honest(HashId(algorithm)) /\ Leaves(HashId(algorithm), "message")
  <1> DEFINE f == Fixed("hash_id", 9)
             n == HashIdLength[algorithm]
  <1>1. n = 9 /\ 9 \in 0..(Word - 1)
    BY WidthAssumption, SizeAssumption
  <1>2. f.name = "hash_id" /\ f.of = {} /\ f.length = 9
    BY ElementsAre
  <1>3. "hash_id" \in Announceable /\ "message" # "hash_id"
    BY DEF Announceable
  <1> HIDE DEF f, n
  <1>4. /\ Honest(<<BigEndian({"hash_id"}, n), f>>)
        /\ Leaves(<<BigEndian({"hash_id"}, n), f>>, "message")
    BY <1>1, <1>2, <1>3, BigEndianHonest
  <1> QED
    BY <1>4 DEF HashId, f, n

LEMMA StartHashTrue ==
    ASSUME NEW c, c.algorithm \in DOMAIN HashIdLength, c.algorithm # "SHA_1"
    PROVE  BothTrue(StartHash(c))
  <1> DEFINE m == From("message", c.message)
             before == Extended \o HashId(c.algorithm)
  <1>1. m.name = "message" /\ m.of = {}
    BY ElementsAre
  <1>2. Honest(before) /\ Leaves(before, "message")
    <2>1. Leaves(Extended, "message")
      BY SharedPlain, PlainRight
    <2> QED
      BY <2>1, HashIdTrue, SharedHonest, HonestConcat, LeavesConcat
  <1> HIDE DEF m, before
  <1>3. Truthful(before \o <<m>>)
    BY <1>1, <1>2, TrueThen
  <1> QED
    BY <1>3, SharedPlain, PlainTrue, ServiceTrue DEF StartHash, m, before

\* Keys, and signatures.
LEMMA KeyTrue ==
    ASSUME NEW kt \in KeyTypes
    PROVE  /\ \A b : Honest(Signature(kt, b))
           /\ \A compact, b : Honest(PublicKey(kt, compact, b))
  <1> DEFINE n == EccInfo[kt].coordinate
             half == EccInfo[kt].signature \div 2
             beyond == IF EccInfo[kt].public_key < 2 * n THEN 0 ELSE n
  <1>1. n \in 0..(Word - 1) /\ half \in 0..(Word - 1)
    <2>1. n \in 0..(Word - 1) /\ EccInfo[kt].signature \in 0..(Word - 1)
      BY WidthAssumption
    <2>2. half \in 0..(Word - 1)
      BY <2>1, SizeAssumption
    <2> QED
      BY <2>1, <2>2
  <1>2. {"x", "y", "r", "s"} \subseteq Announceable /\ "point_representation_id" \notin Announceable
    BY DEF Announceable
  <1>3. ASSUME NEW b PROVE Honest(Signature(kt, b))
    <2> DEFINE f == Lent("r", half, b)
               g == Lent("s", half, b)
    <2> HIDE DEF half
    <2>1. /\ f.name = "r" /\ f.of = {} /\ f.length = half
          /\ g.name = "s" /\ g.of = {} /\ g.length = half
      BY ElementsAre
    <2> HIDE DEF f, g
    <2>2. Honest(<<BigEndian({"r"}, half), f>>) /\ Honest(<<BigEndian({"s"}, half), g>>)
      BY <1>1, <1>2, <2>1, BigEndianHonest
    <2>3. Honest(<<BigEndian({"r"}, half), f>> \o <<BigEndian({"s"}, half), g>>)
      BY <2>2, HonestConcat
    <2>4. Honest(<<BigEndian({"r"}, half), f, BigEndian({"s"}, half), g>>)
      BY <2>3, JoinedFour
    <2> QED
      BY <2>4 DEF Signature, half, f, g
  <1>4. ASSUME NEW compact, NEW b PROVE Honest(PublicKey(kt, compact, b))
    <2> DEFINE room == IF b.null THEN 0 ELSE beyond
               f == Lent("x", n, b)
               g == Part("y", n, room, FALSE)
               first == <<BigEndian({"x"}, n), f>>
               second == <<BigEndian({"y"}, n), g>>
    <2>1. /\ f.name = "x" /\ f.of = {} /\ f.length = n
          /\ g.name = "y" /\ g.of = {} /\ g.length = n
      BY DEF Lent, Part
    <2> HIDE DEF n, f, g
    <2>2. Honest(first) /\ Honest(second)
      BY <1>1, <1>2, <2>1, BigEndianHonest
    <2>3. Honest(<<Fixed("point_representation_id", 1)>>)
      BY <1>2, ElementsAre, HonestTuple
    <2> HIDE DEF first, second
    <2>4. Honest(<<Fixed("point_representation_id", 1)>> \o first \o second)
      BY <2>2, <2>3, HonestConcat
    <2>5. PublicKey(kt, compact, b) \in {first, <<Fixed("point_representation_id", 1)>> \o first \o second}
      BY DEF PublicKey, first, second, f, g, n
    <2> QED
      BY <2>2, <2>4, <2>5
  <1> QED
    BY <1>3, <1>4

LEMMA HashOfTrue ==
    ASSUME NEW kt, NEW algorithm,
           kt # "ED25519" => algorithm \in DOMAIN HashIdLength /\ algorithm # "SHA_1"
    PROVE  Honest(HashOf(kt, algorithm))
  <1>1. Honest(<<Fixed("no_hash", 2)>>)
    <2>1. "no_hash" \notin Announceable
      BY DEF Announceable
    <2> QED
      BY <2>1, ElementsAre, HonestTuple
  <1>2. CASE kt = "ED25519"
    BY <1>1, <1>2 DEF HashOf
  <1>3. CASE kt # "ED25519"
    BY <1>3, HashIdTrue DEF HashOf
  <1> QED
    BY <1>2, <1>3

\* The services that agree on a key.
Hashable(kt, algorithm) == kt # "ED25519" => algorithm \in DOMAIN HashIdLength /\ algorithm # "SHA_1"

LEMMA AgreementTrue ==
    ASSUME NEW c
    PROVE  /\ BothTrue(StartVolatileKekSession(c)) /\ BothTrue(EstablishSymmetricKey(c))
           /\ BothTrue(EstablishHostKey(c))
           /\ Hashable(c.signature_key_type, c.algorithm) =>
                 BothTrue(StartVolatileKekSessionAuthenticated(c))
           /\ c.signature_key_type \in KeyTypes /\ Hashable(c.signature_key_type, c.algorithm) =>
                 BothTrue(EstablishSymmetricKeyAuthenticated(c))
           /\ c.algorithm # "SHA_1" => BothTrue(EstablishHostKeyAuthenticated(c))
  <1>1. ~KeyRefused(c) => Honest(Ephemeral(c))
    BY KeyTrue, SharedHonest, HonestConcat DEF KeyRefused, Ephemeral
  <1>2. c.signature_key_type \in KeyTypes /\ Hashable(c.signature_key_type, c.algorithm) => Honest(Signed(c))
    BY KeyTrue, HashOfTrue, SharedHonest, HonestConcat DEF Signed, Hashable
  <1>3. Honest(Padding(1)) /\ Honest(Algorithm) /\ Honest(HostKeyType) /\ Truthful(Answer)
    BY SharedHonest, HonestTrue
  <1>4. BothTrue(StartVolatileKekSession(c))
    BY <1>1, <1>3, HonestConcat, HonestTrue, ServiceTrue DEF StartVolatileKekSession
  <1>5. Hashable(c.signature_key_type, c.algorithm) => BothTrue(StartVolatileKekSessionAuthenticated(c))
    BY <1>1, <1>2, <1>3, HonestConcat, HonestTrue, ServiceTrue DEF StartVolatileKekSessionAuthenticated
  <1>6. c.signature_key_type \in KeyTypes /\ Hashable(c.signature_key_type, c.algorithm) =>
           BothTrue(EstablishSymmetricKeyAuthenticated(c))
    BY <1>1, <1>2, <1>3, HonestConcat, HonestTrue, ServiceTrue DEF EstablishSymmetricKeyAuthenticated
  <1>7. BothTrue(EstablishHostKey(c))
    BY <1>1, <1>3, HonestConcat, HonestTrue, ServiceTrue DEF EstablishHostKey
  <1>8. c.algorithm # "SHA_1" => BothTrue(EstablishHostKeyAuthenticated(c))
    <2>1. c.algorithm # "SHA_1" /\ c.algorithm \in DOMAIN HashIdLength =>
             Hashable(c.signature_key_type, c.algorithm)
      BY DEF Hashable
    <2> QED
      BY <1>1, <1>2, <1>3, <2>1, HonestConcat, HonestTrue, ServiceTrue DEF EstablishHostKeyAuthenticated
  <1> QED
    BY <1>4, <1>5, <1>6, <1>7, <1>8 DEF EstablishSymmetricKey

LEMMA EccTrue ==
    ASSUME NEW c, c.message \in Lendable
    PROVE  /\ BothTrue(EccVerifySignature(c)) /\ BothTrue(EccGenerateSignature(c))
           /\ BothTrue(EccEstablishSharedSecret(c)) /\ BothTrue(VerifyEntitySignature(c))
           /\ BothTrue(WriteGenericEccPublicKey(c)) /\ BothTrue(GenerateEccKeyPair(c))
           /\ BothTrue(QueryGenericPublicKeySlotValue(c)) /\ BothTrue(GenerateEcdheKeyPair(c))
  <1>0. ~KeyRefused(c) => c.key_type \in KeyTypes
    BY DEF KeyRefused
  <1>1. c.key_type \in KeyTypes =>
           /\ Honest(Signature(c.key_type, c.signature))
           /\ Honest(PublicKey(c.key_type, CompactKeys, c.public_key))
           /\ Honest(PublicKey(c.key_type, CompactSignature, c.public_key))
           /\ Honest(PublicKey(c.key_type, CompactAgreement, c.public_key))
    BY KeyTrue
  <1>2. /\ Honest(<<Fixed("subject", 1)>>) /\ Honest(<<Fixed("eddsa_variant", 1)>>)
        /\ Honest(<<Fixed("filler", 1)>>) /\ Honest(<<Fixed("usage_limit", UsageLimitSize)>>)
        /\ Honest(Padding(2)) /\ Honest(CurveId(c.key_type))
    <2>1. {"subject", "eddsa_variant", "filler", "usage_limit"} \cap Announceable = {}
      BY DEF Announceable
    <2> QED
      BY <2>1, ElementsAre, HonestTuple, SharedHonest
  <1>3. Honest(With("message", c.message))
    BY WithHonest DEF Announceable
  <1>4. Truthful(Answer \o <<Lent("signature_validity", 1, c.verification)>>)
        /\ Truthful(Answer \o Verdict(c)) /\ Truthful(Answer)
    BY SharedPlain, PlainOne, PlainConcat, PlainTrue DEF Verdict
  <1>5. BothTrue(EccVerifySignature(c))
    <2> DEFINE variant == IF c.key_type = "ED25519" THEN <<Fixed("eddsa_variant", 1)>> ELSE << >>
    <2>1. Honest(variant)
      BY <1>2, PlainNone
    <2> HIDE DEF variant
    <2>2. ~KeyRefused(c) =>
             Honest(Header \o <<Fixed("subject", 1)>> \o CurveId(c.key_type)
                    \o PublicKey(c.key_type, CompactSignature, c.public_key)
                    \o Signature(c.key_type, c.signature) \o variant \o With("message", c.message))
      BY <1>0, <1>1, <1>2, <1>3, <2>1, SharedHonest, HonestConcat
    <2> QED
      BY <1>4, <2>2, HonestTrue, ServiceTrue DEF EccVerifySignature, variant
  <1>6. BothTrue(EccGenerateSignature(c))
    BY <1>1, <1>3, SharedHonest, HonestConcat, HonestTrue, ServiceTrue DEF EccGenerateSignature
  <1>7. BothTrue(EccEstablishSharedSecret(c))
    <2> DEFINE n == EccInfo[c.key_type].shared_secret
               f == Lent("shared_secret", n, c.output)
    <2>1. c.key_type \in KeyTypes => n \in 0..(Word - 1)
      BY WidthAssumption
    <2> HIDE DEF n
    <2>2. f.name = "shared_secret" /\ f.of = {} /\ f.length = n /\ "shared_secret" \in Announceable
      BY ElementsAre DEF Announceable
    <2> HIDE DEF f
    <2>3. c.key_type \in KeyTypes => Honest(<<BigEndian({"shared_secret"}, n), f>>)
      BY <2>1, <2>2, BigEndianHonest
    <2> QED
      BY <1>0, <1>1, <2>3, SharedHonest, HonestConcat, HonestTrue, ServiceTrue
      DEF EccEstablishSharedSecret, n, f
  <1>8. BothTrue(VerifyEntitySignature(c))
    BY <1>1, <1>2, <1>4, SharedHonest, HonestConcat, HonestTrue, ServiceTrue DEF VerifyEntitySignature
  <1>9. BothTrue(WriteGenericEccPublicKey(c))
    BY <1>0, <1>1, <1>2, SharedHonest, HonestConcat, HonestTrue, ServiceTrue DEF WriteGenericEccPublicKey
  <1>10. BothTrue(GenerateEccKeyPair(c))
    BY <1>0, <1>1, <1>2, SharedHonest, HonestConcat, HonestTrue, ServiceTrue DEF GenerateEccKeyPair
  <1>11. BothTrue(QueryGenericPublicKeySlotValue(c))
    BY <1>0, <1>1, <1>2, SharedHonest, HonestConcat, HonestTrue, ServiceTrue
    DEF QueryGenericPublicKeySlotValue
  <1>12. BothTrue(GenerateEcdheKeyPair(c))
    BY <1>1, <1>2, SharedHonest, HonestConcat, HonestTrue, ServiceTrue DEF GenerateEcdheKeyPair
  <1> QED
    BY <1>5, <1>6, <1>7, <1>8, <1>9, <1>10, <1>11, <1>12

\* All the lists of a sequence, one after the other.
LEMMA HonestFlatten ==
    ASSUME NEW n \in Nat, NEW s, s = [i \in 1..n |-> s[i]], \A i \in 1..n : Honest(s[i])
    PROVE  Honest(FlattenSeq(s))
  <1> DEFINE Is(g) == g = [i \in 1..n |-> IF i = 1 THEN s[i] ELSE g[i - 1] \o s[i]]
             Exists == {m \in Nat : \E g : g = [i \in 1..m |-> IF i = 1 THEN s[i] ELSE g[i - 1] \o s[i]]}
             g == CHOOSE h : Is(h)
             Good == {m \in Nat : m \in 1..n => Honest(g[m])}
  <1>1. Len(s) = n
    OBVIOUS
  <1>2. CASE n = 0
    <2>1. FlattenSeq(s) = s /\ s = << >>
      BY <1>1, <1>2 DEF FlattenSeq
    <2> QED
      BY <2>1, PlainNone
  <1>3. CASE n # 0
    <2>1. 0 \in Exists
      <3>1. << >> = [i \in 1..0 |-> IF i = 1 THEN s[i] ELSE << >>[i - 1] \o s[i]]
        OBVIOUS
      <3> QED
        BY <3>1
    <2>2. ASSUME NEW m \in Nat, m \in Exists PROVE m + 1 \in Exists
      <3>1. PICK f : f = [i \in 1..m |-> IF i = 1 THEN s[i] ELSE f[i - 1] \o s[i]]
        BY <2>2
      <3> DEFINE last == IF m = 0 THEN s[1] ELSE f[m] \o s[m + 1]
                 h == [i \in 1..(m + 1) |-> IF i <= m THEN f[i] ELSE last]
      <3>2. \A i \in 1..m : f[i] = IF i = 1 THEN s[i] ELSE f[i - 1] \o s[i]
        BY <3>1
      <3> HIDE DEF last
      <3>3. ASSUME NEW i \in 1..(m + 1) PROVE h[i] = IF i = 1 THEN s[i] ELSE h[i - 1] \o s[i]
        <4>1. CASE i <= m
          <5>1. h[i] = f[i] /\ (i # 1 => h[i - 1] = f[i - 1])
            BY <4>1
          <5>2. i \in 1..m
            BY <4>1
          <5> HIDE DEF h
          <5> QED
            BY <3>2, <5>1, <5>2
        <4>2. CASE i = m + 1
          <5>1. h[i] = last /\ (i # 1 => h[i - 1] = f[m])
            BY <4>2
          <5>2. i = 1 <=> m = 0
            BY <4>2
          <5> HIDE DEF h
          <5> QED
            BY <4>2, <5>1, <5>2 DEF last
        <4> QED
          BY <4>1, <4>2
      <3>4. h = [i \in 1..(m + 1) |-> h[i]]
        OBVIOUS
      <3> HIDE DEF h
      <3>5. h = [i \in 1..(m + 1) |-> IF i = 1 THEN s[i] ELSE h[i - 1] \o s[i]]
        BY <3>3, <3>4
      <3>6. \E x : x = [i \in 1..(m + 1) |-> IF i = 1 THEN s[i] ELSE x[i - 1] \o s[i]]
        BY <3>5
      <3>7. m + 1 \in Nat
        OBVIOUS
      <3> QED
        BY <3>6, <3>7
    <2> HIDE DEF Exists
    <2>3. Nat \subseteq Exists
      BY <2>1, <2>2, SetInduction
    <2>4. \E h : Is(h)
      BY <2>3 DEF Exists
    <2>5. Is(g)
      BY <2>4
    <2>6. FlattenSeq(s) = g[n]
      BY <1>1, <1>3 DEF FlattenSeq
    <2> HIDE DEF g
    <2>7. \A i \in 1..n : g[i] = IF i = 1 THEN s[i] ELSE g[i - 1] \o s[i]
      BY <2>5
    <2>8. 0 \in Good
      OBVIOUS
    <2>9. ASSUME NEW m \in Nat, m \in Good PROVE m + 1 \in Good
      <3> SUFFICES ASSUME m + 1 \in 1..n PROVE Honest(g[m + 1])
        OBVIOUS
      <3>1. CASE m = 0
        <4>1. m + 1 = 1 /\ g[m + 1] = s[m + 1]
          BY <2>7, <3>1
        <4> QED
          BY <4>1
      <3>2. CASE m # 0
        <4>1. m \in 1..n /\ Honest(g[m]) /\ Honest(s[m + 1])
          BY <2>9, <3>2
        <4>2. m + 1 # 1 /\ (m + 1) - 1 = m
          BY <3>2
        <4>3. g[m + 1] = IF m + 1 = 1 THEN s[m + 1] ELSE g[(m + 1) - 1] \o s[m + 1]
          BY <2>7
        <4>4. g[m + 1] = g[m] \o s[m + 1]
          BY <4>2, <4>3
        <4> QED
          BY <4>1, <4>4, HonestConcat
      <3> QED
        BY <3>1, <3>2
    <2> HIDE DEF Good
    <2>10. Nat \subseteq Good
      BY <2>8, <2>9, SetInduction
    <2>11. n \in 1..n
      BY <1>3
    <2> QED
      BY <2>6, <2>10, <2>11 DEF Good
  <1> QED
    BY <1>2, <1>3

-----------------------------------------------------------------------------
(* The lengths of a derivation                                             *)

Backed(b) == ~b.null \/ b.length = 0
Described(k) == k.length \in Nat /\ (~k.response => ~Undescribed(k.length))

LEMMA DataTrue ==
    ASSUME NEW name \in Announceable, NEW b \in Lendable, Backed(b)
    PROVE  Honest(Data(name, b))
  <1> DEFINE e == BigEndian({name}, b.length)
             f == From(name, b)
  <1>1. b.length \in 0..(Word - 1) /\ b.length \in Nat /\ b.length % Word = b.length
    BY SizeAssumption DEF Lendable
  <1>2. e.name = "length" /\ e.of = {name} /\ e.says = b.length
    BY <1>1, NumbersAre
  <1>3. f.name = name /\ f.of = {} /\ f.length = b.length
    BY ElementsAre
  <1>4. CASE b.length > 0 /\ ~b.null
    <2> HIDE DEF e, f
    <2>1. Honest(<<e>> \o <<f>>)
      BY <1>1, <1>2, <1>3, BlockOne DEF Announces, StandsFor
    <2> QED
      BY <1>4, <2>1 DEF Data, e, f
  <1>5. CASE ~(b.length > 0 /\ ~b.null)
    <2>1. b.length = 0
      BY <1>1, <1>5 DEF Backed
    <2> HIDE DEF e, f
    <2>2. Honest(<<e>> \o << >>)
      BY <1>2, <2>1, BlockNone, PlainNone, HonestConcat DEF Announces
    <2> QED
      BY <1>5, <2>2 DEF Data, e
  <1> QED
    BY <1>4, <1>5

LEMMA DescriptionTrue ==
    ASSUME NEW k, Described(k)
    PROVE  Honest(Description(k)) /\ Derived(k).of = {}
  <1> DEFINE info == IF k.length > 1 THEN <<Fixed("key_info", k.length - 1)>> ELSE << >>
             e == BigEndian({"destination", "lock_indicator", "key_info"}, 1 + k.length)
             d == Fixed("destination", 1)
             l == Fixed("lock_indicator", 1)
             i == Fixed("key_info", k.length - 1)
             r == BigEndian({"destination", "key_length"}, 3)
             n == Fixed("key_length", 2)
             slot == <<e, d, l>>
             response == <<r, d, n>>
  <1>1. /\ d.name = "destination" /\ d.of = {} /\ d.length = 1
        /\ l.name = "lock_indicator" /\ l.of = {} /\ l.length = 1
        /\ i.name = "key_info" /\ i.of = {} /\ i.length = k.length - 1
        /\ n.name = "key_length" /\ n.of = {} /\ n.length = 2
    BY ElementsAre
  <1>2. /\ e.name = "length" /\ e.of = {"destination", "lock_indicator", "key_info"}
        /\ e.says = (1 + k.length) % Word
        /\ r.name = "length" /\ r.of = {"destination", "key_length"} /\ r.says = 3
    <2>1. 3 % Word = 3
      BY SizeAssumption, TableAssumption
    <2> QED
      BY <2>1, NumbersAre
  <1>3. k.length \in Nat
    BY DEF Described
  <1> HIDE DEF e, d, l, i, r, n
  <1>4. Honest(response)
    <2>1. Announces(r) /\ StandsFor(r, d) /\ StandsFor(r, n) /\ r.says = d.length + n.length
      BY <1>1, <1>2 DEF Announces, StandsFor, Announceable
    <2> QED
      BY <2>1, BlockTwo
  <1>5. ASSUME ~k.response PROVE Honest(slot \o info)
    <2>1. k.length >= 1 /\ 1 + k.length < Word
      BY <1>3, <1>5, SizeAssumption DEF Described, Undescribed
    <2>2. e.says = 1 + k.length
      BY <1>2, <1>3, <2>1, SizeAssumption
    <2>3. Announces(e) /\ StandsFor(e, d) /\ StandsFor(e, l)
      BY <1>1, <1>2 DEF Announces, StandsFor, Announceable
    <2>4. CASE k.length > 1
      <3>1. StandsFor(e, i) /\ e.says = d.length + l.length + i.length
        BY <1>1, <1>2, <1>3, <2>2, <2>4 DEF StandsFor
      <3>2. Honest(slot \o <<i>>)
        BY <2>3, <3>1, BlockThree
      <3> QED
        BY <2>4, <3>2 DEF i
    <2>5. CASE ~(k.length > 1)
      <3>1. e.says = d.length + l.length
        BY <1>1, <1>3, <2>1, <2>2, <2>5
      <3>2. Honest(slot \o << >>)
        BY <2>3, <3>1, BlockTwo, PlainNone, HonestConcat
      <3> QED
        BY <2>5, <3>2
    <2> QED
      BY <2>4, <2>5
  <1>6. Derived(k).of = {}
    BY DEF Derived, Part, Fixed
  <1> HIDE DEF info
  <1>7. CASE k.response
    BY <1>4, <1>6, <1>7 DEF Description, r, d, n
  <1>8. CASE ~k.response
    <2>1. Description(k) = slot \o info
      BY <1>8 DEF Description, e, d, l, info
    <2> HIDE DEF slot
    <2> QED
      BY <1>5, <1>6, <1>8, <2>1
  <1> QED
    BY <1>7, <1>8

AllDescribed(okm) == Len(okm) \in Nat /\ \A i \in 1..Len(okm) : Described(okm[i])

\* The derivation command announces its input, its salt, its info and what each key
\* is described by.
LEMMA DeriveTrue ==
    ASSUME NEW c, c.input.slot \/ c.input.buffer \in Lendable,
           c.extract => c.salt.slot \/ (c.salt.buffer \in Lendable /\ Backed(c.salt.buffer)),
           c.expand => c.info \in Lendable /\ Backed(c.info) /\ AllDescribed(c.okm)
    PROVE  BothTrue(DeriveKeys(c))
  <1> DEFINE given == <<Fixed("mode_of_operation", 1), BigEndian({"input"}, c.input.buffer.length),
                        From("input", c.input.buffer)>>
             input == IF c.input.slot THEN Slot ELSE given
             described == [i \in 1..Len(c.okm) |-> Description(c.okm[i])]
             derived == [i \in 1..Len(c.okm) |-> Derived(c.okm[i])]
             source == IF c.salt.slot THEN Slot ELSE Data("salt", c.salt.buffer)
             salt == IF ~c.extract THEN << >> ELSE <<Fixed("salt_source", 1)>> \o source
             info == IF ~c.expand THEN << >> ELSE Data("info", c.info) \o FlattenSeq(described)
             prk == IF c.extract /\ ~c.expand THEN <<Fixed("prk_slot", 1)>> ELSE << >>
             okm == IF c.expand THEN derived ELSE << >>
  <1>1. /\ Honest(<<Fixed("input_source", 1)>>)
        /\ Honest(<<Fixed("hkdf_flags", 1), Fixed("hash_algo", 11)>>)
        /\ Honest(<<Fixed("salt_source", 1)>>) /\ Honest(<<Fixed("mode_of_operation", 1)>>)
    <2>1. {"input_source", "hkdf_flags", "salt_source", "mode_of_operation"} \cap Announceable = {}
      BY DEF Announceable
    <2> QED
      BY <2>1, ElementsAre, HonestTuple
  <1>2. Honest(input)
    <2>1. CASE c.input.slot
      BY <2>1, SharedHonest
    <2>2. CASE ~c.input.slot
      <3> DEFINE e == BigEndian({"input"}, c.input.buffer.length)
                 f == From("input", c.input.buffer)
                 m == Fixed("mode_of_operation", 1)
      <3>1. c.input.buffer.length \in 0..(Word - 1) /\ "input" \in Announceable
        BY <2>2 DEF Lendable, Announceable
      <3>2. f.name = "input" /\ f.of = {} /\ f.length = c.input.buffer.length
        BY ElementsAre
      <3> HIDE DEF f
      <3>3. Honest(<<e, f>>)
        BY <3>1, <3>2, BigEndianHonest
      <3> HIDE DEF e, m
      <3>4. <<m>> \o <<e, f>> = <<m, e, f>>
        BY JoinedThree
      <3>5. Honest(<<m>>)
        BY <1>1 DEF m
      <3>6. Honest(<<m>> \o <<e, f>>)
        BY <3>3, <3>5, HonestConcat
      <3>7. Honest(<<m, e, f>>)
        BY <3>4, <3>6, Zenon
      <3> QED
        BY <2>2, <3>7 DEF m, e, f
    <2> QED
      BY <2>1, <2>2
  <1>3. c.expand => Honest(FlattenSeq(described)) /\ Plain(derived)
    <2> SUFFICES ASSUME c.expand PROVE Honest(FlattenSeq(described)) /\ Plain(derived)
      OBVIOUS
    <2>1. Len(c.okm) \in Nat
      BY DEF AllDescribed
    <2>2. \A i \in 1..Len(c.okm) : Honest(described[i]) /\ derived[i].of = {}
      BY DescriptionTrue DEF AllDescribed
    <2>3. described = [i \in 1..Len(c.okm) |-> described[i]] /\ derived = [i \in 1..Len(c.okm) |-> derived[i]]
      OBVIOUS
    <2> HIDE DEF described, derived
    <2>4. Honest(FlattenSeq(described))
      BY <2>1, <2>2, <2>3, HonestFlatten
    <2>5. Plain(derived)
      BY <2>1, <2>2, <2>3, PlainEach
    <2> QED
      BY <2>4, <2>5
  <1> HIDE DEF input, described, derived
  <1>4. Honest(salt)
    <2>1. CASE ~c.extract
      BY <2>1, SharedHonest
    <2>2. CASE c.extract
      <3>1. Honest(source)
        <4>1. CASE c.salt.slot
          BY <4>1, SharedHonest
        <4>2. CASE ~c.salt.slot
          <5>1. Honest(Data("salt", c.salt.buffer))
            BY <2>2, <4>2, DataTrue DEF Announceable
          <5> QED
            BY <4>2, <5>1
        <4> QED
          BY <4>1, <4>2
      <3> HIDE DEF source
      <3>2. Honest(<<Fixed("salt_source", 1)>> \o source)
        BY <1>1, <3>1, HonestConcat
      <3> QED
        BY <2>2, <3>2
    <2> QED
      BY <2>1, <2>2
  <1>5. Honest(info)
    <2>1. CASE ~c.expand
      BY <2>1, SharedHonest
    <2>2. CASE c.expand
      <3>1. Honest(Data("info", c.info))
        BY <2>2, DataTrue DEF Announceable
      <3>2. Honest(Data("info", c.info) \o FlattenSeq(described))
        BY <1>3, <2>2, <3>1, HonestConcat
      <3> QED
        BY <2>2, <3>2
    <2> QED
      BY <2>1, <2>2
  <1>6. Plain(prk)
    <2>1. prk \in {<<Fixed("prk_slot", 1)>>, << >>}
      OBVIOUS
    <2> HIDE DEF prk
    <2> QED
      BY <2>1, PlainOne, PlainNone
  <1>7. Plain(okm)
    <2>1. CASE c.expand
      BY <1>3, <2>1
    <2>2. CASE ~c.expand
      BY <2>2, PlainNone
    <2> QED
      BY <2>1, <2>2
  <1> HIDE DEF salt, info, prk, okm
  <1>8. Truthful(Extended \o <<Fixed("input_source", 1)>> \o input
                 \o <<Fixed("hkdf_flags", 1), Fixed("hash_algo", 11)>> \o salt \o info)
    BY <1>1, <1>2, <1>4, <1>5, SharedHonest, HonestConcat, HonestTrue
  <1>9. Truthful(Answer \o prk \o okm)
    BY <1>6, <1>7, SharedPlain, PlainConcat, PlainTrue
  <1> QED
    BY <1>8, <1>9, ServiceTrue
    DEF DeriveKeys, input, given, salt, source, info, prk, okm, described, derived

\* A derivation with arguments of its own.
LEMMA DerivationTrue ==
    ASSUME NEW c, {"input_null", "output", "input", "extract", "expand", "salt_null", "salt", "info",
                   "okm_null", "okm"} \subseteq DOMAIN c,
           NEW input, input.slot \/ input.buffer \in Lendable,
           NEW extract, extract => c.salt_data \in Lendable /\ Backed(c.salt_data),
           NEW expand, NEW okm,
           expand => c.context \in Lendable /\ Backed(c.context) /\ AllDescribed(okm)
    PROVE  BothTrue(Derivation(c, input, extract, expand, okm))
  <1> DEFINE d == [c EXCEPT !.input_null = FALSE, !.output = Buffer(1), !.input = input,
                            !.extract = extract, !.expand = expand, !.salt_null = ~extract,
                            !.salt = FromCommand(c.salt_data), !.info = c.context,
                            !.okm_null = ~expand, !.okm = okm]
  <1>1. /\ d.input = input /\ d.extract = extract /\ d.expand = expand
        /\ d.salt = FromCommand(c.salt_data) /\ d.info = c.context /\ d.okm = okm
    OBVIOUS
  <1> HIDE DEF d
  <1>2. d.salt.buffer = c.salt_data
    BY <1>1 DEF FromCommand
  <1>3. BothTrue(DeriveKeys(d))
    BY <1>1, <1>2, DeriveTrue
  <1> QED
    BY <1>3 DEF Derivation, d

-----------------------------------------------------------------------------
(* The announcements of a call                                             *)

Faithful(step) == step.kind = "send" => BothTrue(step.service)

LEMMA FaithfulIs ==
    /\ \A command, service : BothTrue(service) => Faithful(Send(command, service))
    /\ \A ret : Faithful(Finish(ret))
    /\ Faithful(Invalid)
    /\ \A refuses, step : (~refuses => Faithful(step)) => Faithful(Checked(refuses, step))
    /\ \A c, l, service : BothTrue(service) => Faithful(Once(c, l, service))
    /\ \A refuses, c, l, service :
          (~refuses => BothTrue(service)) => Faithful(OnceChecked(refuses, c, l, service))
  <1>1. \A command, service : BothTrue(service) => Faithful(Send(command, service))
    BY SendKind DEF Faithful
  <1>2. (\A ret : Faithful(Finish(ret))) /\ Faithful(Invalid)
    BY SendKind DEF Faithful
  <1>3. ASSUME NEW refuses, NEW step, ~refuses => Faithful(step) PROVE Faithful(Checked(refuses, step))
    BY <1>2, <1>3 DEF Checked
  <1>4. ASSUME NEW c, NEW l, NEW service, BothTrue(service) PROVE Faithful(Once(c, l, service))
    BY <1>1, <1>2, <1>4 DEF Once
  <1>5. ASSUME NEW refuses, NEW c, NEW l, NEW service, ~refuses => BothTrue(service)
        PROVE  Faithful(OnceChecked(refuses, c, l, service))
    BY <1>3, <1>4, <1>5 DEF OnceChecked
  <1> QED
    BY <1>1, <1>2, <1>3, <1>4, <1>5

\* The arguments that break the lengths.
Misleads(c) ==
    \/ c.op = "aes_ccm_encrypt" /\ c.associated_data.length = 0 /\ c.message.length # 0
    \/ c.op = "aes_ccm_decrypt" /\ c.message.length + c.tag.length >= Word
    \/ c.algorithm = "SHA_1"
    \/ \E b \in {c.salt_data, c.context, c.info, c.salt.buffer} : b.null /\ b.length # 0
    \/ \E i \in DOMAIN c.infos : Undescribed(c.infos[i])
    \/ \E i \in DOMAIN c.okm : ~c.okm[i].response /\ Undescribed(c.okm[i].length)

\* What is derived in a call is described.
LEMMA OkmDescribed ==
    ASSUME NEW type \in DOMAIN Calls, NEW c \in Calls[type], ~Misleads(c)
    PROVE  AllDescribed(c.okm)
  <1> DEFINE T == [response : BOOLEAN, length : Nat, room : Nat, null : BOOLEAN]
             okm == c.okm
  <1>1. okm \in Seq(T)
    BY BufferAssumption
  <1>2. \A k \in T : k.length \in Nat
    OBVIOUS
  <1>3. \A i \in DOMAIN okm : okm[i].response \/ ~Undescribed(okm[i].length)
    BY DEF Misleads
  <1> HIDE DEF T, okm
  <1>4. Len(okm) \in Nat /\ \A i \in 1..Len(okm) : okm[i] \in T /\ i \in DOMAIN okm
    BY <1>1
  <1>5. AllDescribed(okm)
    BY <1>2, <1>3, <1>4 DEF AllDescribed, Described
  <1> QED
    BY <1>5 DEF okm

LEMMA CipherCallsTrue ==
    ASSUME NEW c, Given(c), ~Misleads(c), c.op = "cmac_hmac_verify" => c.tag.length < Byte
    PROVE  /\ c.op \in EcbAndCcm => BothTrue(AesEcbAndCcmEncryption(c))
           /\ c.op \in CcmDecryption => BothTrue(AesCcmDecryption(c))
           /\ c.op \in GcmEncryption => BothTrue(AesGcmEncryption(c))
           /\ c.op \in GcmDecryption => BothTrue(AesGcmDecryption(c))
           /\ c.op \in MacCalls => BothTrue(Mac(c))
  <1>1. Ciphering(c) /\ {"message", "output"} \subseteq DOMAIN c
    BY DEF Given, Ciphering
  <1>2. c.op = "aes_ccm_encrypt" => BothTrue(AesCcmEncrypt(c))
    BY <1>1, CcmEncryptTrue DEF Misleads
  <1>3. c.op = "aes_ccm_decrypt" => BothTrue(AesCcmDecrypt(c))
    <2>1. c.message.length \in Nat /\ c.tag.length \in Nat
      BY SizeAssumption DEF Given, Lendable
    <2>2. c.op = "aes_ccm_decrypt" => c.message.length + c.tag.length < Word
      BY <2>1, SizeAssumption DEF Misleads
    <2> QED
      BY <1>1, <2>2, CcmDecryptTrue
  <1>4. c.op \in EcbAndCcm => BothTrue(AesEcbAndCcmEncryption(c))
    BY <1>1, <1>2, PlainCiphers, CcmStartTrue, GcmTrue
    DEF EcbAndCcm, AesEcbAndCcmEncryption, AesCcmEncryptProcess
  <1>5. c.op \in CcmDecryption => BothTrue(AesCcmDecryption(c))
    BY <1>1, <1>3, CcmStartTrue, GcmTrue DEF CcmDecryption, AesCcmDecryption, AesCcmEncryptFinish
  <1>6. c.op \in GcmEncryption => BothTrue(AesGcmEncryption(c))
    BY <1>1, GcmTrue DEF GcmEncryption, AesGcmEncryption, AesCcmDecryptProcess, AesCcmDecryptFinish
  <1>7. c.op \in GcmDecryption => BothTrue(AesGcmDecryption(c))
    BY <1>1, GcmTrue DEF GcmDecryption, AesGcmDecryption
  <1>8. c.op \in MacCalls => BothTrue(Mac(c))
    BY <1>1, MacTrue, PlainCiphers DEF MacCalls, Mac
  <1> QED
    BY <1>4, <1>5, <1>6, <1>7, <1>8

LEMMA LServicesFaithful ==
    ASSUME NEW c, NEW l
    PROVE  Faithful(LEcho(c, l)) /\ Faithful(LWakeup(c, l))
  <1>1. \A d : Faithful(LEcho(d, l))
    <2> SUFFICES ASSUME NEW d PROVE Faithful(LEcho(d, l))
      OBVIOUS
    <2>1. Plain(Header \o <<From("message", d.message)>>) /\ Plain(Answer \o OutputOf(d))
      BY SharedPlain, PlainConcat, PlainOne DEF OutputOf
    <2>2. BothTrue(Service(FALSE, Header \o <<From("message", d.message)>>, Answer \o OutputOf(d)))
      BY <2>1, ServicePlain
    <2> QED
      BY <2>2, FaithfulIs DEF LEcho
  <1> QED
    BY <1>1, FaithfulIs DEF LWakeup

LEMMA HashFaithful ==
    ASSUME NEW c, Given(c), ~Misleads(c), NEW l, NEW type,
           c.op \in {"start_hash", "compute_hash"} => c.algorithm \in DOMAIN HashIdLength
    PROVE  /\ c.op = "compute_hash" => Faithful(ComputeHash(c, l, type))
           /\ c.op \in HashCalls => Faithful(OnceChecked(HashApiRefused(c), c, l, HashApi(c)))
  <1>1. c.algorithm # "SHA_1"
    BY DEF Misleads
  <1>2. ASSUME c.op = "compute_hash", NEW n PROVE BothTrue(StartHash(Piece(c, n)))
    <2> DEFINE d == Piece(c, n)
    <2>1. d.algorithm = c.algorithm
      BY DEF Piece, Given
    <2> HIDE DEF d
    <2>2. BothTrue(StartHash(d))
      BY <1>1, <1>2, <2>1, StartHashTrue
    <2> QED
      BY <2>2 DEF d
  <1>3. \A d : BothTrue(ProcessHash(d)) /\ BothTrue(FinishHash(d))
    BY PlainCiphers
  <1>4. c.op = "compute_hash" => Faithful(Hashed(c, l, type))
    BY <1>2, <1>3, FaithfulIs DEF Hashed
  <1>5. c.op = "compute_hash" => Faithful(ComputeHash(c, l, type))
    BY <1>4, FaithfulIs DEF ComputeHash
  <1>6. c.op \in HashCalls => BothTrue(HashApi(c))
    BY <1>1, <1>3, StartHashTrue DEF HashCalls, HashApi
  <1> QED
    BY <1>5, <1>6, FaithfulIs

LEMMA RandomFaithful ==
    ASSUME NEW c, NEW l, NEW type
    PROVE  Faithful(RandomNumbers(c, l, type))
  <1>1. \A d : BothTrue(GenerateRandom(d))
    BY PlainCiphers
  <1> QED
    BY <1>1, FaithfulIs DEF RandomNumbers

LEMMA KeyCallsFaithful ==
    ASSUME NEW c, c.message \in Lendable, NEW l, NEW type
    PROVE  /\ Faithful(EccVerifySignatureApi(c, l)) /\ Faithful(EccGenerateSignatureApi(c, l, type))
           /\ Faithful(EccEstablishSharedSecretApi(c, l)) /\ Faithful(EccDecompressPublicKeyApi(c, l))
           /\ Faithful(GetEccKeySlotsCount(c, l)) /\ Faithful(GetEccKeyTableInfo(c, l))
           /\ Faithful(GenerateEcdheKeyPairApi(c, l)) /\ Faithful(GenerateEccKeyPairApi(c, l))
           /\ Faithful(WriteGenericEccPublicKeyApi(c, l))
           /\ Faithful(GetEccKeySlotInfo(c, l)) /\ Faithful(GetSymmetricKeySlotInfo(c, l))
  <1>1. Faithful(EccVerifySignatureApi(c, l)) /\ Faithful(EccEstablishSharedSecretApi(c, l))
    BY EccTrue, FaithfulIs DEF EccVerifySignatureApi, EccEstablishSharedSecretApi
  <1>2. Faithful(EccGenerateSignatureApi(c, l, type))
    <2> DEFINE service == IF type = "L010" THEN LEccGenerateSignature(c) ELSE EccGenerateSignature(c)
    <2>1. BothTrue(service)
      BY EccTrue, PlainDevice
    <2> HIDE DEF service
    <2> QED
      BY <2>1, FaithfulIs DEF EccGenerateSignatureApi, service
  <1>3. /\ Faithful(EccDecompressPublicKeyApi(c, l))
        /\ Faithful(GetEccKeySlotsCount(c, l)) /\ Faithful(GetEccKeyTableInfo(c, l))
    BY PlainKeys, FaithfulIs
    DEF EccDecompressPublicKeyApi, GetEccKeySlotsCount, GetEccKeyTableInfo, QueryPrivateKeySlotsCount
  <1>4. /\ Faithful(GenerateEcdheKeyPairApi(c, l)) /\ Faithful(GenerateEccKeyPairApi(c, l))
        /\ Faithful(WriteGenericEccPublicKeyApi(c, l))
    BY EccTrue, FaithfulIs DEF GenerateEcdheKeyPairApi, GenerateEccKeyPairApi, WriteGenericEccPublicKeyApi
  <1>5. \A d : BothTrue(QueryCount(d)) /\ BothTrue(QueryPrivateKeyTable(d)) /\ BothTrue(QuerySymmetricKeyTable(d))
    BY PlainKeys
  <1>6. Faithful(GetEccKeySlotInfo(c, l)) /\ Faithful(GetSymmetricKeySlotInfo(c, l))
    BY <1>5, FaithfulIs DEF GetEccKeySlotInfo, GetSymmetricKeySlotInfo
  <1> QED
    BY <1>1, <1>2, <1>3, <1>4, <1>6

LEMMA SymmetricKeyTrue ==
    ASSUME NEW c, c.op \in SymmetricKeyCalls
    PROVE  BothTrue(SymmetricKeyApi(c))
  <1>1. \A d : /\ BothTrue(QueryCount(d)) /\ BothTrue(QuerySymmetricKeyTable(d))
               /\ BothTrue(QuerySymmetricKeySlotProvisioningCtrlFields(d))
               /\ BothTrue(PutSymmetricKeySlotProvisioningCtrlFields(d))
               /\ BothTrue(WriteSymmetricKeyPlaintext(d))
    BY PlainKeys
  <1> QED
    BY <1>1 DEF SymmetricKeyCalls, SymmetricKeyApi, QuerySymmetricKeySlotsCount

LEMMA BackedBuffers ==
    Backed(Null) /\ Backed(Buffer(3)) /\ Backed(Buffer(SessionIdSize))
  BY DEF Backed, Null, Buffer

LEMMA DerivationsFaithful ==
    ASSUME NEW c, Given(c), ~Misleads(c), AllDescribed(c.okm), NEW l
    PROVE  /\ Faithful(DeriveKey(c, l)) /\ Faithful(DeriveKeySimple(c, l))
           /\ Faithful(DeriveKeyExtract(c, l)) /\ Faithful(DeriveKeyExpand(c, l))
           /\ Faithful(DeriveSessionKeys(c, l))
           /\ c.infos # << >> => Faithful(DeriveKeyToSlot(c, l))
           /\ Faithful(DeriveKeyExpandMultiple(c, l)) /\ Faithful(DeriveKeyFromIkm(c, l))
           /\ BothTrue(DeriveKeys(c))
  <1> DEFINE Taken == {"input_null", "output", "input", "extract", "expand", "salt_null", "salt", "info",
                       "okm_null", "okm"}
  <1>1. /\ Taken \cup {"salt_data", "context"} \subseteq DOMAIN c
        /\ c.message \in Lendable /\ c.output \in Lendable /\ c.tag \in Lendable
        /\ c.salt_data \in Lendable /\ c.context \in Lendable /\ c.infos \in Seq(Nat)
        /\ c.input.buffer \in Lendable /\ c.salt.buffer \in Lendable /\ c.info \in Lendable
    BY DEF Given
  <1>2. FromSlot.slot /\ \A b : FromCommand(b).buffer = b
    BY DEF FromSlot, FromCommand
  <1>3. Backed(c.salt_data) /\ Backed(c.context) /\ Backed(c.info) /\ Backed(c.salt.buffer)
    BY DEF Misleads, Backed
  <1>4. \A k : Described(k) => AllDescribed(<<k>>)
    BY DEF AllDescribed
  <1>5. \A b \in Lendable : AllDescribed(<<InResponse(b)>>)
    <2>1. \A b \in Lendable : Described(InResponse(b))
      BY SizeAssumption DEF Described, InResponse, Lendable
    <2> QED
      BY <1>4, <2>1
  <1>6. ASSUME NEW d, Taken \subseteq DOMAIN d, d.salt_data \in Lendable, d.context \in Lendable,
               d.output \in Lendable, Backed(d.salt_data), Backed(d.context)
        PROVE  /\ BothTrue(Derivation(d, FromSlot, TRUE, TRUE, <<InResponse(d.output)>>))
               /\ BothTrue(Extraction(d))
               /\ \A b \in Lendable : BothTrue(Expansion(d, b))
    <2>1. BothTrue(Derivation(d, FromSlot, TRUE, TRUE, <<InResponse(d.output)>>))
      BY <1>2, <1>5, <1>6, DerivationTrue
    <2>2. BothTrue(Extraction(d))
      BY <1>2, <1>6, DerivationTrue DEF Extraction
    <2>3. ASSUME NEW b \in Lendable PROVE BothTrue(Expansion(d, b))
      BY <1>2, <1>5, <1>6, <2>3, DerivationTrue DEF Expansion
    <2> QED
      BY <2>1, <2>2, <2>3
  <1>7. Faithful(DeriveKey(c, l)) /\ Faithful(DeriveKeyExtract(c, l)) /\ Faithful(DeriveKeyExpand(c, l))
    BY <1>1, <1>3, <1>6, FaithfulIs DEF DeriveKey, DeriveKeyExtract, DeriveKeyExpand
  <1>8. Faithful(DeriveKeySimple(c, l))
    <2> DEFINE d == [c EXCEPT !.salt_data = Null]
    <2>1. Taken \subseteq DOMAIN d /\ d.salt_data = Null /\ d.context = c.context /\ d.output = c.output
      BY <1>1
    <2> HIDE DEF d
    <2>2. Faithful(DeriveKey(d, l))
      BY <1>1, <1>3, <1>6, <2>1, BuffersAre, BackedBuffers, FaithfulIs DEF DeriveKey
    <2> QED
      BY <2>2 DEF DeriveKeySimple, d
  <1>9. Faithful(DeriveSessionKeys(c, l))
    <2> DEFINE named == [c EXCEPT !.context = Buffer(3)]
               salted == [c EXCEPT !.salt_data = Buffer(SessionIdSize)]
    <2>1. /\ Taken \subseteq DOMAIN named /\ named.context = Buffer(3) /\ named.salt_data = c.salt_data
          /\ named.output = c.output
          /\ Taken \subseteq DOMAIN salted /\ salted.context = c.context
          /\ salted.salt_data = Buffer(SessionIdSize) /\ salted.output = c.output
      BY <1>1
    <2> HIDE DEF named, salted
    <2>2. Buffer(3) \in Lendable /\ Buffer(SessionIdSize) \in Lendable
      <3>1. 3 \in 0..(Word - 1) /\ SessionIdSize \in 0..(Word - 1)
        BY TableAssumption, SizeAssumption
      <3> QED
        BY <3>1, BuffersAre
    <2>3. BothTrue(Extraction(salted))
      BY <1>1, <1>3, <1>6, <2>1, <2>2, BackedBuffers
    <2>4. BothTrue(Expansion(named, c.output)) /\ BothTrue(Expansion(named, c.tag))
      BY <1>1, <1>3, <1>6, <2>1, <2>2, BackedBuffers
    <2> QED
      BY <2>3, <2>4, FaithfulIs DEF DeriveSessionKeys, named, salted
  <1>10. c.infos # << >> => Faithful(DeriveKeyToSlot(c, l))
    <2> SUFFICES ASSUME c.infos # << >> PROVE Faithful(DeriveKeyToSlot(c, l))
      OBVIOUS
    <2>1. Head(c.infos) \in Nat /\ Head(c.infos) = c.infos[1] /\ 1 \in DOMAIN c.infos
      BY <1>1
    <2>2. Described(InSlot(c))
      BY <2>1 DEF Described, InSlot, Misleads
    <2>3. AllDescribed(<<InSlot(c)>>)
      BY <1>4, <2>2
    <2>4. BothTrue(Derivation(c, FromSlot, TRUE, TRUE, <<InSlot(c)>>))
      BY <1>1, <1>2, <1>3, <2>3, DerivationTrue
    <2> QED
      BY <2>4, FaithfulIs DEF DeriveKeyToSlot
  <1>11. Faithful(DeriveKeyExpandMultiple(c, l))
    <2>1. BothTrue(Derivation(c, FromSlot, FALSE, TRUE, c.okm))
      BY <1>1, <1>2, <1>3, DerivationTrue
    <2> QED
      BY <2>1, FaithfulIs DEF DeriveKeyExpandMultiple
  <1>12. Faithful(DeriveKeyFromIkm(c, l))
    <2>1. BothTrue(Derivation(c, FromCommand(c.message), TRUE, TRUE, <<InResponse(c.output)>>))
      BY <1>1, <1>2, <1>3, <1>5, DerivationTrue
    <2> QED
      BY <2>1, FaithfulIs DEF DeriveKeyFromIkm
  <1>13. BothTrue(DeriveKeys(c))
    BY <1>1, <1>3, DeriveTrue
  <1> QED
    BY <1>7, <1>8, <1>9, <1>10, <1>11, <1>12, <1>13

LEMMA DeviceCallsFaithful ==
    ASSUME NEW c, NEW l, NEW type
    PROVE  /\ Faithful(InitHandle(c, l, type)) /\ Faithful(DeviceEnterHibernate(c, l, type))
           /\ Faithful(DevicePower(c, l))
           /\ Faithful(DeviceEcho(c, l, type)) /\ Faithful(DeviceReset(c, l, type))
           /\ Faithful(DeviceLock(c, l, type)) /\ Faithful(DeviceUnlock(c, l, type))
           /\ Faithful(DeviceGetLifeCycleState(c, l, type)) /\ Faithful(PutI2CParametersApi(c, l))
  <1>1. Faithful(InitHandle(c, l, type))
    <2>1. Faithful([kind |-> "platform"])
      BY DEF Faithful
    <2> QED
      BY <2>1, PlainDevice, FaithfulIs DEF InitHandle
  <1>2. Faithful(DeviceEnterHibernate(c, l, type)) /\ Faithful(DeviceReset(c, l, type))
    <2>1. BothTrue(IF type = "L010" THEN LHibernate ELSE Hibernate)
          /\ BothTrue(IF type = "L010" THEN LReset ELSE Reset)
      BY PlainDevice
    <2> QED
      BY <2>1, FaithfulIs DEF DeviceEnterHibernate, DeviceReset
  <1>3. Faithful(DevicePower(c, l))
    <2>1. Faithful([kind |-> "power"])
      BY DEF Faithful
    <2> QED
      BY <2>1, FaithfulIs DEF DevicePower
  <1>4. Faithful(DeviceEcho(c, l, type))
    BY PlainCiphers, LServicesFaithful, FaithfulIs DEF DeviceEcho
  <1>5. ASSUME NEW tries, NEW command PROVE Faithful(ChangeLifeCycle(c, l, type, tries, command))
    <2>1. \A d : BothTrue(VerifyPassword(d))
      BY PlainDevice
    <2> QED
      BY <2>1, PlainDevice, FaithfulIs DEF ChangeLifeCycle
  <1>6. Faithful(DeviceLock(c, l, type)) /\ Faithful(DeviceUnlock(c, l, type))
    BY <1>5 DEF DeviceLock, DeviceUnlock
  <1>7. Faithful(DeviceGetLifeCycleState(c, l, type)) /\ Faithful(PutI2CParametersApi(c, l))
    BY PlainDevice, FaithfulIs DEF DeviceGetLifeCycleState, PutI2CParametersApi
  <1> QED
    BY <1>1, <1>2, <1>3, <1>4, <1>6, <1>7

\* The services of one exchange without an API function of their own.
LEMMA DirectTrue ==
    ASSUME NEW type \in DOMAIN Calls, NEW c \in Calls[type], ~Misleads(c), c.op \in DirectCalls
    PROVE  BothTrue(DirectService(c))
  <1>1. Given(c) /\ AllDescribed(c.okm)
    BY GivenCalls, OkmDescribed
  <1>2. c.message \in Lendable /\ c.infos \in Seq(Nat) /\ c.algorithm # "SHA_1"
    BY <1>1 DEF Given, Misleads
  <1>3. c.op = "start_volatile_kek_session_authenticated" =>
           BothTrue(StartVolatileKekSessionAuthenticated(c))
    <2>1. c.op = "start_volatile_kek_session_authenticated" => c.algorithm \in DOMAIN HashIdLength
      BY CallerAssumption
    <2> QED
      BY <1>2, <2>1, AgreementTrue DEF Hashable
  <1>4. c.op = "establish_symmetric_key_authenticated" => BothTrue(EstablishSymmetricKeyAuthenticated(c))
    <2>1. c.op = "establish_symmetric_key_authenticated" =>
             c.algorithm \in DOMAIN HashIdLength /\ c.signature_key_type \in KeyTypes
      BY CallerAssumption
    <2> QED
      BY <1>2, <2>1, AgreementTrue DEF Hashable
  <1>5. /\ BothTrue(StartVolatileKekSession(c)) /\ BothTrue(EstablishSymmetricKey(c))
        /\ BothTrue(EstablishHostKey(c)) /\ BothTrue(EstablishHostKeyAuthenticated(c))
    BY <1>2, AgreementTrue
  <1>6. /\ BothTrue(WrapPayload(c)) /\ BothTrue(UnwrapPayload(c)) /\ BothTrue(GenerateChallenge(c))
        /\ BothTrue(VerifyEntitySignature(c)) /\ BothTrue(QueryGenericPublicKeySlotValue(c))
    BY <1>2, PlainCiphers, EccTrue
  <1>7. /\ BothTrue(DeletePassword) /\ BothTrue(QueryI2CParameters(c)) /\ BothTrue(StopVolatileKekSession)
        /\ BothTrue(Patch) /\ BothTrue(LGetData(c)) /\ BothTrue(LPutData(c))
    BY PlainDevice
  <1>8. /\ BothTrue(QueryGenericPublicKeySlotsCount(c)) /\ BothTrue(QueryGenericPublicKeySlotInfo(c))
        /\ BothTrue(SetGenericPublicSlotConfigurationFlag)
        /\ BothTrue(ConfirmSymmetricKey(c)) /\ BothTrue(WriteSymmetricKeyWrapped(c))
        /\ BothTrue(GenerateWrapUnwrapKey) /\ BothTrue(EraseSymmetricKeySlot)
        /\ BothTrue(QueryHostKeyProvisioningCtrlFields(c)) /\ BothTrue(PutHostKeyProvisioningCtrlFields(c))
        /\ BothTrue(QueryHostKey(c)) /\ BothTrue(QueryHostKeyV2(c)) /\ BothTrue(PutAttributeHostKey(c))
        /\ BothTrue(HostKeyProvisioning(c)) /\ BothTrue(HostKeyProvisioningWrapped(c))
    BY <1>2, PlainKeys DEF QueryGenericPublicKeySlotsCount
  <1>9. BothTrue(DeriveKeys(c))
    BY <1>1, DerivationsFaithful
  <1> QED
    BY <1>3, <1>4, <1>5, <1>6, <1>7, <1>8, <1>9 DEF DirectService, DirectCalls, EphemeralKeys

LEMMA CallFaithful ==
    ASSUME NEW type \in DOMAIN Calls, NEW c \in Calls[type], ~Misleads(c), NEW l
    PROVE  /\ c.op \in EcbAndCcm => Faithful(Once(c, l, AesEcbAndCcmEncryption(c)))
           /\ c.op \in CcmDecryption => Faithful(Once(c, l, AesCcmDecryption(c)))
           /\ c.op \in GcmEncryption => Faithful(Once(c, l, AesGcmEncryption(c)))
           /\ c.op \in GcmDecryption => Faithful(Once(c, l, AesGcmDecryption(c)))
           /\ c.op \in MacCalls => Faithful(Once(c, l, Mac(c)))
           /\ c.op = "compute_hash" => Faithful(ComputeHash(c, l, type))
           /\ c.op \in HashCalls => Faithful(OnceChecked(HashApiRefused(c), c, l, HashApi(c)))
           /\ c.op = "derive_key_to_slot" => Faithful(DeriveKeyToSlot(c, l))
  <1>1. Given(c) /\ AllDescribed(c.okm)
    BY GivenCalls, OkmDescribed
  <1>2. c.op = "cmac_hmac_verify" => c.tag.length < Byte
    BY CallerAssumption
  <1>3. c.op \in {"start_hash", "compute_hash"} => c.algorithm \in DOMAIN HashIdLength
    BY CallerAssumption
  <1>4. c.op = "derive_key_to_slot" => c.infos # << >>
    BY CallerAssumption
  <1>5. /\ c.op \in EcbAndCcm => BothTrue(AesEcbAndCcmEncryption(c))
        /\ c.op \in CcmDecryption => BothTrue(AesCcmDecryption(c))
        /\ c.op \in GcmEncryption => BothTrue(AesGcmEncryption(c))
        /\ c.op \in GcmDecryption => BothTrue(AesGcmDecryption(c))
        /\ c.op \in MacCalls => BothTrue(Mac(c))
    BY <1>1, <1>2, CipherCallsTrue
  <1>6. /\ c.op = "compute_hash" => Faithful(ComputeHash(c, l, type))
        /\ c.op \in HashCalls => Faithful(OnceChecked(HashApiRefused(c), c, l, HashApi(c)))
    BY <1>1, <1>3, HashFaithful
  <1>7. c.op = "derive_key_to_slot" => Faithful(DeriveKeyToSlot(c, l))
    BY <1>1, <1>4, DerivationsFaithful
  <1> QED
    BY <1>5, <1>6, <1>7, FaithfulIs

\* Whatever a call sends announces its lengths rightly, at each of its exchanges,
\* unless its arguments are of those that break them.
LEMMA StepFaithful ==
    ASSUME NEW type \in DOMAIN Calls, NEW c, NEW l,
           c.op # "init" => c \in Calls[type], ~Misleads(c)
    PROVE  Faithful(Step(c, l, type))
  <1>1. CASE c.op = "init"
    <2>1. Faithful(InitHandle(c, l, type)) /\ Faithful(Finish("HANDLER_NOT_INITIALISED"))
      BY FaithfulIs, DeviceCallsFaithful
    <2> QED
      BY <1>1, <2>1 DEF Step, EcbAndCcm, CcmDecryption, GcmEncryption, GcmDecryption, MacCalls,
         HashCalls, SymmetricKeyCalls
  <1>2. CASE c.op # "init"
    <2>0. c \in Calls[type] /\ Given(c) /\ AllDescribed(c.okm) /\ c.message \in Lendable
      BY <1>2, GivenCalls, OkmDescribed DEF Given
    <2>1. /\ c.op \in EcbAndCcm => Faithful(Once(c, l, AesEcbAndCcmEncryption(c)))
          /\ c.op \in CcmDecryption => Faithful(Once(c, l, AesCcmDecryption(c)))
          /\ c.op \in GcmEncryption => Faithful(Once(c, l, AesGcmEncryption(c)))
          /\ c.op \in GcmDecryption => Faithful(Once(c, l, AesGcmDecryption(c)))
          /\ c.op \in MacCalls => Faithful(Once(c, l, Mac(c)))
          /\ c.op = "compute_hash" => Faithful(ComputeHash(c, l, type))
          /\ c.op \in HashCalls => Faithful(OnceChecked(HashApiRefused(c), c, l, HashApi(c)))
          /\ c.op = "derive_key_to_slot" => Faithful(DeriveKeyToSlot(c, l))
      BY <2>0, CallFaithful
    <2>2. /\ c.op \in SymmetricKeyCalls => Faithful(Once(c, l, SymmetricKeyApi(c)))
          /\ Faithful(RandomNumbers(c, l, type))
      BY SymmetricKeyTrue, RandomFaithful, FaithfulIs
    <2>3. /\ Faithful(EccVerifySignatureApi(c, l)) /\ Faithful(EccGenerateSignatureApi(c, l, type))
          /\ Faithful(EccEstablishSharedSecretApi(c, l)) /\ Faithful(EccDecompressPublicKeyApi(c, l))
          /\ Faithful(GetEccKeySlotsCount(c, l)) /\ Faithful(GetEccKeyTableInfo(c, l))
          /\ Faithful(GenerateEcdheKeyPairApi(c, l)) /\ Faithful(GenerateEccKeyPairApi(c, l))
          /\ Faithful(WriteGenericEccPublicKeyApi(c, l))
          /\ Faithful(GetEccKeySlotInfo(c, l)) /\ Faithful(GetSymmetricKeySlotInfo(c, l))
      BY <2>0, KeyCallsFaithful
    <2>4. /\ Faithful(DeriveKey(c, l)) /\ Faithful(DeriveKeySimple(c, l))
          /\ Faithful(DeriveKeyExtract(c, l)) /\ Faithful(DeriveKeyExpand(c, l))
          /\ Faithful(DeriveSessionKeys(c, l))
          /\ Faithful(DeriveKeyExpandMultiple(c, l)) /\ Faithful(DeriveKeyFromIkm(c, l))
      BY <2>0, DerivationsFaithful
    <2>5. /\ Faithful(DeviceEnterHibernate(c, l, type)) /\ Faithful(DevicePower(c, l))
          /\ Faithful(DeviceEcho(c, l, type)) /\ Faithful(DeviceReset(c, l, type))
          /\ Faithful(DeviceLock(c, l, type)) /\ Faithful(DeviceUnlock(c, l, type))
          /\ Faithful(DeviceGetLifeCycleState(c, l, type)) /\ Faithful(PutI2CParametersApi(c, l))
          /\ Faithful(LWakeup(c, l)) /\ Faithful(Finish("HANDLER_NOT_INITIALISED"))
      BY DeviceCallsFaithful, LServicesFaithful, FaithfulIs
    <2>6. c.op \in DirectCalls => Faithful(Once(c, l, DirectService(c)))
      BY <2>0, DirectTrue, FaithfulIs
    <2>7. c.op \in ComposedCalls \cup DirectCalls
      BY <2>0, FunctionAssumption
    <2> QED
      BY <1>2, <2>1, <2>2, <2>3, <2>4, <2>5, <2>6, <2>7 DEF Step, ComposedCalls
  <1> QED
    BY <1>1, <1>2

-----------------------------------------------------------------------------
(* Every step announces rightly                                            *)

\* What LengthsTrue rests on: the frames on the way are lists whose announcements
\* reach as far as the elements that they stand for.
TruthInv == OnTheWay /\ ~BreaksLengths => BothTrue(cmd.service)

LEMMA TruthRest == ASSUME ~OnTheWay' PROVE TruthInv'
  BY DEF TruthInv

LEMMA TruthStep ==
    ASSUME Shape, Fields, LendInv, TruthInv, [Next]_vars
    PROVE  TruthInv'
  <1>1. CASE \E c \in Calls[handle.type] : Call(c)
    <2>1. ~OnTheWay'
      BY <1>1 DEF Call, OnTheWay
    <2> QED
      BY <2>1, TruthRest
  <1>2. CASE HostReturns \/ PreparesPlatform \/ SwitchesPower
    <2>1. ~OnTheWay'
      BY <1>2 DEF HostReturns, PreparesPlatform, SwitchesPower, Returns, OnTheWay
    <2> QED
      BY <2>1, TruthRest
  <1>3. CASE HostSends
    <2>1. CASE RefusalOf(NextStep.service) = "NONE"
      <3>1. /\ phase = "host" /\ NextStep.kind = "send" /\ cmd' = NextStep
            /\ UNCHANGED <<handle, call>>
        BY <1>3, <2>1 DEF HostSends
      <3>2. ASSUME ~BreaksLengths PROVE BothTrue(NextStep.service)
        <4>1. ~Misleads(call)
          BY <3>2 DEF BreaksLengths, Misleads
        <4>2. handle.type \in DOMAIN Calls
          BY DEF Shape
        <4>3. call.op # "init" => call \in Calls[handle.type]
          BY <3>1 DEF LendInv
        <4>4. Faithful(NextStep)
          BY <4>1, <4>2, <4>3, StepFaithful DEF NextStep
        <4> QED
          BY <3>1, <4>4 DEF Faithful
      <3>3. BreaksLengths' <=> BreaksLengths
        BY <3>1 DEF BreaksLengths
      <3>4. ~BreaksLengths' => BothTrue(cmd.service)'
        BY <3>1, <3>2, <3>3 DEF BothTrue
      <3> QED
        BY <3>4 DEF TruthInv
    <2>2. CASE RefusalOf(NextStep.service) # "NONE"
      <3>1. ExchangeFails(RefusalOf(NextStep.service)) /\ phase # "idle"
        BY <1>3, <2>2 DEF HostSends
      <3> QED
        BY <3>1, FailureIs, TruthRest DEF OnTheWay
    <2> QED
      BY <2>1, <2>2
  <1>4. CASE Deliver
    <2>1. ~OnTheWay'
      BY <1>4 DEF Deliver, Returns, OnTheWay
    <2> QED
      BY <2>1, TruthRest
  <1>5. CASE Fails
    <2>1. PICK ret : ExchangeFails(ret) /\ phase # "idle"
      BY <1>5 DEF Fails
    <2> QED
      BY <2>1, FailureIs, TruthRest DEF OnTheWay
  <1>6. CASE Execute \/ Retransmit \/ PowerLoss \/ OtherTask \/ UNCHANGED vars
    <2>1. UNCHANGED <<call, cmd>> /\ (OnTheWay' => OnTheWay)
      BY <1>6 DEF Execute, Retransmit, PowerLoss, OtherTask, vars, OnTheWay
    <2>2. BreaksLengths' <=> BreaksLengths
      BY <2>1 DEF BreaksLengths
    <2>3. BothTrue(cmd.service)' <=> BothTrue(cmd.service)
      BY <2>1 DEF BothTrue
    <2> QED
      BY <2>1, <2>2, <2>3 DEF TruthInv
  <1>7. CASE Return
    <2>1. ~OnTheWay'
      BY <1>7 DEF Return, OnTheWay
    <2> QED
      BY <2>1, TruthRest
  <1> QED
    BY <1>1, <1>2, <1>3, <1>4, <1>5, <1>6, <1>7 DEF Next, Host

\* An announcement that reaches far enough counts what follows it.
LEMMA TruthIs ==
    ASSUME NEW s, Truthful(s), NEW i \in DOMAIN s, s[i].of # {}
    PROVE  s[i].says = Announced(s, i)
  <1>1. PICK T : s \in Seq(T)
    BY DEF Truthful, Typical
  <1>2. i \in 1..Len(s)
    BY <1>1
  <1>3. RightAt(s, i)
    BY <1>2 DEF Truthful, Right
  <1> QED
    BY <1>1, <1>2, <1>3, ReachesIs

\* Every length that a command announces, or that is expected in an answer, is the
\* length of the elements that it stands for (LengthsTrue), in any of the calls and
\* for buffers, keys and messages of any size, with the exceptions that
\* BreaksLengths names: service by service, an announcement reaches just as far as
\* the elements of its names, in a list that begins with a name of no announcement.
THEOREM LengthsAnnounced == Spec => []LengthsTrue
  <1> DEFINE Inv == /\ Shape /\ Fields /\ InitInv /\ SessionInv /\ SentInv /\ Typed
                    /\ RandomInv /\ HashInv /\ DoneInv /\ LendInv /\ TruthInv
  <1>1. Init => Inv
    <2> SUFFICES ASSUME Init PROVE Inv
      OBVIOUS
    <2>1. Shape /\ Fields /\ Typed
      BY InitShape, FieldsInit, InitTyped
    <2>2. phase = "idle" /\ ~OnTheWay /\ local = NoLocal
      BY DEF Init, OnTheWay
    <2>3. InitInv
      BY DEF Init, InitInv, OnTheWay, NoCall
    <2>4. LendInv /\ TruthInv
      BY <2>2 DEF LendInv, NoLocal, TruthInv
    <2> QED
      BY <2>1, <2>2, <2>3, <2>4 DEF SessionInv, RandomInv, HashInv, SentInv, DoneInv
  <1>2. Inv /\ [Next]_vars => Inv'
    <2> SUFFICES ASSUME Inv, [Next]_vars PROVE Inv'
      OBVIOUS
    <2>1. Shape' /\ Fields'
      BY NextShape, FieldsStep
    <2>2. InitInv' /\ SessionInv' /\ SentInv' /\ Typed'
      BY InitInvStep, SessionStep, SentStep, TypedStep
    <2>3. RandomInv' /\ HashInv' /\ DoneInv' /\ LendInv' /\ TruthInv'
      BY <2>1, RandomStep, HashStep, DoneStep, LendStep, TruthStep
    <2> QED
      BY <2>1, <2>2, <2>3
  <1>3. Inv => LengthsTrue
    <2> SUFFICES ASSUME Inv, phase = "bus", ~BreaksLengths,
                        NEW frame \in {cmd.service.request, cmd.service.answer},
                        NEW i \in DOMAIN frame, frame[i].of # {}
                 PROVE  frame[i].says = Announced(frame, i)
      BY DEF LengthsTrue
    <2>1. Truthful(frame)
      BY DEF TruthInv, OnTheWay, BothTrue
    <2> QED
      BY <2>1, TruthIs
  <1> QED
    BY <1>1, <1>2, <1>3, PTL DEF Spec
===============================================================================

# STSELib in TLA+

STSELib is the host-side C library for the STSAFE-A (A100, A110, A120) and
STSAFE-L (L010) secure elements of STMicroelectronics. This directory holds TLA+
models of its core logic, the TLC configurations that check them on small
instances, and theorems that the TLA+ proof system checks for every value of the
constants. The source is in `src/`; `PROJECT.json` maps each definition to the
lines it models.

The library is sequential. A call runs to its end on the stack of its caller;
what acts between two of its steps is the secure element, the bus, and a restart
of the host. The hard behaviours come from there: an acknowledge that is lost
although the frame arrived, an answer that is damaged or lost, a retransmission,
two counters on two sides of the bus, and state in the handler that one call
leaves for the next.

## 1. Inventory

| Component | State | Operations | Hard behaviour | Correct when |
|---|---|---|---|---|
| Frames (`core/stse_frame.c`) | a linked list of elements, its length and count; the elements live on the stacks of the callers | push, pop, update, append, insert strap, unstrap, swap byte order, CRC | borrowed elements, aliasing of one list by two frames, zero-length elements | every borrowed element is off the list when its owner returns |
| Transfer, STSAFE-A (`stsafea_frame_transfer.c`) | the frames and, on the stack, retries, length, filler, CRC | transmit, receive, raw transfer, dispatch | lost acknowledges, two reads of which one has a CRC, 16-bit lengths, ten early returns | status is that of the answer, frames restored, payload in order, polling ends |
| Host sessions (`stsafea_sessions.c`, `core/stse_session.c`) | session contexts with MAC counter and keys, `pActive_host_session` of the handler | open, close, select, encrypt, decrypt, C-MAC, R-MAC, authenticated and encrypted transfer | two counters that must agree, retransmission of a MACed frame, several sessions, restart, counter maximum | counters agree or fail safe; at most one execution; no dangling session |
| Personalisation (`stsafea_commands.c`, `core/stse_device.c`) | `perso_info` in the handler: packed access conditions and flags | default, update, getters, setters | packed fields, two command families, failing queries | every command goes the way its record demands |
| Zone services (`stsafea_data_partition.c`) | none; switch `perso_info` for one command | count, table, decrement, read counter, read, update | early return between switch and restore | a protection lasts one command |
| Host key slot (`stsafea_host_key_slot.c`) | the slot in the secure element | query, put control fields, provision, establish | a new key resets the counter under open sessions | as for sessions |
| Volatile KEK sessions and symmetric keys (`api/stse_symmetric_keys_management.c`, `stsafea_symmetric_key_slots.c`) | a KEK session with a working-key counter, the slots | start, wrap, write, stop, establish, confirm | a step fails after the secure element has acted: an open session, a secret in its RAM, a key whose write was not reported, a list with swapped bytes | the caller never holds a key the slot does not; no session, counter or secret that a call leaves behind spoils a later one |
| Data storage (`api/stse_data_storage.c`) | the variables of a call; zone and counter of the secure element | reads and counter reads in chunks, update, decrement, change of conditions | 16-bit offsets, failure after some chunks, retransmission, power loss in an update, another task | the buffer has whole chunks of the zone from its start, an OK means stored, a counter is the counter |
| AES, hash, MAC (`api/stse_aes.c`, `stse_hash.c`, `stsafea_aes.c`, `stsafea_hash.c`) | the operation open in the secure element | start, process, finish | lengths announced apart from what they announce, pieces of a message, a context left open | frames are well formed and in their buffers, the digest is of the whole message |
| Keys and derivation (`api/stse_derive_keys.c`, `stse_ecc.c`, `stse_asymmetric_keys_management.c`, the slot services) | key slots, slots for pseudo-random keys | generate, sign, verify, agree, extract, expand, query tables | tables whose length two sides tell, two coordinates or one, three exchanges for one session | loops stay in tables, both keys are of one session |
| Device management (`api/stse_device_management.c`) | handler; power, life cycle and password tries of the secure element | init, lock, unlock, power, reset, hibernate | order at initialisation, two exchanges for a lock | a handler knows its device, no lock without password |
| STSAFE-L (`services/stsafel/`) | as for the STSAFE-A transfer | transfer over I2C and ST1-Wire, zones, echo, signature, device data, power | a length without CRC, a poll that is not looked at, exits that leave the CRC element behind | OK means that every element is full |
| Certificates (`certificate/`) | a parsed certificate | parse, verify | lengths inside lengths | parsing stays in the buffer |
| Other services | none | one command each | none of their own | - |
| Platform (`core/stse_platform.h`) | external | bus and cryptography | may fail at every call | - |

How they interact: a service lays out a command frame and a response frame on its
stack and calls `stsafea_frame_transfer`. The dispatch reads `perso_info` of the
handler and sends the frame raw, or through the session `pActive_host_session`.
A session appends a MAC (and replaces the payload by an encrypted one through a
strap), calls `stsafea_frame_raw_transfer`, and looks at the status to decide
whether its counter moves. The raw transfer borrows both frames for a CRC element
and a filler. Zone services write `perso_info` before the dispatch reads it. The
functions of `src/api` call one service, or several in a loop or a row, and keep
offsets, counts and verdicts in local variables in between; the secure element keeps
a hash context, extracted keys and the life cycle.

## 2. Modules

| Module | Models | Proofs |
|---|---|---|
| `SecureChannel` | abstract: what a session promises | - |
| `HostSession` | sessions and protected transfers; implements `SecureChannel` | `HostSession_proofs` |
| `FrameTransfer` | one raw transfer in detail | `FrameTransfer_proofs` |
| `PersoInfo` | `perso_info`: update, dispatch, zone accesses | `PersoInfo_proofs` |
| `KeyProvisioning` | how keys get into the host key slot and the symmetric key slots | `KeyProvisioning_proofs` |
| `Frames` | elements and frames, used by both transfers and the services | `Frames_proofs` |
| `DataStorage` | abstract transfer: zones, counters and the chunked API of both families | `DataLink_proofs` |
| `LFrameTransfer` | one STSAFE-L transfer in detail, both buses | `LFrameTransfer_proofs` |
| `DataLink` | composes `DataStorage` and `LFrameTransfer`; implements `DataStorage` | `DataLink_proofs` |
| `ServiceFrames`, `CipherServices`, `KeyServices` | what each service refuses and which frames it lends | - |
| `DeviceApi` | the functions of `src/api` as the exchanges they do next | - |
| `Services` | an application, a handle, a secure element and calls of several exchanges | `Services_proofs` |
| `MCHostSession`, `MCFrameTransfer`, `MCPersoInfo`, `MCKeyProvisioning`, `MCDataLink`, `MCServices` | the instances for TLC | - |

### HostSession

`session[s]` is the `stse_session_t` a caller owns (its type and `MAC_counter`),
`pActive_host_session` the pointer in the handler, `call` the stack of the running
library call: the command, the counter its C-MAC was computed under, the retries
left and the return code. `sequence_counter` and `answer` belong to the secure
element. `accepted` (acceptances of the command of the running call) and `synced`
(sessions that saw the status of every acceptance since they were opened) are
history variables that no guard reads.

| Action | Code |
|---|---|
| `OpenHostSession`, `OpenHostSessionFails` | `stsafea_open_host_session` with its query of the slot |
| `CloseHostSession`, `SetActiveHostSession` | `stsafea_close_host_session` with `stsafea_session_clear_context`; `stsafea_set_active_host_session` |
| `StartTransfer` | the dispatch, encryption and C-MAC: everything up to the first byte on the bus |
| `TransmitAttempt` | one pass of the loop of `stsafea_frame_transmit`, and what the secure element does with the frame |
| `ReceiveAnswer` | `stsafea_frame_receive`, summarised: the status of the answer, or an error |
| `CompleteProtected`, `CompletePlain` | what follows the raw transfer: counter, R-MAC, decryption |
| `HostRestart` | RAM is lost, the secure element keeps its counter |

The secure element is external: it takes a C-MAC only under its own counter,
counts an accepted command whatever its status, answers a damaged frame with
`COMMUNICATION_ERROR` and a command at the maximum with
`C_MAC_COUNTER_MAXIMUM_REACHED`. These are the statuses lines 646-648 of
`stsafea_sessions.c` tell apart. That the frame of a retransmission is taken a
second time is the point of the model: the code computes the C-MAC once for all
attempts.

Callers close and select only sessions they opened, as `stsafea_sessions.h` asks:
closing follows a pointer of the context that a cleared context does not have.

### FrameTransfer

The state is the stack of `stsafea_frame_transmit` and `stsafea_frame_receive`
(`pc` is the place in the code), with both frames as sequences of named elements
with lengths. `cmd` and `rsp` are the lists while the transfer works on them,
`request` is what the caller handed over. A read that may be damaged delivers any
header and any of `NoisyLengths`; a CRC finds every damage it covers. `content`
records which slice of the payload each element of the caller received. One
action per bus call or per loop pass; each error exit is a disjunct of the action
it leaves from, with the pops the code does there.

### PersoInfo

`perso_info` holds the six words of `stse_perso_info_t` as two records (`plain`,
`ext`) of access conditions (a function, two bits wide: a value above 3 runs over
into the next field, `SetAC`) and flags (sets). `UpdateStart`, `QueryFails`,
`QueryTable`, `StoreRecord` (one pass of the loop) and `UpdateDone` are
`stsafea_perso_info_update`; `Transfer` is the dispatch for any other service;
`Access` is one of the four zone services with its switch and restore, `AccessRefused`
its refusal of a wrapping protection.

### KeyProvisioning

`pc` is the next step of the running call, `host` the buffers on its stack, `infos` the
key information list of the caller, which `stsafea_confirm_symmetric_key` rewrites in
place. `caller_key` is what the caller takes to be in the slots, `se_key` what is in
them; `se` is what a reset of the secure element clears: its ephemeral key pair, its
volatile KEK session and the secret it has agreed on but not confirmed. The ten entry
points of the code are the values of `Calls`; which steps they take in which order is
in `First` and the `After...` operators. `list` and `unreported` are history variables.

| Action | Code |
|---|---|
| `StartCall` | the entry points, `stse_host_key_provisioning` to `stse_establish_symmetric_key_authenticated`, once their parameters are accepted |
| `QuerySlot`, `HostKeygen`, `SEKeygen`, `Sign`, `ECDH`, `HKDF` | the steps all exchanges are made of, with their early returns |
| `StartKEKSession`, `Wrap`, `WriteWrapped`, `StopKEKSession` | the wrapped writes: `stse_start_volatile_KEK_session`, `stse_KEK_wrap` with `stse_derive_working_KEK`, the command, `stse_stop_volatile_KEK_session` |
| `WritePlain` | `stsafea_host_key_provisioning`, `stsafea_write_symmetric_key_plaintext` |
| `EstablishHostKey`, `EstablishSymmetricKey` | the commands that hand over the public key of the host |
| `CMACInit`, `CMACAppend`, `CMACFinish`, `Confirm` | `stsafea_confirm_symmetric_key`, one append per entry of the list |
| `ReturnSuccess` | the copy of the established keys and the return |
| `HostRestart`, `SecureElementReset` | between any two steps |

`Compute` is a step of the platform, which may fail; `Command` a transfer, which may be
refused, be lost, or be carried out without the host learning of it. `FrameTransfer` and
`HostSession` model that transfer in detail. The secret of an exchange, and all that is
derived from it, bears the name of the key pair of the secure element: a call makes
new pairs on both sides, so two exchanges never share a secret (`Remembered` keeps a
name from being used twice while it is still known somewhere). The bytes of the
envelopes, the signatures, the key types and their lengths are left out. The secure
element is external: it opens an envelope only under the base key of its own session
and its own next counter, and confirms only under its own secret over
lengths in wire order.

### DataStorage, LFrameTransfer, DataLink

`DataStorage` is `stse_data_storage.c` over the zone services of both families. `call` holds
the arguments of the API function, `remaining_length`, `chunk_length` and `chunk_offset` are its
variables, `buffer` and `counter_value` what it fills for the caller; `zone` and `counter` are
in the secure element. A byte of the buffer is untouched, a byte of the zone with its place and
version, or unknown. `held` is history: what zone and counter were at each moment of the call.
`DeliversNothing` is the outcome of the STSAFE-A transfer that run `frame_transfer_noise` shows: a
damaged status in the first of its two reads takes the elements of the service off the response
(`stsafea_frame_transfer.c:213`), the payload goes to a filler, and the second read passes its CRC. The
call goes on with `STSE_OK`; its chunk is as it was, and the variable of its counter too, with its bytes
swapped (`Swapped`). With a session the element of the R-MAC is taken off as well, and the call fails.

| Action | Code |
|---|---|
| `Call` | the entry of one of the API functions |
| `ServiceRefuses`, `ServiceSends` | the service of the family: its argument checks, or its frame |
| `Execute` | the secure element reads, writes or decrements, perhaps again when the frame is repeated |
| `PowerLoss` | the secure element stops in the middle of an update that is not atomic |
| `TransferReturns` | `Delivers`, `DeliversNothing` or `Fails`, then the loop (`AfterService`) |
| `OtherTask` | a write by another task between two transfers |

`LFrameTransfer` is `stsafel_frame_transfer.c` as `FrameTransfer` is its STSAFE-A counterpart:
one action per bus call or loop pass, `pc` the place in the code. What differs is the point: one
read of the length and one of the answer over I2C, a receiver of its own for ST1-Wire that ignores
the outcome of its polling, and no comparison of the length with anything. `asked` is what the
driver was told to receive: it refuses to deliver more, as the drivers of the porting guide do.

`DataLink` extends `DataStorage` and puts the frames of `stsafel_data_partition.c` (`CmdFrame`, `RspFrame`) between both. A
STSAFE-L call goes through the transfer step by step (`LSends`, `LArrives`, `LLost`, `LReceives`,
`LReturns`), a STSAFE-A one keeps the abstract transfer. `StorageSpec` says that the composition
implements `DataStorage`: every way the bus can behave is one of the outcomes that module allows. The properties of
`DataStorage` are checked on the composition.

### Services

`CipherServices` and `KeyServices` hold one operator for each service of one command: the
condition under which it refuses its arguments, and the elements of command and answer, each
with its length, the room of the buffer behind it, and, when it announces the length of
others, what it says on the line (`HostOrder`, `Swap`, `BigEndian`). `DeviceApi` does the same for
the functions on top: given arguments, local variables and device type, the next exchange or the
code that is returned. `Services` runs them:

| Action | Code |
|---|---|
| `Call`, `Return` | the application |
| `HostSends` | a service called by the API function, refused or handed to the transfer, with the checks of the transfer (length, elements without data) |
| `Execute`, `Retransmit` | the secure element, once or twice |
| `Deliver`, `Fails` | what the function does with the answer, or without it (`After`, `ExchangeFails`) |
| `HostReturns`, `PreparesPlatform`, `SwitchesPower` | steps of a function that are no exchange |
| `PowerLoss`, `OtherTask` | power; another user who hashes or extracts |

The secure element keeps its mask number, life cycle, password tries, hash context (which part of
which message it has seen) and the session each pseudo-random key was extracted for. Access
conditions are abstracted: any command may be refused. `stsafea_perso_info_update` is one exchange
here (module `PersoInfo`), session encryption is left to `HostSession`, and transfers do not
overlap: the library has no lock, an application serialises its calls on a bus.
The transfer of these runs loses, repeats and refuses; its `STSE_OK` is one that delivered the answer. The
other one, of `frame_transfer_noise`, is outside them: what it does to a call is modelled for the zone services only.
Two kinds of calls are not made: a CCM start without a place for the presence of the counter,
whose NULL pointer is followed after the transfer (`stsafea_aes.c:274`; a NULL counter does no harm, a
variable of the service takes its place), and STSAFE-A services on a STSAFE-L handle, which index tables
by its device type.

## 3. Runs

| Run | Checks | Shows |
|---|---|---|
| `host_session` | `TypeOK`, `ActiveSessionIsOpen`, `CounterAgreement`, `ImplementsChannel`, `CallsReturn` | about 430 000 states, complete |
| `host_session_fault` | `NoFault` is violated | a header-only command through a session makes `r_mac_verify` follow a null pointer (`stsafea_sessions.c:479`) |
| `frame_transfer` | `TypeOK`, `FramesRestored`, `StatusIsAuthentic`, `DeliveredInOrder`, `CallsReturn` | about 28 000 states, complete |
| `frame_transfer_noise` | `HeaderIsDiscarded` is violated | the header of the first read, "discarded" by its comment, decides how the payload is scattered |
| `perso_info` | `TypeOK`, `RouteFollowsTable`, `AccessIsProtected` | about 185 000 states, complete |
| `perso_info_hash` | `ConfigIsStored` is violated | the record of the extended command 0 is lost |
| `perso_info_leak` | `NoProtIsHonoured` is violated | a refused zone access leaves its protection switched on |
| `key_provisioning` | `TypeOK`, `KeysKnown`, `EnvelopeOpens`, `ConfirmationAgrees`, `SessionStopped`, `ListHandedBack` | about 740 000 states up to symmetry, complete |
| `key_provisioning_list` | `ListIsInput` is violated | a failing confirmation MAC leaves the caller's list in wire order |

| `data_link` | `TypeOK`, `LinkTypeOK`, `ReadDelivers`, `ChunkInBuffer`, `StoredWhenOK`, `CounterIsCurrent`, `OKMeansFull`, `FramesComeBack`, `StorageSpec`, `CallsEnd` | about 290 000 states, complete |
| `services` | `TypeOK`, `LengthsTrue`, `InsideBuffers`, `RefusedUnsent`, `WholeMessage`, `SessionKeys`, `InitKnowsDevice`, `PasswordFirst`, `CallsEnd` | about 70 000 states, complete |
| `services_lock` | `LockTakesEffect` is violated | `stse_device_lock` never locks |

`CounterAgreement` says precisely what a lost answer does: as long as the secure
element can count, a session that saw every status agrees with it, and any other
one is strictly *behind*. It can never be ahead, so an old C-MAC is refused and
never accepted later. `ImplementsChannel` is the promise to the services: a
protected command is accepted at most once per call however often its frame is
sent, and `STSE_OK` is only returned when it was accepted in that call.
`RouteFollowsTable` names its exceptions as they are in the code: records that the
packed fields cannot hold (`Representable`) and zone accesses that were too long
(`leaked`); the violated properties of the other runs state what is expected
without these exceptions.

`KeysKnown` says what an error code of the provisioning calls is worth: the slot may have
changed when an answer was lost or the session could not be stopped (`unreported`), in
every other case the caller's key is the key in the slot. `EnvelopeOpens`,
`ConfirmationAgrees` and `SessionStopped` are about what a failed call leaves in the secure
element: its session stays open and its secret stays in RAM, because every early
return of `stse_symmetric_keys_management.c` skips the stop command; each call makes
a new exchange, and that is what keeps the remains from mattering.

`ReadDelivers` says what an interrupted read is worth: whole chunks from the start of the request, each of
one moment, nothing of another place, and after an OK all of them. `StoredWhenOK` and `CounterIsCurrent`
hold although a retransmission may decrement twice: the last answer tells the last value. Both name the
two fields that are narrower than the argument (a data length of one byte, an amount of three).
`ReadDelivers` and `CounterIsCurrent` have one more exception, for STSAFE-A only: a chunk (`Missed`)
or the counter may be missing behind an OK whose first read was damaged; a counter was decremented then all the
same. `OKMeansFull` is what the STSAFE-L transfer promises and the STSAFE-A one does not.
No property says that an update is whole under a power loss. `stse_data_storage.h:95` documents a
parameter `atomicity`, and `stse_data_storage_update_data_zone` drops it: it sets every option to zero
(`stse_data_storage.c:164`), so `PowerLoss` may leave a part of any of its updates in the zone. What
holds is `StoredWhenOK`: no part is ever behind an OK.

`LengthsTrue`, `InsideBuffers` and `RefusedUnsent` name the arguments that break them
(`BreaksLengths`, `PastBuffers` and `PastTable`, `LateRefusal`), each with its reason; without these names the runs
find them (a key description of 65535 bytes is beyond their bounds: the proof asks for it). They are, in the code: a CCM message without associated data is announced and
not sent (`stsafea_aes.c:174`), message and tag that together pass 16 bits (329), a total of two
bytes sent as four (398), the identifier of SHA-1 shorter than its element, a salt or info that has a
length and no data, a key for a slot of which the description has no byte or more than 16 bits count, the second coordinate
taken of a 32-byte key, a private key table looped over by the count of the secure element
(`stsafea_asymmetric_key_slots.c:112`), a count that was never received
(`stse_asymmetric_keys_management.c:88`), and a MAC key length that is looked at after the extraction.
`WholeMessage` excepts a piece that was sent twice, and another user's hash: the library
cannot notice either.

### Bounds

* `MCHostSession`: two sessions, so that one can be behind the other; one command
  of each kind of protection and a header-only one; a counter of 4 values on the
  wire (A110) or 8 (A120) in a host word of 8, starting anywhere, so that the maximum
  and the truncation on the wire are reached; 2 attempts, the fewest with a
  retransmission.
* `MCFrameTransfer`: response frames of one to three elements; answers shorter than,
  equal to and longer than they are; damaged lengths that wrap, are payload-less, too
  short, too long and above the maximum; a command that is too long; a 16-value word
  for the 16-bit length, so that wrapping happens. `MaxFrame + 4 < Word` is what the
  real values (507 or 752 and 65536) satisfy.
* `MCPersoInfo`: four codes, the last one the prefix, so that a field has a
  neighbour on both sides; every table of one record, and of two records in either order,
  with every access condition and both flags; zone accesses of a length that fits and one
  that does not. Two records are enough for one to run over into the other.
* `MCKeyProvisioning`: three key pairs (one in use, one left in a session and one in RAM or in
  a slot), two keys for the caller to write, lists of up to two entries, so that a MAC
  can fail after one of them was swapped; both slots, with and without signature.
  `SEKeygen` finds a new pair as long as one of the three is forgotten, and fails when none
  is. Pairs and values are symmetric; no liveness is checked here.

* `MCDataLink`: a zone of three bytes and words of 4 bits, so that offsets wrap and lengths pass a
  byte of 4 values; chunks of one, two and all; updates that fit, in both atomicities, and one that does not; every length of the answer one below, at and one
  above the expected; damaged length fields that wrap and one that does not; two retries; two
  versions of each byte, of which another task writes one; a counter of two.
* `MCServices`: real sizes of all tables (and of a bus delay, `MaxStandby`). Each function with good arguments and with one argument
  wrong at a time (absent, empty, one byte, too long for a frame, near 2^16); a hash of one, two and
  three pieces; random buffers of one and three; two sessions to derive and two slots; two password
  tries; two key slots in the secure element and tables of fewer and more. One retransmission per call.
  `Finds` bounds which parts of the secure element a call can find used: those its kind depends
  on. Another user hashes while a call hashes and extracts while a call extracts. One handle, for the
  A100 or the L010, whose type `stse_init` corrects; four masks at and around the limits.

Counters are bounded by their widths (`HostModulus`, `WireModulus`, `Word`), retries
by `MaxPollingRetry`; `accepted` is bounded because the calls are. There is no state
constraint.

### Fairness

`FairSpec` of `HostSession`, `FrameTransfer` and `Services` and `LinkFairSpec` of `DataLink` assume weak
fairness of the steps of a running call (`Host`, `LinkHost`, and `Return` to the application) and nothing else: the functions of the platform layer return (the
porting guide asks for blocking drivers with a timeout), so a call goes on. No caller,
secure element or bus is assumed to do anything: every attempt may fail for ever. What
makes `CallsReturn` and `CallsEnd` true is the retry bound and the progress of the loops: a chunk
is never empty, a piece never forgotten.

Deadlock is checked in every run but `data_link`, where the null-pointer fault of the STSAFE-L
receiver stops the program; in `host_session_fault` a restart leads on from it.

## 4. Proofs

`HostSession_proofs` proves for every set of sessions and commands, every
personalisation, every counter width and retry bound:

* `TypeCorrect`: `Spec => []TypeOK`.
* `ActiveOpen`: `Spec => []ActiveSessionIsOpen`.
* `CountersAgree`: `Spec => [](CounterAgreement /\ CallInv)`. `CounterAgreement` is not
  inductive: nothing in it ties the C-MAC of a running call to the counter of its
  session, or an answer to an acceptance. `CallInv` adds this: while a protected call
  runs its C-MAC was computed under the session's current counter, it was accepted at
  most once, an accepted call's session is in `synced`, and a status that follows a
  verified C-MAC comes with an acceptance (`Justified`). The step that needs it most is
  a retransmission: after an acceptance the counter of the secure element is one above
  the C-MAC (`Owed`), so the same frame is refused.
* `SessionIsChannel`: `Spec => ImplementsChannel`. Every action maps to an action of
  `SecureChannel` or a stutter; the invariants above give the guards of `Accept`
  (nothing accepted yet) and `Finish` (success needs an acceptance).

The assumptions are the named `ASSUME`s of `HostSession`: at least two counter values, a
host word no narrower than the wire, at least one attempt.

`Frames_proofs` holds the lemmas about frames that both transfers rest on. `TotalLength`, the fold
over the elements, is turned into sums (`TotalIsSum`, `SumsExist`, `SumsNext`): what it is for one
element more (`TotalLengthAppend`, `TotalLengthUpTo`) is induction over the elements, which
`SetInduction` and `Least` replace, facts about sets of numbers that have a least member. From these follow
what the code needs of a list: `PopPush` (a pop gives back the frame that was pushed to, also when its 16-bit
length wrapped) and that push, pop and the cut to a header keep a frame well formed with its length
the sum of its elements (`PushTyped`, `PopTyped`, `HeaderOnlyTyped`).

`FrameTransfer_proofs` proves all four invariants of the STSAFE-A transfer for every set of requests whose
responses are not empty and name each element once (`RequestAssumption`), every answer, damage, retry
bound and word width:

* `TypeCorrect`: `Spec => []TypeOK`.
* `FramesComeBack`: `Spec => []FramesRestored`, from `FramesInv`, which counts what is on the lists
  at each place of the code: the caller's elements, then a filler if one was needed, then the CRC, so that each
  early return pops as much as was pushed.
* `StatusAuthentic`: `Spec => []StatusIsAuthentic`. It rests on `HostCodes` (no error of the host
  is a status) and is inductive as it stands: the only actions that return a status
  guard it with a CRC.
* `InOrder`: `Spec => []DeliveredInOrder`, from `FillInv`: in the loop the elements before the current one have
  their part of what was announced, those after it their whole length, and what was taken is the
  sum of the former. At the CRC what was announced is what the answer has.

`PersoInfo_proofs` proves, for every number of commands and every set of tables in
which a command has one record (`DistinctAssumption`):

* `TypeCorrect`: `Spec => []TypeOK`.
* `RouteFollows`: `Spec => []RouteFollowsTable`. The strengthening is `StoreInv`: while
  the loop of `stsafea_perso_info_update` runs, `Stored(record)` says what the fields hold
  after the records before `record`. Its step is `StoreStep`: a record writes the field of
  its command, which no earlier record wrote (so its flags are still clear, the reason
  why the code that fails to clear a flag does no harm here), and runs over into at most
  the next field, and never changes a field that is `FREE`. `LeakStep` is the same for
  a zone access that was too long.
* `AccessProtected`: `Spec => []AccessIsProtected`, from `StoreInv` and `Quiet` (no access
  is on record while an update runs).

`KeyProvisioning_proofs` proves, for every set of key pairs and values and every length of
the lists, all six invariants of the run: `TypeCorrect`, `KeysAreKnown`,
`EnvelopeAlwaysOpens`, `ConfirmationAlwaysAgrees`, `SessionIsStopped` and
`ListIsHandedBack`. The strengthening is `CallInv`, the conjunction of

* `RouteInv`: which steps belong to which kind of call;
* `ExchangeInv`: the argument of the model. From the step that makes the key pair of the
  secure element on, `se.pair` is `host.pub` or lost by a reset; from the step that
  agrees on, the session or the pending secret is that of `host.pub` or lost; and what
  the host derives is `host.pub` too. What an earlier call left is overwritten by
  the agreement, which no path to a wrap or a confirmation leaves out;
* `StoredInv`: after the command that writes the slot it holds what the caller will be told;
* `ListInv`: `infos` is `list` with exactly the entries swapped that are in the MAC.
  `SwapOneMore` and `SwapBack` are the lemmas about the swapping loops.

`TypeStep`, `CallStep`, `KeysStep`, `StoppedStep` and `ListStep` prove the parts, one case per
action; `Inductive` puts them together. The assumptions are that pairs and values are
different names, that `None` is neither, and that a list may have an entry.

`LFrameTransfer_proofs` proves the invariants of the STSAFE-L transfer on both buses. `OKAuthentic` assumes
nothing; the others assume of the requests what the services hand over (`LRequestAssumption`: the first
element of a response is the header, one byte, and each name occurs once).

* `TypeCorrect`: `Spec => []TypeOK`.
* `OKAuthentic`: `Spec => []OKIsAuthentic`. `HeaderInv` is the strengthening: until the CRC is
  compared, the header that was received is that of the answer or something is damaged.
* `OKFull`: `Spec => []OKMeansFull`. `FramesInv` says what is on the lists as in the other transfer;
  `FillInv` that as long as what was announced is not used up the elements so far are full, and that the
  driver was asked for no more than what was announced. An element that is too long therefore
  meets the refusal of the driver or, over ST1-Wire, a length that wraps and a CRC that does not fit.
* `FramesReturned`: `Spec => []FramesComeBack`, where `LRoomAssumption` holds: no response is so long that the length of
  its frame wraps. The code does not check this. With a response of 65532 data bytes or more
  an undamaged error answer would be taken for one with a filler, and the receiver would fault.

`DataLink_proofs` proves the five safety properties of `DataStorage` for every size of the zone,
every word and byte width and every call the program can make (`ZoneAssumption`, `CallAssumption`,
which bound the arguments to their C types): `TypeCorrect`, `ChunkInside`, `StoredOK`,
`CounterCurrent` and `ReadsDeliver`. The strengthening is `TypeOK` with `CallInv`:

* `Progress`: while a call runs, what is left and where the next chunk starts add up to the end the
  caller asked for, and a function without a loop has not moved;
* `AtExchange`: an answer that is on its way says OK only if what was asked was granted (an update is
  in one of the moments of the history, a decrement took its amount), and it carries the counter as
  it is;
* `Moment \in held`: the history holds the present.

`ReadsDeliver` adds `Received`: up to the place of the next chunk, which is a multiple of the chunk size (so that two
bytes of one chunk came in one answer), each byte is one of the zone or, on STSAFE-A, missed, and from there on
untouched; and an answer on its way holds bytes of one moment from the place that was asked.

It goes on with the composition. `LinkInductive` is the invariant of `LinkSpec`: those of the two modules, and
`Coupled`, which ties them together: a transfer runs only inside an exchange of a STSAFE-L call, for the
frames of that chunk, and its answer says OK only when the secure element of `DataStorage` did.

* `LinkImplementsStorage`: `LinkSpec => StorageSpec`. Every step of the bus is a stutter or the
  execution by the secure element (`LArrives`, again at a retransmission); the return of the transfer is `Delivers` when it says OK,
  because then (`OKMeansFull`) the caller's element is full with the bytes that were read, and `Fails` otherwise.
* `PromisesOnTheWire`: hence reads, writes, counters and chunks are what `DataStorage` says they are, and on the
  STSAFE-L wire without the exception: after an OK every byte that was asked for is in the buffer, and
  the counter that is reported is that of the secure element (`LDelivered`).
* `LinkTypeCorrect`, `LinkOKFull` and `LinkFramesReturned` are the theorems of `LFrameTransfer_proofs` for the
  frames of the zone services (the last one for calls of fewer than 65532 bytes, `RoomAssumption`); that those frames
  satisfy `LRequestAssumption` is proved, not assumed.

`Services_proofs` proves eight properties for every set of calls an application can make, every set
of devices, of masks and of slots, messages and buffers of every length and frames of every size. `ProperStep`
is the lemma behind them: the exchanges that each function of the API can start (`Commands`; its proof has
one step for each group of functions). Hence only `stse_init`, `stse_device_lock` and
`stse_device_unlock` send the commands that read the mask, take the password or change the life
cycle, and only `compute_hash`, `generate_random` and `derive_session_keys` go on with what an
earlier exchange left (`CallsAssumption` says that no call of an application has the name of a
command that only the functions of several exchanges send).

* `PasswordIsFirst`: `Spec => PasswordFirst`. `AcceptInv` carries the acceptance from the secure
  element over the answer to the variable of the call, and from there to the command that changes
  the life cycle; a call begins and ends without one.
* `HandleKnowsDevice`: `Spec => []InitKnowsDevice`. `InitInv` says what `stse_init` knows after each
  of its exchanges; that the products' masks are ordered (`MaskAssumption`) makes `ProductOf` agree
  with the ranges of the property.
* `KeysOfSession`: `Spec => []SessionKeys`. `SessionInv` ties the number of exchanges done to the
  command on the way, says that the answer of the extraction names a slot that holds the session's
  key and still does after every other user's extraction, which takes only free slots
  (`SlotOutcomes`); a session is not 0, the mark of a free slot (`ArgumentAssumption`).
* `WholeMessages`: `Spec => []WholeMessage`. `RandomInv` and `HashInv` say what was covered and what is
  on the way: the length of the element "message" of the request is that of the piece (`PiecesCarry`,
  from the elements of each request), a piece is never longer than what is left, and the hash in the secure element is of
  the bytes sent so far as long as nothing was sent twice and nobody else hashed. A frame has room for the
  identifier of the algorithm (`SizeAssumption`) and lengths are of two bytes
  (`ArgumentAssumption`).
* `CallTypes`: `Spec => []TypeOK`. `SentInv` (the commands of a call), `DoneInv` and `UptoInv` (no hash is
  of more than was sent, also when pieces were sent twice or others hashed) make it inductive.

* `CallRefused`: `Spec => []RefusedUnsent`. `UnsentInv`: before the first exchange nothing was
  executed; a call that changes something in several exchanges looked at its arguments before the
  first of them (`ArgumentsSeen`), and what is on the way will be answered with elements that have
  data. Hence such a call has no reason of its own to refuse later (`LateReturn`), and neither has a
  transfer: each further request is a list of known elements (`ExpansionLists`: 26 bytes; `PieceIs`: two bytes
  of header and a piece; `FinishIsAccepted`), of which `TotalLengthConcat` gives the length, which is within the frame of every
  product (`SizeAssumption`). `RefusedUnsent` is part of its own induction, because a call that was
  refused stays so until it returns.

* `BuffersKept`: `Spec => []InsideBuffers`: no element of any request or answer is longer than the
  buffer lent for it, and no table is written past the entries the caller has. `StepSound` goes through
  every function of the API and every service below it, down to the elements of its frames (`Fits`, with
  `FitsConcat` and `FitsFlatten` for the lists that are put together). `LendInv` carries it: the call is one of those on this type of
  device (only `stse_init` changes the type), what is on the way is inside its buffers, a private key
  table is asked for by two functions only (`TableSends`), in the length that `Asked` tells, and after an accepted answer
  the loop went past it only where `PastTable` says so (`LendDelivered`). The theorem leaves to the
  caller, by name:
  * `BufferAssumption`: each argument is there and lengths fit in two bytes; a key of a response has
    room for the length it is given;
  * `CallerAssumption`: where a pointer comes without a length, it points at what its type says (a plain
    or wrapped host key, a plain symmetric key, a digest of a known algorithm), the key type is a known one where the
    function does not look at it, and a list of key descriptions has one; a table count is a byte, as in C;
  * `TableAssumption`: the sizes in the tables are numbers, and a public key has two coordinates unless it is of
    Curve25519 or Ed25519;
  * `FunctionAssumption`: the calls are of the functions modelled (`ComposedCalls`, `DirectCalls`).

  Excepted are the four kinds of calls of `PastBuffers` and the two of `PastTable`, which really go past
  a buffer (section 3).

* `LengthsAnnounced`: `Spec => []LengthsTrue`: every length that a command announces, or that is expected in
  an answer, is that of the elements it stands for. `TruthInv` carries it: both frames on the way
  are `Truthful`. A list is so (`RightAt`) when each announcement in it reaches just as far as
  the elements of its names and counts them; `ReachesIs` says that this is what `Announced` asks for.
  Lists that begin with a name of no announcement (`Honest`) can be put together in any number
  (`HonestConcat`, `HonestFlatten`), and so can lists without announcement (`Plain`). What is left are
  the blocks of a length and what it counts: a buffer (`WithHonest`: swapped to the line's byte
  order and back, `SwapTwice`; `BigEndianHonest`; `DataTrue`), the coordinates of a key, a signature, the identifier of a hash, the
  description of a derived key, and the CCM commands, which announce lengths ahead of a nonce or of two buffers
  (`CcmEncryptTrue`, `CcmStartTrue`, `CcmDecryptTrue`). `StepFaithful` goes through every function of the API. Besides the
  assumptions above it rests on `WidthAssumption`: a `PLAT_UI16` is two bytes, the sizes in the table of
  the curves fit in it, and every identifier of a hash but that of SHA-1 has the nine bytes of its
  element. `CallerAssumption` asks for a known algorithm where the function does not look at it, and for a
  MAC to verify whose length is a byte, as in C. Excepted is what `BreaksLengths` names, where the
  announced length is really another (section 3).

Only model-checked: the liveness properties (`CallsReturn`, `CallsEnd`), whose fairness needs
`ENABLED`.

## 5. What the checks found

1. `stsafea_sessions.c:479`: null pointer in the R-MAC verification of a command
   without payload (run `host_session_fault`). Issue #59 of the release note fixed the same in
   encryption and decryption.
2. `stsafea_frame_transfer.c:213` against the comment in line 172: the unverified
   header of the first read decides whether response elements are dropped (run
   `frame_transfer_noise`).
3. `stsafea_commands.c:141`: the record of extended command 0 (start hash) is stored
   for the prefix (run `perso_info_hash`).
4. `stsafea_data_partition.c:175` (and 244, 313, 381): early return between the switch
   of the protection and its restore (run `perso_info_leak`).
5. `stsafea_symmetric_key_slots.c:441` (and 449): the lengths of the caller's key information
   list, an input by its documentation, stay byte-swapped when the platform fails to
   compute the MAC (run `key_provisioning_list`).

6. `stse_device_management.c:259`: `stse_device_lock` passes NULL where the remaining tries go, the
   CRC of the answer refuses an element without data, and no device is ever locked although the
   password was accepted, or a try was spent (run `services_lock`).

## 6. Plan

Done: `SecureChannel`, `HostSession`, `FrameTransfer`, `PersoInfo`, `KeyProvisioning`, `DataStorage`,
`LFrameTransfer`, `DataLink`, the service modules, `DeviceApi`, `Services`.

Next, in this order:

1. The linked list of `stse_frame.c` with the straps of the encrypted transfer, refining the sequences
   of `Frames`, with the byte lengths of encrypted payloads.
2. Host key provisioning as an action that resets the counter of `HostSession`, composing it
   with `KeyProvisioning`.
3. `stse_device_authenticate` over an abstract certificate.
4. The personalisation and partition record parsers over records of varying size.

## 7. Not modelled

Bytes of keys, MACs, nonces and payloads; the cryptography and the bus driver of the platform
(nondeterministic results); execution times and delays; debug printing; doxygen and build files;
the static personalisation, a build option that replaces the query of `PersoInfo` by a table.
Certificates: the sub-parsers take every decision on the bytes they walk over, so that nothing is
left of their control once the bytes are abstracted; `stse_device_authenticate` rests on them. The parser of
partition records, and the two functions that ask for it. Straps (`stse_frame_insert_strap`,
`stse_frame_unstrap`) of the encrypted transfer. Concurrent transfers on one bus.

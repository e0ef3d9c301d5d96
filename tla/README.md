# Verification of the OP-TEE remote attestation stack

This directory holds TLA+ models of the attestation stack of this repository:
the trusted application and pseudo TA that issue PSA evidence on an i.MX8MP, the
host application that carries it to a verifier, the relying party in between,
and the eMMC driver and RPMB transport that were added to OP-TEE core so that
secure storage does not depend on Linux. The CBOR encoder under the evidence, the
base64 encoder and the IMA verification are modelled too. TLC checks the models on small
instances. TLAPS proves, for every value of the parameters, the safety properties of the
driver, of the RPMB backend and its refinement, of the attestation protocol, of the
evidence and key commands and of the encoder, that what the encoder writes reads back as
the document its caller asked for, that the claims and the signed message of the PTA do so,
and that heads, numbers, base64, CID and the verification of a quote are what their
references say. What TLC alone checks is liveness.

Paths below are relative to `src/`; `R/` stands for
`attester/pta_remote_attestation/remote_attestation/`.

## 1. Inventory

| Component | Source | State it keeps | Operations |
|---|---|---|---|
| uSDHC driver | `attester/optee-patches/imx_usdhc.c` | `usdhc_ctx`: `inited`, `cur_part`, `clock_bits`, CID, EXT_CSD, bounce buffer; the registers of the controller and the CCM; behind them the eMMC device | `imx_usdhc_init`, `_dev_info`, `_rpmb_write`, `_rpmb_read` |
| RPMB native backend | `attester/optee-patches/rpmb-native-backend.py` (the C it patches into `tee_rpmb_fs.c`) | `native_probe_done`, request and response frames; in the device: key and result register | exchange, probe reset, probe next, initialisation with key programming |
| Host application | `attester/remote_attestation/host/` | command line, session handle, loop counter, packed key | parse, generate key, convert key, attest in a loop |
| Trusted application | `attester/remote_attestation/ta/` | copies of the parameters during a call | evidence, generate key, convert key |
| Attestation PTA | `R/` | work buffers, key structure, event buffer of the performance log | evidence, generate key, convert key |
| Relying party | `relying_party/app/main.go` | per request: response body, temporary file | proxy a request, extract the result and run `arc`, copy the response |
| QCBOR encoder | `R/qcbor/qcbor_encode.[ch]`, `UsefulBuf.[ch]` | context: output buffer, error, stack of open levels with start position and item count | init, add items, open and close arrays, maps and wraps, cancel, finish |
| base64 | `R/base64.[ch]` | none | encode, length |
| IMA quote tools | `attester/ima-quote/` | none | recompute PCR 10 from a measurement list, cut the list to the quote |
| Provisioning tools | `provisoning/` | none | reference values from ELF files, registration |
| Secure boot and Yocto layer | `attester/container-imx/` | none | build and sign images |

**How they interact.** The host calls the TA (TEE client API), the TA calls the
PTA, the PTA reads fuses, hashes the memory of its caller and of the core,
encodes and signs. The host opens a session at the verifier and posts the
evidence to it; every HTTP request passes the relying party, which runs each in a
goroutine of its own. Independently of that, the RPMB layer of OP-TEE core calls
the backend, the backend calls the driver, and the driver shares controller and
device with U-Boot before boot and with Linux after it.

**What is hard.**

* The driver *caches* what it believes about the device and is not told when
  another master uses the device or gates its clocks. It can only look at three
  registers.
* Every command and every data phase may fail, and the device may or may not have
  acted on a command that went unanswered. A failure must neither leave the cached
  state wrong nor make every later call fail.
* An RPMB exchange is two or three driver calls, each of which may re-initialise
  the device. A key can be programmed only once in a device's life, and power may
  be lost at any point.
* Freshness of evidence: nonces, loop iterations, failed posts and power cycles.
* Concurrent requests in the relying party, each through a temporary file.
* One key parameter, cut at byte 64 by three programs with three length tests.
* The event buffer of the PTA outlives a command; a generated key is fetched with two
  commands that generate two keys; other hosts' commands come in between.
* The encoder inserts the head of an item *after* its content and slides the content,
  while enclosing levels remember positions; its counters and its buffer have limits.
* The kernel goes on measuring between a TPM quote and the copy of the list.
* Evidence generation is a pipeline of stages that may fail with buffers,
  contexts and sessions held; its work buffers have fixed sizes; signer-id and
  lifecycle are read from the fuses one after the other; the measurement must not
  depend on address-space layout.

`PROJECT.json` lists these hazards one by one with the line where they bite and
the properties that cover them.

**What makes each component correct.** Driver: RPMB frames reach only the RPMB
partition; the cached state is coherent; clocks that were gated before a call never stop the core;
no command but the CMD0 of a fresh start reaches a device that programs; failures do not
stick. Backend: a response
belongs to its request; the key is programmed once; the probe ends. Attestation: evidence answers its own session and is
fresh; results are attributed to their own request; handles and files are
released; the instance-id names the signing key. Evidence command: everything is
given back, the claims agree with each other, the measurement is stable, the
evidence fits. Key commands: a printed key is one key, whole; key material is freed;
a performance report is about its own command. Encoder: what it returns with success
is the document that was asked for, never past the buffer, of the size it computed.
Signed message: what is signed is what is sent. IMA: a quote covers exactly the list it
is accepted for.

## 2. Modules

| Module | Models | Extends |
|---|---|---|
| `Usdhc` | driver, eMMC device, other masters | – |
| `UsdhcProofs` | theorems about `Usdhc` | `Usdhc`, `TLAPS` |
| `RpmbExchange` | abstract: what an exchange promises the RPMB layer | – |
| `RpmbNative` | exchanges, probe, key programming, power loss; implements `RpmbExchange` | `Usdhc` (composition) |
| `Attestation` | hosts, TA/PTA as seen from the host, relying party, verifier | – |
| `CborLen` | lengths of what the PTA encodes | – |
| `Evidence` | one evidence command inside TA and PTA | `CborLen` |
| `PtaCommands` | key generation and conversion, event buffer, several hosts | – |
| `UsefulBuf` | buffers of the encoder | – |
| `Qcbor` | `qcbor_encode.c` | `UsefulBuf` |
| `QcborInline` | the inline functions of `qcbor_encode.h` | `Qcbor` |
| `CborDoc` | reference: documents as sequences of tokens | – |
| `CborHead`, `CborReader` | reference: the head of a CBOR item and a reader of whole documents (RFC 8949) | `UsefulBuf`; `CborHead`, `CborDoc` |
| `QcborCaller` | a caller of the encoder | `QcborInline`, `CborReader` |
| `Cbor` | `cbor.c`: claims, header, to-be-signed structure, message | `QcborInline` |
| `Base64`, `Cid`, `ImaQuote` | `base64.c`; CID assembly of `card_identify`; `host-verify.sh` and `pcr10_recompute3.py` | – |
| `RpmbNativeProofs` | theorems about `RpmbNative`, and that it implements `RpmbExchange` | `RpmbNative`, `UsdhcProofs` |
| `AttestationProofs`, `EvidenceProofs`, `PtaCommandsProofs` | theorems about the module they are named after | that module, `TLAPS` |
| `Algorithms` | the pure parts, each with its reference: one step chooses an algorithm and its input | `Cbor`, `CborLen`, `CborReader`, `Base64`, `Cid`, `ImaQuote` |
| `CborProofs` | lemmas for the modules below: bytes, buffers, heads, what encodes what, what each function of the encoder writes and how long it is | `QcborInline`, `CborReader`, `CborLen`, `TLAPS` |
| `QcborCallerProofs`, `AlgorithmsProofs` | theorems about the module they are named after | that module, `CborProofs` |
| `MCAlgorithms` | the inputs TLC gives to `Algorithms` | `Algorithms` |
| other `MC…` | constants for TLC | the module they are named after |

Names ending in `_Something` next to a definition (`bus_clock_ensure_BusOnly`,
`cmp_regions_SizeOnly`, …) are deliberately wrong variants of it. They are used by
no specification; put in the place of the definition, each makes the property
it is paired with in `PROJECT.json` fail, which shows that the property can fail.

### Usdhc

State: `inited`, `curPart`, `clockBits` are the fields of `usdhc_ctx`; `ctl` is what
`controller_state_foreign` compares (bus width, divider, tuning bits) plus
multi-block select; `clocks` the three CCM clocks. `cardState`, `cardPart`,
`cardBusy`, `cardDone`, `cardResp` are the device: JEDEC state, selected partition,
DAT0 busy, the request its result register speaks of, and the response it has
ready. `pc` and `call` are the call in progress, `got` and `ret` its outcome; the history
variable `cut` says that the module's clocks went off under it.

Actions: one step per MMC command. `Enter` starts one of the four entry points;
`InitEnsure` looks after the clocks and `InitCached`/`InitForeign` compare the registers of
a device that is up, `InitClocks` and `reset_controller` start afresh;
`Identify` is `card_identify` (CMD0 … CMD16); then `ReadExtCsd`, `switch_partition`,
`wait_card_ready`, `SetBlockCount`, `WriteFrames`/`ReadFrames`, and `WaitAfter`. Each has its error
paths: `CmdInhibited` (lines stay inhibited), `CmdUnanswered` (the device may have
obeyed), a rejected SWITCH, `DataPhaseFailed` (`reset_transfer`, cached state
dropped). `ForeignMaster` acts between calls, `GateClocks` at any time. A step of a call
that touches the controller's registers (`TouchesRegisters`) while the module's clocks are
off is `CoreFaults` instead: nothing runs any more (`pc` = "halted"), and the command under way
may or may not have reached the device. The faults are of two kinds: "gate" takes any clock
between calls and the bus clock at any time, "cut" takes the module's clocks under a call. Both
are in the run `usdhc`.

`cardBusy` distinguishes a device that carries out a SWITCH from one that programs. A
busy device may ignore any command but CMD0.

Abstracted: frame contents are a kind and an identity; register bit patterns are
reduced to what the driver compares; EXT_CSD bytes are left out, the CID bytes are in
`Cid`. The
device is external and modelled from how the driver uses it; where the driver does not rely
on a behaviour (does CMD0 reset the partition?) both are allowed.

Another master acts only while the driver is idle. U-Boot runs on one core and
waits while the TEE executes; for Linux the controller is disabled in the device
tree and its registers are secure-only (`docs/ftpm-imx8mp.md`). The window *between*
calls is the one `controller_state_foreign` is written for.

### RpmbNative

`xpc`, `req`, `respBlocks`, `resp`, `xret` are an exchange (`rpmb_native_exchange`),
`ipc`, `probeDone`, `ready` the initialisation, `hasKey` and `programs` the
irreversible part of the device. The exchange's driver calls are the driver's own
actions: `Transport` runs `Usdhc` and records in `KeyTaken` when the device takes a
key. `PowerCycle` may happen in any state; it clears everything but the device's
key. Frame authentication and the RPMB file system (`tee_rpmb_fs.c`) are not in the
repository and are external: `Answered` accepts a response only if it carries the
nonce of the request.

### RpmbExchange

What the RPMB layer relies on, without a driver: one request at a time, executed by
the device at most once whatever fails, and success only with the answer to this
request or an empty frame. `RpmbNative` implements it: `Promise` is the
instance, with the exchange's `req`, `resp` and `xret` as they are and `taken`, a history
variable that counts the device's executions of the current request, for
`executed`. A retry anywhere in exchange or driver would break it.

### Attestation

Per host: `pc`, `arg`, `iter`, `session`, `evidence`, `handles`. Per verifier
session: `verdict`, and `since`, the software that ran since it was opened (a history
variable). Per request in the relying party: `rp`, `post`, `body`, `file`, `logged`,
`reply`; `files` are the temporary files. The action `get_cbor_evidence` is the whole call from
host through TA and PTA, `Evidence` opens it up. Keys are modelled by length,
owner and the power cycle they were wrapped in; lengths matter because host, TA and
PTA test them differently (65, 96 and 32 bytes).

### Evidence

`pc` walks the stages of `call_pta_for_cbor_evidence` and `cmd_get_cbor_evidence`
in the order of the code; `live` is the set of resources held and `failed` the stage
that failed. Lengths are computed from the encoding as the code performs it (`PayloadLen`, `TbsLen`,
`CoseLen`): with a 32-byte nonce and version "4.6.0" the payload has 319 bytes and
the COSE structure 395. Memory regions have size, contents and validity;
`Hashes(l)` is the set of byte sequences `qsort` may lead the hash to see, with every
order of equal elements allowed. `BlowFuse` is the environment: the documented
procedure programs fuses from U-Boot, an OCOTP driver in Linux can do it at run
time.

### PtaCommands

Several host processes, each started once in one of three modes. A command goes from
host to TA to PTA (`where`); the PTA takes one at a time, because it is registered
without the concurrent flag (the serialisation itself is in OP-TEE core, external). `stage` walks the calls of
`cmd_generate_black_key`, `cmd_convert_black_key` and, reduced to its events and its
key, `cmd_get_cbor_evidence`. `live` and `key` are the key structures the PTA holds,
`perf` the event buffer. A byte is named by key, number and position, so that any mixture
of two keys, any lost padding and any wrong cut shows. `own` and the second part of
`flushed` are history variables. An evidence command may be given a key some host
printed before, which closes the circle from generation to use.

### UsefulBuf, Qcbor, QcborInline, QcborCaller

An encoder context is a record (`out`, `uError`, `nesting`), each function of
`qcbor_encode.c` an operator on it that follows the code's order of checks and
writes. The inline functions of the header come in families (no label, string
label, integer label; with and without a tag): one operator takes label and tag
requirement. `QcborCaller` performs the same calls on two contexts, one with a buffer
and one that only computes the size, and records in `doc` what it asked for: for each open
level its kind, the tokens put into it and how many items they are. `owed` are bytes the
caller has yet to put behind a string length it added by itself. It breaks the rules the encoder
claims to detect and keeps the ones it cannot. Each function of the interface is an
action of its own. `IsEncoding` of `CborReader` is the reference: reading head after head, each
where the last token ended, gives exactly these tokens and uses up the bytes. A byte string
that wraps other items is a token whose length is that of the tokens behind it. Floating
point is compiled out (`UsefulBuf.h:78`).

### Cbor, CborLen, Base64, Cid, ImaQuote

Pure functions. `Cbor` is built on the encoder's operators with the limits of the build
(15 levels, 65 534 items), `CborLen` gives the lengths `Evidence` computes with, and
`ClaimsReadBack` and `CoseCarriesWhatIsSigned` of `Algorithms` say that they are the lengths of the bytes `Cbor` produces. In
`ImaQuote` hashes are collision free: a PCR is the sequence it was extended with.

### Algorithms

The state is `input`; the only step chooses one, so that a property `input.k = "base64" => …`
is about every input. `Inputs` is a parameter: TLC gets a set that covers the cases
(`MCInputs`), the proofs hold for any set that meets `InputsAssumption`: arguments of heads and
numbers fit the 64 bits, or the width, of the functions that take them; buffers are bytes; a
CID has sixteen; the lines of a list name an algorithm, and a violation is a line of a
sha256 list (its hash is written with 64 zeros); claims are what `cmd_get_cbor_evidence` can
have collected (`IsClaims`: its constant profile, a client-id of at most 32 bits, one of the
lifecycles of `ocotp.h`, which all take two bytes, hashes of 32 bytes, an instance-id of 33,
two components of which the second has a version, a nonce and a version whose lengths fit 32 bits); a payload
is any byte string of such a length. `RoomAssumption` says that the limits of the encoder leave room for the
items and levels of these encodings; the build's are far above.

## 3. Runs

| Run | Instance | Shows |
|---|---|---|
| `usdhc` | 1 request, transfers of 1 and 3 blocks with room for 2, any controller and clock state at boot, two faults of 12 kinds, clocks going off under a call among them; 824 000 states | frames stay on RPMB, cache coherent, the core faults only when its clocks are cut under the call, only CMD0 is issued to a device that programs, and the inductive invariant itself |
| `usdhc_wedge` | an unanswered CMD25, fairness | *violation*, see findings |
| `usdhc_busy` | one failed data phase | *violation* of a comment |
| `rpmb_native` | 3 request identities (symmetric), two faults of 13 kinds, one power loss; 1 750 000 states | exchanges implement `RpmbExchange` (`KeepsPromise`), key programmed once |
| `rpmb_native_live` | a build that does not program keys, device with or without one; one fault of any kind but an unanswered CMD25 and clocks cut under a call, fairness | the probe ends, exchanges (and so every driver call under them) end and are answered again after any such fault; the inductive invariant `NativeInv` |
| `attestation` | 2 hosts, 2 sessions, 1 power cycle into any software, the embedded key or a black key; or 1 host and every way to pass a key, at lengths 0, 1, 32, 33, 64, 65, 96, 97; fairness; 830 000 states | freshness, attribution, handles and files; the instance-id names the signing key however the parameter is cut; every run ends; and the inductive invariant `IInv` |
| `attestation_forward` | – | *violation* of a comment |
| `evidence` | nonces of 32, 64, 150, 165 and 220 bytes, output 320 and 1024, versions of 5 and 31 characters, 2 layouts, 2 fuse words, 2 fuses programmed; 700 000 states | resources, claims, measurement, sizes |
| `pta_commands` | 2 hosts in any modes, coordinates of 1 or 2 bytes in 2, blobs of 1 or 2 bytes, a conversion buffer of 1; fairness; 42 000 states | printed keys are whole and their own, reports are about their command (given that commands are serialised), keys freed, hosts end |
| `qcbor` | 5 calls, of them 1 uncommon, 2 levels, 4 items, buffers of 4 and 24 bytes; 297 000 states | output reads back as the document, size calculation agrees, levels in order, wrapped slice is the content |
| `qcbor_errors` | the same | *violation* of a comment |
| `algorithms` | see below | the pure parts against reference definitions |

`algorithms` enumerates inputs: claims with client-ids, versions and nonces at every length
that changes a head or overflows the buffer (`ClaimsReadBack`), payload lengths around every head size and signing
failures (`CoseCarriesWhatIsSigned`), heads at 0, 23, 24, 255, 256, 65535, 65536, 2^31-1 with all
minimum lengths (`HeadIsShortest`), integers written and read at every position and capacity (`PutIsGot`), byte strings up to length 4 and a hash with
an output one too short, exact and larger (`Base64IsStandard`), both CID settings (`CidIsJedec`), measurement lists with violations and foreign
algorithms and every quoted prefix (`VerifierCoversQuote`).

**Bounds.** `MaxFaults = 2` lets a second fault hit the recovery from the first,
which is where a driver of this shape goes wrong; a third one would find it in a
state it can already be in after one (the cache is either dropped or intact). The
proofs remove the bound. Three request identities are one more than the device can
hold (result register and pending response), so a fresh one is always available.
A build without `CFG_RPMB_WRITE_KEY` meets, on a device without a key, the case the probe must not repeat for ever; `rpmb_native` has the build that programs.
(Its run also lets power be lost once; the inductive invariant holds in both builds, the proof covers any.)
One power loss separates programming from verification; further ones repeat it.
Two sessions are enough for one request to be taken for another, and a host that
loops twice uses both; a second one that did could only fail to open a session, so one of the
hosts loops once. How a key is cut concerns no other host: the command lines with every length
are run while the other host is refused its own, and as hosts are interchangeable it is always
the same one (`CommandLines`; no symmetry, since `HostEnds` is checked). Key lengths are the values at and on both sides of every
test. The nonce lengths cover each of: everything fits, only COSE overflows, the
to-be-signed structure overflows, the payload overflows. Two fuse words are enough
for a torn read. In `pta_commands` two hosts let one command of another host fall between
size probe and fetch, and both lengths of blob let the second key be shorter or longer
than the first. In `qcbor` five calls allow for two levels opened, filled and closed;
the small limits are exceeded by them (third level, fifth item, an offset past 10), so each error path is taken, and the bound `MaxRare`
lets every function of the interface occur between common ones. `CHECK_DEADLOCK FALSE` is set where the program ends: a host
exits, a command returns.

**Fairness.** `Usdhc`: the steps of a call in progress and the completion of
programming in the device are weakly fair, since every wait in the driver has a
timeout and the core is not preempted for ever. The device finishes what it is busy with on its own, in whatever
phase a call is, since a call may be over, or ignored, before it does. `Recovers` also assumes
that callers keep calling. Faults, other masters and gating are never fair.
Clocks cut under a call are not among the faults of `rpmb_native_live`: a core that has faulted
answers nothing any more, until a power cycle.
`RpmbNative`: the same for exchange and probe; for `AnswersAgain` the RPMB layer also keeps
probing and exchanging, otherwise there would be nothing to answer.
`PtaCommands`: each process goes on, and a command waiting for the PTA is taken once
the PTA stays free; no order among those who wait is assumed.
`Attestation`: each process and goroutine takes its steps, and a network operation
answers or fails. The last is an assumption about the environment: the HTTP client
of the relying party has no timeout (`main.go:37`), so a verifier that stays silent
holds a request for ever.

## 4. Proofs

Each theorem holds for every value of the constants that meets the assumption of its
module. These assumptions give the parameters their types; what goes beyond that is said
below. The properties are invariants of the runs too, and so are the inductive invariants of the
driver, the backend and the attestation; those of the other modules are stated next to their
proofs (the one of the encoder's documents says that positions *exist*, which TLC cannot
enumerate).

**`UsdhcProofs`** (any requests, block counts, boot states, fault kinds and number of
faults): `UsdhcInvariant`, and from it `CacheIsCoherent`, `FramesStayOnRpmb`,
`ClocksFoundOffAreHarmless`, `ProgrammingIsAwaited`. `FramesOnRpmbPartition` is not inductive: that
the device is on RPMB when a transfer begins rests on `cur_part` being right, which rests
on the device not having moved since, which rests on the registers showing it when
somebody else used it. The inductive invariant says so:

    IInv == TypeOK /\ PhaseInv /\ CacheCoherent /\ BusyInv /\ ClockInv

`PhaseInv` ties the program counter to the cached state: while the device is being
identified `inited` is false and the registers are the driver's, while a transfer
runs `inited` holds and nobody interfered, and after `switch_partition` `cur_part` is RPMB.
`CacheCoherent` is the heart: *if* `inited` and the registers are not foreign, the
device is selected, and on RPMB if `cur_part` says so. A foreign master breaks the
premise, every error path either drops `inited` or leaves the device where it was.
These three parts support each other and are proved first (`CoreInv`); `DroppedCacheCore`
and `KeptCacheCore` carry the two ways a call can end. `BusyInv` and `ClockInv` follow from
them a step at a time. `BusyInv` is why nothing but CMD0 overtakes programming, although
CMD6 is sent before the wait: a device that programs, was used by this driver and is still
believed to be up is known to be on RPMB (`curPart`), so that CMD6 is skipped; in every other
case `inited` is false or the registers are foreign, and the call starts with CMD0. A
`wait_card_ready` that forgot the partition when it gives up would break it (the
mutant). `ClockInv` says that past its check a call has the module's clocks, or they were cut.

**`RpmbNativeProofs`** (also any number of power losses, either build):

    NativeInv == NativeTypeOK /\ IInv /\ CallInv /\ RequestInv /\ KeyInv

The driver's invariant is reused as it is: the driver's steps keep it by the lemmas of
`UsdhcProofs`, a power loss drops the cached state like a failed call does. `CallInv` says that the
driver call in progress is the one the exchange waits for, with the exchange's frame.
`RequestInv` says that until CMD25 has carried the request the device knows nothing of it,
that from then on it was executed once, and that there is no answer to another request it
could hand out. `KeyInv` says that a key is on its way only as long as the device has none.
`KeyIsProgrammedOnce` and `DriverSafeBelow` follow.
A core that faults while CMD25 is under way may have had the request executed
(`SendsFrame`); only a power loss then ends the exchange.
`TransportKeepsPromise` is the refinement: `NativeInit` implies the initial predicate of
`RpmbExchange` under the mapping, and, given `NativeInv`, each step is a step of it or a
stutter. The steps of the driver stutter except for the one with which the device takes the
request.

**`AttestationProofs`** (any hosts, any finite set of sessions, any command lines, any number
of power cycles): the inductive invariant `IInv` is part of `Attestation`. Besides the
properties it has `HostInv` (what a host holds at each line), `SessionInv` (a session is used
by one host at a time and was opened before it is posted to), `RequestInv` (what verifier and
relying party hold for a session goes back to one post, measured since the session was
opened) and `FileInv` (a file per request between writing and copying, no two alike).
`TempFilesAreRemoved` compares cardinalities, by a bijection from requests to files. That the
instance-id names the signer needs `HostInv` to say that no host gets past packing with a
key of a wrong length; the run has a command line with one.

**`EvidenceProofs`** (any nonces, output sizes, version strings, number of fuse words and of
fuses programmed, any layouts of any regions): `HeldInv` says what is held at each stage;
`FuseInv`, that fuses are never cleared and the signer-id is read first, so that an empty
lifecycle read implies an empty signer-id; `MeasureInv`, that the measurement is one of the
hashes of the layout. `MeasurementIsStable` rests on `HashesAgree`: sorted by size and contents,
two arrangements of the same regions read the same at every position: were the i-th region of
one smaller than the i-th of the other, its first i regions would have to be among the first
i - 1 of the other (the pigeonhole principle). The layouts are assumed to be loads of one TA: the same read-only regions up to a
bijection (`SameRegions`), which is what "does not depend on address-space layout" is about.
`EveryNonceFits` is arithmetic on the encoded lengths of `CborLen`.

**`PtaCommandsProofs`** (any hosts, coordinate and blob lengths): `Exclusive` says that one
command is in the PTA, at a stage of its own mode; `HeldInv`, what it holds there; `EventInv`,
that the event buffer holds the command's own events, whose number its stage gives and which
is below the limit, so none is dropped; `KeyInv`, that a key is whole wherever it is, in the
PTA, in a host's buffers, on its output, in the argument of the next host. `KeysTravelWhole`,
`FlushesAreOwn`, `KeysAreFreed` follow. `Exclusive` is where the serialisation by OP-TEE core
(`PtaFree`) enters.

**`QcborCallerProofs`** (any buffer size, limits, numbers, strings and sequence of calls): the
size calculation is right because of a relation between *two* executions,

    Pair(c, k) == Good(c) /\ Good(k) /\ c.out.cap <= k.out.cap /\ Agree(c, k)

A `Good` context has its output inside its buffer, its levels inside its array and their
start positions in order. `Agree` says that while the smaller buffer has room the contexts
hold the same bytes, levels and error, and that once it has none the other one has counted
more than it could hold. Every function of the encoder keeps a context good and never
takes back bytes or an overflow (`Grows`), and does the same to both as long as it succeeds
on both; closing a level, which inserts a head and slides the content, is the long case. `EncoderStaysInside`,
`LevelsStartInOrder` and `SizeIsPredicted` follow. Numbers, string lengths, the size limit and the item
limit are assumed to fit 64 bits (`IsUint64`), as the code's types have it: the loop that
splits an argument into bytes ends after eight.

That the output reads back as the document is a relation between the context and what the
caller asked for, `DInv == DocInv /\ WrapInv` (`ContextBuildsDoc`). While levels are open the output is *not*
an encoding of anything: heads are missing. `Document` says what it is instead: it falls into as
many pieces as there are open levels, cut at the start positions the encoder remembers; each
piece is the encoding of the tokens put into its level; each level has the type of the
level that was asked for and the count of its items, the level inside it included.
This is claimed of contexts without an error (`Clean`). An error of the output buffer stays; one of
the encoder may be cleared (see findings), so the claim is about `failed`, the history variable that
remembers there was one, and `Fair` says that a context that never had an error reports none. There is one lemma for each
kind of call: a function that adds `Writes` its tokens and counts its items, one that opens
`Opens`, and one that closes `Closes` a level, whose piece then gets a head in front and joins
the piece of the level around it, with the count the level kept as the head's argument.
`Encodes` is the encoding seen from the writer (positions at which heads and bytes are);
`EncodingIsRead` shows that the reader, which does not know them, finds the same ones.
`EncodingReadsBack` and `WrappedReadsBack` follow.

**`AlgorithmsProofs`** (any `Inputs`): `HeadsReadBack`, `NumbersAreKept`, `EncodesBase64`,
`CidsAreJedec` and `QuotesAreCovered` say of every input what the run `algorithms` says of
some. The inductive invariant is only that the input was chosen (`Chosen`); the work is in
the lemmas about what the operators compute. They rest on the equations of the recursive functions: that a function
meeting the equation exists is shown by giving one, or step by step, and what it computes by induction over
a *set* of numbers (`NatSet`, from the well-foundedness of the natural numbers), which needs no
operator parameter. Heads: the
loop that emits the argument stops at the least width that holds it (`WidthHolds`,
`HeadWidthLeast`), and big-endian bytes gather to the number (`BigEndianGathered`). Numbers: what an insertion leaves
where (`SplicedElements`, `SplicedParts`), and that the bytes are not found earlier than where
they are (`FoundBefore`). Base64: a character is six bits of the input (`ByteBits`, `SixBits0` to `SixBits3`, `GroupDigits`), the groups one
after the other are the characters (`OneGroupMore`, `GroupsAre`). CID: bytes of 32-bit
words. Quotes: what has been collected after a line is a beginning of what is collected later and one longer for each
sha256 line (`Collected`, `Grows`), so two lines with the same recomputed PCR have only skipped
ones between them; and a skipped line under the quote puts a template hash into the PCR which no
collected line has (`CoversNothing`).

The claims and the signed message are the last part of the module: `ClaimsAreReadBack` and
`CoseIsWhatIsSigned`, for any claims and payloads as in `InputsAssumption`. The functions of
`cbor.c` are fixed sequences of calls, so there is no induction but a lemma for each entry. `Made(c, d, T, k, n)` says that between two contexts the
tokens `T` were written, as `k` items, in `n` bytes *or* that the buffer has overflowed, and that
nothing else can have gone wrong (`Sound`); `MadeTwice` puts two of them together and
`LevelMade` puts a head around one. The lengths add up to `PayloadLen`,
`TbsLen` and `CoseLen`, which is why the overflow can be stated exactly: `Yields` says of what is
returned that it is NULL if and only if that length exceeds the buffer, and otherwise reads
back as the tokens. These are the lengths `Evidence` uses, so `EveryNonceFits` there is about the
bytes that are produced.

Only model-checked: liveness (`Recovers` in the violating run, `ProbeEnds`, `AnswersAgain`,
`HostEnds`, `HostsEnd`), which needs fairness and `ENABLED`. Every invariant and every action
property of a passing run is proved.

## 5. Findings

* **An unanswered CMD25 is not recovered from** (`imx_usdhc.c:520`, run
  `usdhc_wedge`). The data phase drops the cached state, the command phase does
  not. If the device did take the command it waits for data, answers nothing else,
  and no later call identifies it again.
* **CMD0 overtakes programming** (`imx_usdhc.c:542`, run `usdhc_busy`). Line 998 says that the
  next command must not arrive while the device is busy. After a data phase that failed on the
  driver's side only, the device may be programming; the cached state is dropped and the next
  call begins with CMD0, without a wait. No other command does so (`ProgrammingAwaited`).
* **The relying party answers with an empty body** when the verifier's response has
  no result or is no JSON, or the temporary file fails (`main.go:91`, run
  `attestation_forward`).
* **Opening an array or map clears an error** (`R/qcbor/qcbor_encode.c:890`, run
  `qcbor_errors`). `uError` is assigned, not kept, although line 206 says that errors are never
  cleared. The calls of `cbor.c` do not reach this: before they open anything only a
  full buffer can have failed, which the output buffer remembers by itself. A caller that closes what it did not open,
  and opens again, gets success.

Observations without a run:

* The check of lines 906-907 cannot protect the call that makes it: if Linux gated the *module's*
  clocks while a call runs, the next register access would fault the core. `FaultsOnlyWhenCut`
  states this as the one case left, and the run `usdhc` has it. A *bus* clock that goes off later
  in the call makes its data phase stall and fail, and the next call switches it on again
  (`AnswersAgain`); "the TEE keeps its bus clock alive" (line 247) is true once a call.
  `docs/ftpm-imx8mp.md:44` has the kernel keep that clock running.
* `R/perf.c:14` says that measurement runs "are expected to be sequential (one attestation
  client at a time); concurrent PTA invocations would interleave their events". The model has
  several clients at a time, and `FlushIsOwn` holds nevertheless, because the PTA is registered
  with `PTA_DEFAULT_FLAGS` (`R/remote_attestation.c:534`), so that OP-TEE core runs one command
  of it at a time. That serialisation is not in the repository, and `perf.c` has no lock of
  its own: the model takes it as given in one place, `PtaFree`. Its variant `PtaFree_Concurrent`
  lets two commands in, and the events then interleave as the comment says.
* Multi-block select is set for more than one block (`imx_usdhc.c:498`), the comment
  at line 491 says it must follow the command.
* Once another master used the controller, `imx_usdhc_init` identifies the device
  again (`imx_usdhc.c:909`), although `imx_usdhc.h:20` calls it idempotent. The model
  has this behaviour, and the proofs rest on it.
* An empty `--key-hex` is accepted and signs with the embedded key
  (`attester/remote_attestation/host/main.c:337`).
* The PTA returns success when the output buffer is too small (`R/remote_attestation.c:347`),
  `pta_remote_attestation.h:23` documents an error; the TA compares the sizes
  afterwards and reports it.
* `sign_ecdsa_sha256` does not free its key structure when the numbers of the key
  cannot be allocated (`R/sign.c:72`); `ResourcesReleased` states it as the one
  exception.
* Key generation and conversion leave the host process without closing the session;
  the exit of the process does it.
* A level whose count is exceeded by an *array or map* does not report
  `ARRAY_TOO_LONG` at that point: the result of counting the item is overwritten by that of opening
  the level. Comments disagree about the largest number of items.
* `QCBOREncode_OpenBytes` hands out all the room that is left, although the head is
  yet to be inserted: content that fills it makes the close fail.
* `host-verify.sh` says that the remaining lines are what the quote attests. That is
  exact for lists of sha256 lines. Skipped lines behind the quoted
  ones stay in the list, and a skipped line before the quote makes the verification
  fail, since the kernel did extend it. `VerifierCoversQuote` states precisely this.

## 6. Not modelled

* Cryptography (hashes, signatures, RPMB MACs, CAAM wrapping) beyond which key and
  which nonce are involved.
* `tee_rpmb_fs.c`, Veraison, the TEE client library: not in the repository.
* The decoder of QCBOR: three headers declare and document it, its code is not in the
  repository. `ieee754.c` and floating point: compiled out.
* Taking the quote and checking its signature: calls of tpm2-tools.
* Provisioning, secure-boot and build scripts: stateless sequences of external tools and
  computations on ELF files.
* The EXT_CSD bytes of `imx_usdhc_dev_info`, which are copied from fixed positions.
* The write counter of the RPMB partition: kept by code that is not in the repository.

## 7. Plan

Done in this order, the most consequential part first: `Usdhc` and its proofs,
`RpmbNative`, `Attestation`, `Evidence`; then the abstract exchange and its refinement,
`PtaCommands`, the encoder with its caller, and the pure parts; then the proofs of all
safety properties of the state machines and of the refinement; then those of the pure parts;
then that documents, claims and messages read back, for which the reader was written
without recursion. Nothing of the plan is left. What would extend it: provers for the liveness properties, and the code
outside the repository (`tee_rpmb_fs.c`, the verifier), should it be added.

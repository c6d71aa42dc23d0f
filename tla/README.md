# Verification of ctap-fido2

`ctap-fido2` is a client library for FIDO2 authenticators on USB. It finds a
device, opens a CTAPHID channel to it (`src/src/hid.rs`), and runs CTAP2
commands over the channel (`src/src/cmd`, `src/src/pin.rs`). It is synchronous:
one `Transport` belongs to one thread and has no background work. The hard
part is what it shares. A device serves every thread and process that opens
it, its reports go to every open handle, it answers when it likes, and a call
that timed out leaves its answer on the way. Nothing in a reply says which
request it is for.

## 1. Inventory

| part | source | state | operations |
|---|---|---|---|
| Transport | `hid.rs` | `device`, `cid`; inside a call the chunks left to send, or the body collected and the next sequence number | `open`, `transact`, `wink`, `vendor_command`, `cancel` |
| Framing | `hid.rs` `send_message`, `recv_message` | lengths and two `u8` counters | cutting and joining messages |
| Authenticator | `cmd/mod.rs` | its `Transport`, `info` (a cache) | `info`, `make_credential`, `get_assertion`, `get_next_assertion`, `get_hmac_secret`, `probe_credential` (and `_with_touch`), `pin_session`, `pin_token`, `pin_retries`, `wink`, `cancel`, `reset` |
| PIN protocol one | `pin.rs` | `PinSession` (shared secret, platform key), `PinToken` | `establish`, `get_pin_token`, `auth_param`, AES and HMAC |
| Parsers | `cmd/get_assertion.rs`, `make_credential.rs`, `get_info.rs`, `cbor.rs` | none | from CBOR maps and authData to structs |
| COSE keys | `cose.rs` | none | key parsing, signature verification |
| Enumeration | `device.rs` | none | `list_devices`: open, `getInfo`, drop, for each device |
| Errors | `error.rs` | none | status byte to `CtapStatus` and back |

How they interact: every `Authenticator` operation is a sequence of one to
three `Transport::transact` calls; `get_hmac_secret` is `getKeyAgreement`,
perhaps `getPinToken`, then `getAssertion`. The `PinSession` made by the first
is used in the others. Between two exchanges the device serves others. A
`transact` writes up to 129 reports and then reads until a whole reply, an
`ERROR` report, a framing error or a minute of silence.

What is hard:

- *Timeouts.* The host gives up, the device does not. There is no
  resynchronisation: the late reply is read by the next call.
- *Sharing.* `INIT` replies are broadcast. A busy device refuses other
  channels. Another client's wrong PIN replaces the device's key between two
  exchanges of this one.
- *Losses.* The operating system keeps a bounded queue of reports per handle.
- *Partial failure.* A write can fail between two reports of a request.
- *Stale memory.* The `info` cache, a `PinSession` and a `PinToken` outlive what
  they were about: a reset, a wrong PIN, a power cycle, the Authenticator itself.
- *Reopening.* After a failed call a new Authenticator is the only way to get
  back in step; what the old channel asked may still be carried out.
- *Arithmetic.* Chunks of 57 and 59 bytes, a `u8` that wraps, a 7-bit field,
  offsets into authData from lengths the device sends.

What makes each part correct: a Transport answers the request just sent, as
long as it has not failed, and another handle's never; channels are distinct;
calls return; messages arrive whole; an operation's result is about that
operation; a PIN costs one attempt, and what is signed with user verification
was authorised by the right PIN; a walk through several assertions does not go
back; no reply makes a parser panic, or read a field from where it is not.

`PROJECT.json` lists every hazard with its line and the properties that cover it.

## 2. Modules

```
CtapFrames ── Transport ─┐
     └─────── HidDevice ─┴─ CtapHid ── CtapHidInv ── MCCtapHid
                               │            └── the proofs of CtapHid, each on the one before it:
                               │                CtapHid_proofs ── CtapHidTrust_proofs
                               │                ── CtapHidContract_proofs, CtapHidOrder_proofs
                               └ INSTANCE CallContract
Framing ── MCFraming, Framing_proofs
Ctap2Link ── Ctap2Client ─┐
     └────── Ctap2Device ─┴─ Ctap2 ── Ctap2Inv ── MCCtap2
                               └── Ctap2_proofs ── Ctap2Answers_proofs
CoseKeys ── AuthData ─┐
            Responses ┴─ Parsers ── MCParsers, Parsers_proofs
```

**CtapFrames** has what host and device share. A report is a record of channel,
command, the request it belongs to, one number (the continuations that BCNT
announces, a sequence number, or the channel of an `INIT` reply) and the
status byte of a CBOR reply. The host never looks at the request of a report
except in `INIT` reports, where it is the nonce. `out` is the
one report the device has not taken; `rx[h]` is the input queue of a handle.

**Transport** is `hid.rs`. A handle's thread is at `pc[h]`:

| `pc` | where in the code | actions |
|---|---|---|
| `closed` | no `Transport` | `OpenPath` |
| `initSend` | `ctaphid_init` before its write | `WriteInit`, `OpenTimesOut` |
| `initRead` | `ctaphid_init` in its loop | `SkipBeforeInit`, `AcceptInit`, `RejectInit`, `OpenTimesOut` |
| `idle` | no call runs | `Call`, `RejectCall`, `Cancel`, `Close` |
| `writing` | `send_message` | `WriteFrame`, `CallFails` |
| `reading` | `recv_message` | `SkipStray`, `SkipKeepalive`, `ErrorFrame`, `UnexpectedCommand`, `FirstFrame`, `ContinuationFrame`, `BadContinuation`, `CallFails` |

`body[h]` holds the reports collected by `recv_message`; that it is empty tells the
first loop from the second. `cid`, `opens` and `txn` are the channel and the
numbers of the current nonce and request. `outcome` remembers what the last
call returned and the reports it was made of. `clean`
remembers whether a call of this Transport has returned `Error::Hid` or
`Error::Parse`; the code has no such flag: it is what the properties are stated with.
`Cancel` is enabled between calls only: `transact` borrows the Transport
mutably and `HidDevice` is not `Sync`.

**HidDevice** is external: the CTAPHID side of an authenticator, as permissive
as CTAPHID allows. It has one transaction; it may keep alive, abort, refuse
(channel busy), answer with any number of reports, answer with a failure, or
answer a CBOR request with an empty body. Delivery to a full queue loses the report.

**CtapHid** composes them, and holds the properties and the refinement mapping.
**CallContract** is the abstract specification: no reports, no channels. A
handle asks, and is answered for the request it has just asked while it is trusted,
for any of its own requests after a failure; the device carries out a request
at most once. `MeetsContract` says that CtapHid implements it.
**CtapHidInv** has the inductive invariant of the proofs, in named parts.

**Framing** is the arithmetic that the frame model abstracts: one message, as
offsets, from a sender to a receiver. Reports carry the offset and the length
of their chunk. The host's sender refuses more than 7609 bytes; the device's does
not, up to BCNT's 65535, and may or may not mask its sequence number.

**Ctap2Link**, **Ctap2Client**, **Ctap2Device** and **Ctap2** are the command
layer. A client's `line` and `inbox` are its requests and replies as whole
messages, in order: `transact` from above. A request the client stopped waiting
for stays in the line and its reply in the inbox, which is the lag CtapHid
exhibits. This is an abstraction of CtapHid made by hand, not one shown by
refinement: lost replies, busy refusals out of turn and late replies are in it.
A reply that lost reports is `OnGarbled`, a parse error; the continuation
reports such a reply leaves behind are not kept, since the next call would only fail on them too.

An operation is at `want[c]`, the reply it waits for. Its actions are those of
`Invoke` (the code up to the first `transact`) and of `Resume` (from one
`transact` to the next, or to the return). `Fits` says which reply passes the
parser of which command: `getInfo` takes any CBOR map, `reset` takes anything,
`getAssertion` and `getNextAssertion` share a parser, the others look for
fields of number and type that only the right reply has. `memory` is what a
caller has between operations:

| variable | in the code | ends |
|---|---|---|
| `handle` | the open `Authenticator`, or the one `list_devices` opens and drops | `Attach` (`Authenticator::open`), `Unplug` |
| `cache` | `Authenticator.info` | with the Authenticator |
| `kept` | a `PinSession` from `pin_session` | never: it borrows nothing |
| `held` | a `PinToken` from `pin_token` | never |
| `walk` | the assertions the caller has been given since its last `getAssertion` | with the next `getAssertion` |

`Attach` gives a client a channel of its own: its inbox is empty and what it
asked before is an `Orphan`, which the device may still carry out but does not
answer to it. `Unplug` is a power cycle: open handles are dead from then on, the device has a new
key, a new token and no pending assertions.
`list_devices` is `List`, then `OnInfo` or any failure, and `Finish`, which
closes; a failure means that the device is left out of the result.

Secrets are abstract: `Secret` is the pair of keys that made it; `Box` opens
under the same secret and gives noise under another. The device replaces its key
agreement key after a wrong PIN, at reset and at a power cycle, as CTAP2 has it.
`hash` is the clientDataHash, which callers make fresh for each operation. The
assertions that `getNextAssertion` may still give are the device's `pending`,
one sequence for all channels.

**Ctap2Inv** has the inductive invariants of the proofs about the command layer, one for
each question: where the exchange of a client is, what a request and a reply on the way
say, which session sealed what, which clientDataHash has been signed.

**CoseKeys**, **AuthData** and **Responses** are the parsers, and **Parsers**
composes them: `ReadStatus` is the status byte in `transact` and `cbor::decode`;
`LookUp` takes one field after the other out of the map, by `swap_remove` where
the code takes ownership; then `OpenReply` hands the byte string or key among
the fields to a walk of AuthData. A walk is one action per check of
`decode_extensions`, `parse_credential`, `parse_extensions_echo`,
`call_hmac_secret` and `get_pin_token`; its data are
lengths and offsets, and `slice` and `sealed` record the last slice taken and the last
length given to AES-CBC, so that `NoPanic` can say they were in range. A CBOR item is its
length. `Fields` is the list of what each parser asks for, with the types it takes.

**MCCtapHid**, **MCFraming**, **MCCtap2** and **MCParsers** are the instances for
TLC. Definitions named `X_Something` before a definition `X` are mutants: plausible
bugs of the code, each of which breaks a property of a run.

## 3. Runs

Passing runs. All leave deadlock unchecked, since a client that has made its
last call stops. `Faults` is: writes may fail, reads may time out, replies may be lost.

| run | instance | question |
|---|---|---|
| `hid_two` | 2 handles (symmetric), 2 opens and 1 call each, 2-report replies, queue of 2, faults | do handles sharing a device stay apart; is an answer the own one until the first failure |
| `hid_one` | 1 handle, 3 calls of CBOR or another command, up to 3-report replies, a queue of 20, faults, device not fair | does the transport implement CallContract; can a Transport that lags splice two replies; is the channel quiet after a good call; is a request ever carried out twice |
| `hid_live` | 2 handles, no faults, a queue that loses nothing, everyone fair | is every answer the own one, is every framing error impossible, do calls return |
| `framing` | every length next to a boundary: 0, 1, 57, 58, 116, 117, 7609, 7610, 15161, 65535 ... | do messages arrive whole, in order, with counters in range |
| `parse` | authData next to every boundary (37, 55, ids of 0, 1 and 65535 bytes), response maps with missing, repeated, reordered and ill-typed entries, keys of both curves, all 256 status bytes | does a parser panic, read a field from elsewhere, refuse what is well formed, leave a salt without its secret, or lose a status |
| `cmd_one` | 1 client, 3 to 5 operations, one reopening and one power cycle, faults | is a result about this operation, until a failed exchange and again after reopening; does a probe name a credential of its list, and one of several that finds none tell the truth; is the credential of `make_credential` the one this call made; do PIN attempts, signatures and prompts agree with the PIN given; are sessions, tokens and walks used for what they are of |
| `cmd_pair` | 2 clients, 2 or 3 operations each, no faults | do interleaved operations get their own secrets; is a right PIN refused for a replaced key only; does a walk through assertions go back |

Runs that show a disagreement between the code and what it says of itself:

| run | what the counterexample does |
|---|---|
| `v_own` | A call times out. The next `transact` returns its late answer. |
| `v_open` | Two opens at once. One reads the other's `INIT` response first and fails with `Error::Parse`, "nonce mismatch", though every response is well formed. |
| `v_pin` | `pin_session`, `pin_token` with a wrong PIN, `pin_token` with the right one in the same session: `PinInvalid`, and one more attempt gone, because the device has a new key. |
| `v_info` | `info`, `reset`, `info`: still says that a PIN is set. |
| `v_salts` | One salt, and an output of 64 bytes: `secret2` is `Some`, though its doc keeps it for a second salt. |

**Bounds.** Two handles are enough for every property about sharing: a
property relates a handle to one other. Replies of two or three reports
have a first, a middle and a last one; their sizes do not matter in CtapHid and
are Framing's subject. A queue of two makes losses happen in the
middle of replies. Two opens of a handle make reports of a closed channel and of
a new one coexist. Three calls let a Transport be one and two replies behind.
`hid_one` has a queue that no run of three calls can fill, for what is only true
without losses (`OneRequestPerAnswer`); losses are in `hid_two`.

In the command layer a run starts in one of several `Plans`: the operations
allowed and how many calls, openings and power cycles there may be. The plans of `cmd_one` are the
operations that keep nothing (3 calls, one reopening); PIN operations and
verified secrets (3 calls, a reopening, a power cycle); sessions and tokens (4 calls, so that a
token can be fetched, outlived and used); walks (5 calls: a getAssertion, two
getNextAssertions, and another walk); enumeration next to info, reset and make. Operations of different
plans that meet would add only replies of other kinds in the inbox, which each plan already
has. `LineCap` is two, as a client that has lagged more than that has the same kinds of
reply to confuse. `Maps` has every map of up to three entries from 12, and every order of a whole reply.
`MaxKeepalive` bounds the
keepalives of a request, and so assumes endless ones away: in the code a device that sends them without end
keeps the call waiting without end, since each one starts READ_TIMEOUT anew. `CallsReturn` does
not claim otherwise and would not notice; no property covers that hazard.

**Fairness.** Only `hid_live` and `framing` ask for it. `hid_live` has no timeouts, so
the device must answer (`DeviceFairness`); every blocking call of `hid.rs` ends in a report or an error, and threads
that write in competition are served in turn (`TurnTaking`, strong fairness), which the operating system
gives: one handle that calls `cancel` for ever does not block another's write. In `framing` the
two loops of one message keep running. No fairness is assumed of the callers. With `Faults`, a call may
end by READ_TIMEOUT whenever nothing waits, so that it returns needs no run of its own.

**What the properties leave to a failed channel.** Most results of the command layer are claimed
until an exchange fails and again after a reopening. In between, the late answer that `v_own` exhibits is what the
next operation reads, whatever it is: `getInfo` takes any CBOR map and `info` caches it (get_info.rs:25-40),
`reset` looks at no body and returns Ok even if the device then rejects the reset (reset.rs:27), and a probe names
the id of another assertion. TLC finds each of these when `trusted[c]` is dropped from `CacheIsInfo`,
`ResetMeansWiped` and `ProbeFitsList`; none has a run of its own, as they have one cause. Likewise `NoneOfSeveral` leaves out an
allow list of one: CTAP 2.0 lets the authenticator omit the id, and `probe_credential` then returns `None`
for a credential that is there (get_assertion.rs:194-202, against the doc at mod.rs:323-325).

## 4. Proofs

For every value of the constants (any number of handles, calls, reports, any
queue, any lengths), under the named assumptions of the modules
(`FrameAssumption`, `TransportAssumption`, `DeviceAssumption`, `FramingAssumption`,
`BlobAssumption`, `KeyAssumption`, `LengthAssumption`, `LinkAssumption`, `ClientAssumption`,
`Ctap2DeviceAssumption`):

| theorem | property |
|---|---|
| `CtapHid_proofs!TypeCorrect` | `TypeOK` |
| `CtapHid_proofs!ChannelsStayDistinct` | `ChannelsDistinct` |
| `CtapHid_proofs!AnswersStayHome` | `AnswerNeverForeign` |
| `CtapHid_proofs!CarriedOutAtMostOnce` | `PerformedAtMostOnce` |
| `CtapHidTrust_proofs!TrustedAnswersAreOwn` | `TrustedAnswerIsOwn` |
| `CtapHidTrust_proofs!NothingLeftBetweenCalls` | `QuietBetweenCalls` |
| `CtapHidContract_proofs!ContractKept` | `MeetsContract`, the refinement |
| `CtapHidOrder_proofs!OneRequestPerReply` | `OneRequestPerAnswer`, while no queue is full |
| `CtapHidOrder_proofs!NoFramingErrors` | `FramingNeverFails`, without faults, while no queue is full |
| `CtapHidOrder_proofs!AnswersAreOwn` | `AnswerIsOwn`, without faults, while no queue is full |
| `Framing_proofs!FramingTypes` | `TypeOK` |
| `Framing_proofs!ReassemblyInOrder` | `ChunksMeet` |
| `Framing_proofs!MessagesArriveWhole` | `RoundTrip` |
| `Framing_proofs!CountersFit` | `SequenceFits` |
| `Parsers_proofs!ParsersNeverPanic` | `NoPanic` |
| `Parsers_proofs!WalksFollowLayout` | `LayoutFollowed` |
| `Parsers_proofs!ParserTypes` | `TypeOK` |
| `Parsers_proofs!FieldsAreTheReplys` | `FieldsAreReplys` |
| `Parsers_proofs!StatusBytesSurvive` | `StatusSurvives` |
| `Parsers_proofs!WellFormedIsAccepted` | `WellFormedAccepted` |
| `Parsers_proofs!ValidKeysVerify` | `ValidKeyVerifies` |
| `Parsers_proofs!EverySaltIsAnswered` | `EverySaltAnswered` |
| `Ctap2_proofs!Ctap2TypeSafety` | `TypeOK` |
| `Ctap2Answers_proofs!Ctap2CacheIsInfo` | `CacheIsInfo` |
| `Ctap2Answers_proofs!Ctap2ResetMeansWiped` | `ResetMeansWiped` |
| `Ctap2Answers_proofs!Ctap2UvProvesPin` | `UvProvesPin` |
| `Ctap2Answers_proofs!Ctap2WrongPinGoesNoFurther` | `WrongPinGoesNoFurther` |
| `Ctap2Answers_proofs!Ctap2OneAttempt` | `OneAttemptPerOperation` |
| `Ctap2Answers_proofs!Ctap2SecretIsRequested` | `SecretIsRequested` |
| `Ctap2Answers_proofs!Ctap2ProbeFits` | `ProbeFitsList` |
| `Ctap2Answers_proofs!Ctap2CredentialOfThisCall` | `CredentialIsOfThisCall` |
| `Ctap2Answers_proofs!Ctap2RightPin` | `RightPinNeedsOldKey` |
| `Ctap2Answers_proofs!Ctap2NoneOfSeveral` | `NoneOfSeveral`, of one client |
| `Ctap2Answers_proofs!Ctap2PinInvalid` | `PinInvalidMeansWrong`, of one client |
| `Ctap2Answers_proofs!Ctap2NextContinues` | `NextContinues` |

*Types.* The type invariant is inductive once it says that reports that wait
are of the device's commands and that a message being sent has reports left.

*Channels.* Distinct channels are not inductive alone: nothing in them rules
out an `INIT` reply on the way that grants a channel already held. `ChannelInv` adds that a
granted channel is recorded with its nonce, that an open handle's channel is recorded with its
current nonce, and that every `INIT` reply in a queue carries a recorded grant. Two open
handles with one channel then have one nonce, and a nonce names its handle. Nonces of
8 random bytes are taken to be unique.

*Answers.* Every report that waits, and the device's transaction, is of a
request made by the owner of its channel (`Sent`). With ChannelInv and the channel test in `recv_message`, what a
handle collects is its own; `HandleInv` carries that through `body` to `outcome`.

*At most once.* That the device's transaction is not one it has carried out says nothing of
the reports still to be taken. `OnceInv` adds that a request whose first report waits, or has
not been written yet, is `Fresh`: neither at the device nor carried out. Only `Call` makes a
request pending, with a number that is new; only `WriteFrame` moves its first report out.

*Trusted answers.* `CleanInv` says where the one request of a clean handle is. Before its first
report is written the channel is `Quiet`: no request, transaction, report or body of it
exists. Afterwards the handle is `Waiting`: the request is on its way, or the device has it, or its
reply is on the way back, and never two of these. The queue then holds keepalives, and after them
either one error or the parts of one reply in strictly rising `Rank`; so a part that is
lost can make `recv_message` fail or wait, and cannot make it take a wrong one. `EarnedInv` is
the other half of an Ok answer: its reports are of a request carried out. `UnusedInv` starts
it all: a channel granted to an open that is still waiting has carried nothing.

*Contract.* Each action of CtapHid maps to the action of CallContract with the same effect on
`PhaseOf` and `ResultSeen`; those that only move reports map to stutters. An answer is
`Answer` if the handle is clean (from the trusted answers) and `AnyAnswer` otherwise, which
needs `PartsInv` and `EarnedInv` for a handle that has failed: even then an Ok answer is made of
reports of requests carried out. `Perform` is `CarryOut`, new by `OnceInv` and numbered from one by `NumberedInv`.

*Order.* Three properties need that no report is dropped. Their hypothesis is `[]Room`: every open
file has room for the next report. What is proved is about behaviours in which the host keeps up;
with a queue of two in `hid_one`, TLC finds a reply spliced
from two after the first reports of one were dropped. TLC confirms `Room` at every state of
the models of `hid_one` and `hid_live` (given as an INVARIANT), so there the theorems say what the runs check. `OneRequestPerAnswer` holds even
for a Transport that is a reply behind. By `LosslessInv`, between a part
of one reply and a part of another with the same rank there is always something that begins a message; that is true
inside the queue, of what is already joined and the queue, and of both and what the device sends next.
The other two also assume `~Faults`, as `hid_live` does. `CleanInv` speaks of handles that have
not failed; `FaultlessInv` says what is left of it when a call can fail only by an error of the device
(channel busy, a cancel): every handle is in step with its request (`InStep`), what waits for it
is of the command it waits for (`SameCommand`), and no part is missing (`NoGap`), so the
continuation that comes is the one expected.

*Framing.* `Lockstep` relates the two ends: the bytes the sender has cut are those the receiver
has joined plus those in the link, and both counters are determined by them. That the chunk
sizes agree at both ends, for every length, is what keeps it.

*Parsers, walks.* `Walk` says where the offset is at each step of a walk, in terms of the
lengths of the blob, and that the flags were tested that led there. With it every
slice has its ends in the blob, and the walk that ends finds the extensions at the
end of the key. `Inside` is `Walk`, the types it needs (`Lens`) and `NoPanic`. With it
`WellFormedAccepted` is inductive: a walk that is where the layout says cannot be refused in
a blob that has the layout.

*Parsers, fields.* That a lookup finds its field is not inductive, since swap_remove changes the
map for the lookups after it. `FieldsInv` adds `InOrder`, the fields ahead are those the parser
has not asked for, and `NothingLost`, an entry with the key of a field ahead is still in the map:
swap_remove drops only the entry it takes (`TakenEntry`), and no parser that takes entries asks for
a key twice (`KeysOnce`). A needed field that was not found is then not in the reply (`Outcomes`).

*Parsers, keys and secrets.* `KeyKept` says that a credential's key is kept only after Validate, which
tests what verification looks at (`ValidatedVerifies`). `SecretsKept` says that nothing is
returned before the last step, which has refused a second salt without a second secret. The
converse is not checked by the code (get_assertion.rs:376-382), so the theorem says one secret
for each salt only of an output of 32 bytes for each; `v_salts` shows the other case.

*Ctap2, steps.* `StepShapes` says what any step does to one client: nothing, it rests between
operations, it asks, its request is taken (and may be answered), or a power cycle empties its
queues. The invariants below are proved over these five shapes and not over the thirty actions;
`Answers` is what a reply says of its request, `Belongs` what a request says of its operation.
`TypeOK` needs `OperationInv` (an operation waits only for what it asks) and `NumberInv`
(requests are numbered in the order of the line, replies are to requests sent).

*Ctap2, trusted channels.* `TrustInv` says that on a channel no exchange of which has failed
there is the exchange the client waits for and nothing else, an old channel's requests aside,
which are not answered on it. So what `info` caches is getInfo's, and, with `WipedInv` (an OK
to a reset was earned), what `reset` believes is its own.

*Ctap2, PINs.* An operation's token request is sealed under a session named after the
getKeyAgreement right before it. By `PinInv` a token in a reply is sealed under a session older
than the request it answers, and came for the PIN that request names. If the client can open it,
with a session that is one request old, it is the reply to its last request: a late token
of another PIN decrypts to noise, which the device never takes. This holds on failed channels too.

*Ctap2, attempts.* By `AttemptInv` the operation of every token request in the line is uncounted
and different from that of the others, and an operation that waits for its getKeyAgreement has not tried its PIN.

*Ctap2, secrets.* By `SecretInv` an operation's getAssertion is its last request and asks for what the
operation was given, and an output in the reply is for the first of its salts. A trusted channel brings the reply to that
request (`TrustInv`); on another, the verified clientDataHash picks it out.

*Ctap2, answers.* `AnswerInv` says of the getAssertion of a probe, on its way on a trusted channel,
that it has the probe's allow list, and of an OK in the inbox that it names a credential of that
list, or the one that the request it answers made. `TrustInv` makes it the reply the client takes.
That a request made no other credential, and makes none after its answer, is `ServedInv`: what was
carried out is in no line any more, and a request is numbered anew.

*Ctap2, keys.* Another client may use up the device's key between the getKeyAgreement of
a session and the token request. By `EpochInv` a session is made with a key the device has had, and the token
request on a trusted channel is sealed under the caller's session. A right PIN that is refused was then
sealed under an older key than the device's, and the refusal made the device's newer still: so a right PIN
counts as a wrong one for no other reason than `RightPinNeedsOldKey` gives.

*Ctap2, one client.* Two properties speak of the authenticator as it is, and not as it was
when it answered: that none of several credentials is there, and that the key a PIN was sealed
under is the device's. Another client may create one of them, or use up the key, between
the answer and its use, and TLC shows the second in `cmd_pair`'s model; so the theorems have the hypothesis
`\A c, d \in Clients : c = d`, that a client has the authenticator for itself, which `cmd_one`
satisfies. It may still time out, reopen and be unplugged: what it asked before is carried out before
what it asks now, so a refused probe or a getKeyAgreement finds the line empty
(`AbsentFor` in `ProbeInv`, and `KeyInv`), and nothing is left that could change the answer. A power cycle empties the line too.

*Ctap2, sequences.* A clientDataHash is fresh for its operation, and an operation sends one
getAssertion; so by `HashInv` what is signed, as far as anyone can see it (among the
assertions to come, in a caller's walk, on its way to one), is signed by one getAssertion that is
no longer in any line. `WalkInv` then says that the credentials a caller has seen are not among those to come, and
that those to come, if of its own, are of the getAssertion its walk began with, or of one it waits for.
A failed exchange ends the claim and a reopening starts it afresh: requests of an old channel could
begin a sequence the caller does not know of, so a walk has none left (`NoOrphan`): an answer to
what was asked later shows that they are gone.

Only model-checked: liveness (`CallsReturn`, `MessageEnds`), which TLAPS does not prove. Every
safety property of the passing runs is stated by a theorem. The inductive invariants of CtapHid are in
CtapHidInv, which MCCtapHid extends: given to `hid_one` or `hid_two` as INVARIANTs, TLC checks
them too (`Room` and `LosslessInv` in `hid_one`, and with `FaultlessInv` in `hid_live`); so it does those of
Ctap2Inv in `cmd_one` and (`ProbeInv` and `KeyInv`, of one client, aside) `cmd_pair`.

## 5. Not modelled

- The `on_keepalive` callback, logging and zeroising: they change nothing that is used later.
- What only shapes the bytes of a request: algorithms, options, extensions other than hmac-secret, random user names.
- `vendor_command` with the wire bytes of `INIT`, `KEEPALIVE` or `ERROR` (only bit 7 is tested), excluded by FrameAssumption.
- AES, HMAC, ECDH and signatures themselves, points off their curve, and the CBOR encoding: crates.
- The texts, user entities and echoed values inside a reply; of `AuthenticatorInfo` only where each field is taken from, and clientPin.
- Two outputs for one salt, which CTAP2 forbids, in the command layer; Parsers has them.
- The hmac-secret filter of `list_devices` (`device.rs:66-68`): the one device of Ctap2 advertises hmac-secret, so `Finish` always has the device in the result when its `getInfo` parsed.
- A too short response to `INIT` apart from other failures: `RejectInit` stands for both, as both end the open with an error.
- A blocked PIN by its own status: it is a refusal here. The device's PIN counter is modelled, what `pin_retries` returns of it is not.
- More than one device: the HID filters of `list_devices` and the names it copies.
- The crate root and the test vectors, which have no state.

## 6. Plan

What is left: Ctap2Link as an abstraction of CtapHid, the line and inbox of a client as a mapping of
the transport's queues, first shown by TLC and then proved.

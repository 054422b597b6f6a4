# A TLA+ verification of `crypt`

`crypt` is a Go package of small cryptographic building blocks: authenticated
encryption (one-shot, with a key ring, chunked over a stream, under a KMS, to a
public key), expiring tokens, password hashes, signatures, and a legacy AES-CBC
format with a migration path. This directory models its control logic in TLA+,
checks it with TLC and proves the main results with TLAPS. Source lines of every
definition are in `PROJECT.json` ("map"), together with the list of hazards the
properties were chosen for.

## 1. Inventory

| Component | State it keeps | Operations | What is hard about it |
|---|---|---|---|
| Streaming AEAD, `stream.go` | per call: chunk counter, read position | `SealStream`, `OpenStream` | two loops talking through a medium; partial failure; end of input; 32-bit counter |
| `KeyRing`, `keyring.go` | kid to cipher map, raw keys, active kid; no lock | `NewKeyRing`, `Add`, `Remove`, `SetActive`, `Seal`, `Open` | long call sequences; overlapping callers |
| Envelope encryption, `kms.go` | `StaticKMS`: keyID to KEK map under a `RWMutex`; per call: a data key buffer | `AddKey`, `GenerateDataKey`, `Decrypt`, `Encrypt`, `EnvelopeSealer.Seal`, `.Open` | key replaced during a call; wiping on every path; two parts stored together |
| One-shot AEAD, `aead.go`, `format.go`, `errors.go` | none (`Sealer`: a cipher) | `Seal`, `Open`, `NewSealer`, `Sealer.Seal`, `.Open` | order of checks; slice arithmetic on foreign input |
| ChaCha20-Poly1305, `aead_chacha20.go` | none | `SealChaCha20`, `OpenChaCha20` | as above |
| Asymmetric sealing, `asymmetric.go` | none | `GenerateKeyPair`, `SealAsymmetric`, `OpenAsymmetric` | as above, and whose key reads what |
| Derived keys, `hkdf.go`, `examples/tenant_keys`; several keys, `examples/key_rotation` | none (`MultiKeyReader`: a list of keys) | `DeriveKey`, `deriveTenantKey`, `MultiKeyReader.Open` | keys apart; which of several errors is reported |
| Expiring tokens, `timelock.go` | none; reads the clock | `IssueToken`, `VerifyToken` | rounding; a clock that is set back; confusion with other ciphertexts |
| Stateless tokens, `examples/magic_link`, `session_token`, `csrf_token`, `encrypted_cookie` | none; read the clock | `issueLink`/`verifyLink`, `IssueSession`/`OpenSession`, `IssueCSRF`/`VerifyCSRF`, `setSession`/`getSession` | same JSON for different purposes; clocks of several servers |
| HMAC, `sign.go`, and webhooks, `examples/webhook_with_timestamp` | none; read the clock | `Sign`, `Verify`, `ConstantTimeEqual`, `SignWebhook`, `VerifyWebhook` | delay, replay, alteration; overflow of the age |
| Audit log, `examples/audit_log_chain` | the entries, each with a MAC | `Append`, `payload`, `Verify` | a log that is edited and then appended to; ambiguous text |
| AES-CBC, `cbc.go` | none (`Cipher`: a key) | `EncryptCBC`, `DecryptCBC`, `pad`, `unpad` | padding at block boundaries |
| Format detection, `auto.go` | none | `OpenAuto` | guessing a format; falling through to an unauthenticated one |
| Passwords, `password.go`, `password_bcrypt.go` | none; callers store a hash | `HashPassword`, `VerifyPassword`, `...Bcrypt` | parameters of older releases; 72-byte limit; concurrent rehash at login |
| `random.go`, `ed25519.go` | none | draw, sign, verify | little control |

How they interact: everything that encrypts calls the one-shot `Seal`/`Open` or
repeats their checks; `StaticKMS` wraps data keys with `Seal`; tokens are `Seal`
ciphertexts; `OpenAuto` chooses between `Open` and `DecryptCBC`; `KeyRing.Open`
also accepts `Seal`'s format. All randomness goes through `randReader`, whose
failure is an error path of every sealing function. Nothing in the package is
persistent and only `StaticKMS` has a lock; concurrency comes from callers that
share a value, and from the sealer and the opener of a stream running at once.

## 2. Modules

| Module | Models | Checked by |
|---|---|---|
| `Stream` | `stream.go`: any number of `SealStream` calls, one `OpenStream` call and the medium between them | `MCStream` (2 configurations) |
| `Delivery` | abstract: one source is received, all of it or a beginning | through `StreamRefinement` |
| `StreamRefinement` | the refinement mapping from `Stream` to `Delivery` | `MCStreamRefinement` |
| `StreamProofs` | theorems about the above, the refinement included | TLAPS |
| `KeyRing` | `keyring.go` with several callers | `MCKeyRing` (2) |
| `KeyRingProofs` | theorems about `KeyRing` | TLAPS |
| `Aead` | what `Seal` produces and which error `Open` returns, as operators the next modules share | with them |
| `Envelope` | `kms.go` with several callers | `MCEnvelope` |
| `EnvelopeProofs` | theorems about `Envelope` | TLAPS |
| `Clock` | the wall clock, `Unix` and the 64-bit conversions | with the next |
| `TimeLock` | `timelock.go` | through `Tokens` |
| `Sessions` | the four token examples, extends `TimeLock` | through `Tokens` |
| `Hmac`, `Webhook` | `sign.go`; `examples/webhook_with_timestamp` | through `Tokens` |
| `Tokens` | `Sessions` and `Webhook` composed: one clock, shared keys | `MCTokens` |
| `TokensProofs` | theorems about `Tokens` and the modules it is made of | TLAPS |
| `AuditLog` | `examples/audit_log_chain`, on `Hmac` and `Clock` | `MCAuditLog` |
| `AuditLogProofs` | theorems about `AuditLog` | TLAPS |
| `Wire` | the byte layouts of formats 1, 2, 3, 5, 6 and the slice arithmetic of all openers | through `Recipients` |
| `Recipients` | whose key opens a message of `Wire`: derived, agreed and several keys | `MCRecipients` |
| `RecipientsProofs` | theorems about `Wire` and `Recipients` | TLAPS |
| `Cbc` | `cbc.go` on bytes, as operators: padding, `EncryptCBC`, `DecryptCBC` | with `Migration` |
| `Migration` | `auto.go` and the migration script of `examples/migrate_cbc_to_gcm` | `MCMigration` |
| `MigrationProofs` | theorems about `Cbc` and `Migration` | TLAPS |
| `Login` | `password*.go` and the login of `examples/bcrypt_migration` | `MCLogin` (2) |
| `LoginProofs` | theorems about `Login` | TLAPS |

Operators named `X_Something` and commented "mutant" stand before the `X` they
are a faulty form of; nothing uses them in the specifications.

### Abstractions common to all

* **Ciphers are ideal.** A ciphertext is a record of the key, nonce and
  additional data it was sealed with and opens under nothing else; something
  nobody sealed never opens. AES-CBC is the exception: under damage or another
  key its blocks decrypt to noise, any bytes, whose padding may be right. Hash functions are
  injective, but bcrypt only sees 72 bytes.
* **Random values are fresh**: two draws of a nonce prefix or of a data key differ.
* **Plaintext** is a position in a source, a number, or a model value. `Cbc`,
  where bytes decide, has bytes.
* **A failing call** (random source, reader, writer) is an action of its own that
  takes the code's error path. A process that dies while sealing leaves the same
  state as one whose write failed and is not a separate action.

### Stream

One record of variables per `SealStream` call (`spc`, `rd`, `scnt`, ...), the
stored header and frames, and the opener's locals. `SealChunk` is one iteration:
`io.ReadFull`, the switch on its error, `gcm.Seal`, the two writes, `counter++`.
`SealReadFails`, `SealWriteFails` (which may leave a piece of a frame, or a whole
one) and `SealHeaderFails` are its exits. `OpenChunk` is an iteration that
delivers; `OpenHeaderFails`, `OpenTampered`, `OpenShortBody`, `OpenTruncated`,
`OpenWriteFails`, `OpenReadFails` are the exits. An opener may start while the sealer is still
writing. The medium removes, inserts, replaces, garbles and cuts frames not yet
read, changes length fields and headers, and can use any chunk ever sealed by
any of the calls. One opener is enough: openers share nothing.

### KeyRing

The type has no lock, so `Add`, `Remove` and `SetActive` are a check and an
effect, and `Seal` is its two reads of `r.active`; other callers may come in
between unless `Serialized` is TRUE. The tearing of a Go map under a data race
is not modelled: what is modelled already shows that sharing without a lock is
unsafe. `ActiveKid` only reads.

### Envelope

`AddKey` and `lookup` are atomic (the mutex); the rest of `Seal` and `Open`
interleaves. `buf[p]` is the data key slice of caller `p`, zeroed by the deferred
`zeroBytes`. The store may pair the two parts of ciphertexts as it likes and hand
out damaged copies. Keys a failed wrap leaves in memory are in `left`.

### Clock, TimeLock, Sessions, Webhook, Tokens

The clock counts ticks, `Sec` to a second, advances at any time and may be set
back `MaxBacks` times; a second server whose clock is behind is the clock set
back. `Unix` rounds down as the code does; expiries and ages pass through 64-bit
integers with `2 * Half` values. Everything issued is kept in `tokens` (with the
tick and the ttl it was issued with) or `hooks`, and any of it can be presented,
any number of times and damaged, to any verifier, under any key and for any
purpose or party; `last` and `got` are the verification just made, `seen` and
`heard` what was last said of each. The examples each have a key of their own;
here they share keys, which is the harder case, and only their aads keep them
apart. Time-locked tokens are issued for any purpose, those of the run being the
two that `timelock.go:35` suggests, which are the aads of `magic_link` as well.
`VerifyToken` reads 8 bytes of whatever opens and so takes a magic link for a
token (section 3); `NoTokenConfusion` says that this is the only confusion, and
the properties about expiry (`OwnKind`) are about a verifier and its own tokens.
A JSON object has the fields of all four payload types, those a type does
not have at zero; as the 8-byte expiry of a time-locked token it is a large
number. A CSRF token carries its time of issue and no expiry, so its rounding
favours the client: `Lifetime` gives it one second more.

### AuditLog

`Sound` is the loop of `Verify`: how many entries it vouches for. Entries can be
rewritten in every field but the MAC, dropped, and put in again, now or later and
anywhere, by whoever keeps the log, between the program's own appends. A field is a sequence of words separated by `|`, because `payload`
joins fields with that character and does not escape it: fields that contain it
can be shifted into each other unnoticed. That is why `FieldsKept` speaks of
entries none of whose three fields, actor, action and resource, contains it.

### Wire, Recipients

One message, run once: it is made, perhaps touched any number of times, and
opened. `Wire` has the layouts and the slice arithmetic; sizes are scaled down
(a nonce of 3, a tag of 4, a kid of up to 6, a byte of 8 values, a length field of 32) so
that every relation between them that the code depends on is met and every
boundary is reached. `Recipients` adds who sealed it for whom: a tenant's key
derived from the root key, or the secret agreed between a fresh key pair and the
recipient's. It calls the openers with any party's key, with one of a wrong
length, and `MultiKeyReader` with two.

### Migration, Login

The two places where examples, not the package, hold the state. A migration step
(read, seal, write back) is atomic, as the example's advice to run it in a
transaction has it. A login fetches the row, verifies it and writes it back in
three steps, so that logins overlap. 
A row's text is its alphabet, its length and the first byte of its base64url
decoding, which is what `isLikelyAEAD`, `isLikelyCBC` and the first checks of
`Open` and `DecryptCBC` look at. `FirstByte` computes that byte from the hex
digits of an IV, and shows that hex is never taken for version 1. The store may
put any text in place of a row's, hex of whole blocks in place of an AEAD row
included: `OpenAuto` then reads it as CBC, by design, and `OnlyPaddedAccepted`
says what passes. Assumed is only that the text `Seal` itself writes, 39
characters or more, does not consist of hex digits by chance.

A request has a `fakeUser` of its own, so that the two reads of its hash in
`loginAndRehash` give one value. A damaged hash may be malformed, have other
parameters, or be cut short and still parse: `VerifyPassword` computes as many
bytes as are stored (`password.go:102`), so one cut to `ChanceLen` bytes or fewer
may match any password by chance (`LoginByChance`).

## 3. Runs

Passing runs:

| Run | Shows | Bounds |
|---|---|---|
| `stream_one` | output is at all times a beginning of the source; nil means all of it; an undisturbed stream opens; a cut is never reported as tampering; no nonce repeats before the counter wraps; both calls return | sources of 0 to 3 units with every kind of end, chunk sizes below, at and above the limits, counter of 3 values (the fourth chunk wraps), 2 faults |
| `stream_two` | two streams under one key that a medium splices: `Stream` implements `Delivery`, and no nonce is shared | a full and a final chunk each, 2 faults (a splice and a cut) |
| `keyring_serial` | the active key is always usable; what the ring sealed stays readable until its kid is removed; nothing else takes it away | 2 callers, 3 kids, 2 keys, 1 ciphertext |
| `envelope` | only parts sealed together open; all that was sealed opens; no data key outlives a call but one whose wrapping failed, which sealed nothing | 2 callers, 2 KEKs for one keyID, 2 wrapped keys, 2 inner ciphertexts |
| `tokens` | no token accepted by its own verifier after its ttl or called expired more than a second early; no confusion of purposes or parties, and none of kinds but `VerifyToken` taking an example's token under an aad they share; nothing accepted again after it expired unless the clock was set back; sessions tolerate the skew limit and no more; accepted webhooks are genuine and fresh, genuine fresh ones are accepted, replays end | 7 ticks of half a second, ttls of -1 to 4 ticks, 2 keys, the 2 purposes `timelock.go:35` names, which are also 2 of the examples' 5 aads, and another use of the keys, 2 secrets, bodies and sessions, 64-bit numbers scaled to 5 bits with timestamps at their ends, one ciphertext or webhook at a time (verifiers keep no state, so two never meet) |
| `audit` | the chain never breaks by itself; what it vouches for was appended, in that order and none of it twice, with entries missing only at the end, or where they were cut before an append; entries without a separator in a field keep their fields | 3 appends, 2 edits, actors and resources of one and two words, 2 times |
| `recipients` | no slice out of range, parts as sealed, formats told apart; a message is read by its owner only | messages up to 28 bytes, all values of all deciding bytes, 2 parties and a key of a wrong length |
| `migration` | every undamaged row reads as what was saved, an AEAD row is authenticated unless its text was replaced by hex of whole blocks, what is read without authentication has exact padding, `OpenAuto` opens just what `Open` or `DecryptCBC` opens, rows the script passed are AEAD | 1 row (rows share only the key), all plaintexts of up to 2 bytes over 4 byte values, blocks of 2, damaged texts of 2 to 12 characters of any alphabet (below, at and above each length limit), all noise, keys of 16 and 32 bytes, 2 AADs, re-runs |
| `login` | only the registered password logs in, short of a chance match with a hash cut to one byte, and it keeps doing so; after any successful login no bcrypt hash is stored | 2 requests at once, 3 passwords with distinct first 72 bytes, 2 parameter sets, hashes cut to 1 and 16 bytes of 32 |

Why the bounds are enough: components are independent per stream, row, user or
ciphertext, so one or two of each meet every pair; chains (frames, rotations,
ticks) are one longer than the longest the properties relate; numeric limits are
scaled so that they are crossed. Where the argument is a proof rather than a
bound, see section 4.

`CHECK_DEADLOCK FALSE` is used where the modelled calls simply return: `Stream`
(both calls over, no faults left), `Recipients` (the opener returned) and
`AuditLog` (the program ends after its appends).

Fairness is assumed in `FairSpec` of `Stream` only: weak fairness of each call's
steps, i.e. the Go scheduler does not starve a goroutine and the reader and
writer answer, with data or an error. The opener's weak fairness is on its loop
alone, since nobody has to call it.

Violation runs, each a disagreement between the code and a statement in the
repository (quoted in `PROJECT.json`, "findings"):

| Run | Shows |
|---|---|
| `stream_source` | a reader's own `io.ErrUnexpectedEOF` is taken for the end of input and the partial stream is marked complete |
| `keyring_shared` | `SetActive` between `Seal`'s two reads tags a ciphertext with the wrong kid |
| `login_long` | `VerifyPasswordBcrypt` accepts an extension of a 72-byte password, and the rehash then stores it |

Other differences met while modelling, visible in the modules but without a run:

* `stream.go:182`: a cut inside a chunk body gives `ErrInvalidCiphertext`
  (`OpenShortBody`), where `stream.go:139` announces `ErrTruncated`.
* `stream.go:129`: after 2^32 chunks nonce and AAD repeat; hence the condition
  `CounterFits` in the stream properties.
* `keyring.go:151`: version 1 ciphertexts open under any key of the ring
  (`OpenV1`), not only the active one as `keyring.go:19` and `:136` say; so
  `OnlyRemoveLoses` speaks of what the ring sealed, format 3, alone.
* `timelock.go:35` and `examples/time_locked_token/main.go:20` use the very aads
  of `examples/magic_link/main.go:23`. Under a shared key `VerifyToken` accepts a
  magic link, an expired one too, since the first 8 bytes of its JSON are a huge
  expiry; `magic_link/main.go:9` says "no replay across-purposes (AAD prevents
  that)". It holds where the aads differ (`NoTokenConfusion`).
* `kms.go:117`: the bound is compared in 64 bits, the slices are cut in 32;
  `EnvelopeOpen` keeps the widths. The run's messages are shorter than the range
  of the length field (4 GiB in the code); for longer ones `NoPanic` fails.
* `password.go:85` says a malformed hash gives `ErrInvalidPasswordHash`; a stored
  `t=0` or `p=0` parses and `argon2.IDKey` panics (`VerifyPassword` in `Login`),
  and one cut short is compared at the length it has left: with one byte, one
  password in 256 matches (`LoginByChance`).
* `examples/audit_log_chain/main.go:4` says that removing or modifying any entry
  breaks the chain; entries removed at the end do not (`VouchedFor` says "a
  beginning"), even when the program then appends after the gap (it says "in this
  order"), nor does text moved between fields that contain `|`.
* `examples/key_rotation/main.go:42`: `MultiKeyReader` reports the last key's
  error, so a message that was tampered with can be answered with
  `ErrInvalidKey` (`OnlyOwnerReads`).
* `auto.go:41`: `ErrUnknownFormat` also stands for tampering, a wrong AAD and a
  wrong key, unlike `errors.go:40`.

## 4. Proofs

Every safety invariant and every action property of the passing runs, and the
refinement, is also a theorem: TLAPS proves it for every value of the constants
that satisfies the assumptions named below. Each rests on an inductive invariant
(`IInv`, unless said otherwise), which TLC also found to hold on the run's instance.

* `StreamProofs`, for any number of streams, keys, faults and any sources:
  * `TypeCorrect`, `OutputInOrder` (`DeliveredInOrder`), `NilMeansComplete`
    (`SuccessMeansComplete`), `NoncesUnique` (`NonceNeverReused`). Each sealer's
    chunks are consecutive pieces of its source with consecutive counters, under
    its own prefix and key, only the last flagged final (`SealerInv`); every body
    in the medium is one some sealer made or one that opens under no key
    (`MediumInv`); and the opener has delivered exactly the first chunks of the
    stream its header names, its counter being their number (`OpenerInv`).
    `DeliveredInOrder` is not inductive by itself: what makes the next chunk the
    right one is the relation between the opener's counter and the counters the
    sealer put in nonce and AAD. The wrap is excluded by `CounterFits`, a
    condition in the properties.
  * `SealedStreamOpens` (`RoundTrip`) and `CutsAreNotAttacks`
    (`CutIsNotTampering`), also across the wrap. `HonestInv` says that each chunk
    was sealed under the counter that follows its predecessor's (`LinkInv`), and,
    as long as files were at most cut, that a file holds its sealer's first
    frames, all of them if it was not cut (`FileInv`), and that the opener is in
    step with the sealer (`InStep`), so that no frame it meets can fail to
    authenticate under the right key.
  * `StreamDelivers`: `Stream` implements `Delivery` if sources are shorter than
    the counter's range (`ShortSources`, which `MCStreamRefinement` checks of the
    run's sources). It needs in addition that every chunk but the last holds at
    least one unit (`SizeInv`), so that a short source cannot have many chunks.
* `KeyRingProofs`: `TypeCorrect` without conditions; `ActiveKeyUsable`,
  `RotationSafe` (`SealedReadable`) and `OnlyRemoval` (`OnlyRemoveLoses`, of format
  3) for callers that keep their calls apart
  (`ASSUME Serialized`), which `keyring_shared` shows to be necessary. The two
  maps agree and hold the active kid (`RingInv`), at most one call is under way
  and its checks still hold (`CallInv`), and a kid that was never removed has the
  key its ciphertexts were sealed under (`CtsInv`).
* `EnvelopeProofs`: `TypeCorrect`, `OpensOnlySealedPairs` (`OpenedAsSealed`),
  `SealedStaysReadable` (`SealedReadable`), `NoKeyOutlivesItsCall` (`KeysWiped`),
  for any number of callers that interleave. A buffer in use holds the plaintext
  of the call's own wrapped key and any other is zero (`CallInv`); a data key is
  in one undamaged wrapped key only (`FreshKeys`), so an inner ciphertext that
  opens under it was returned together with it (`InnersInv`, `CtsInv`).
* `TokensProofs`: `NothingAcceptedLate` (`AcceptedInTime`), `NothingExpiresEarly`
  (`NotExpiredEarly`), `KindsStayApart` (`NoTokenConfusion`),
  `SessionsTolerateSkew` (`SkewTolerated`), `WebhooksAreFresh`
  (`FreshAndGenuine`), `WebhooksAreDelivered` (`DeliveredInTime`), and the action
  properties `ExpiredStaysExpired` (`ExpiryIsFinal`) and `ReplaysStayRefused`
  (`ReplaysEnd`). What was sealed as one kind has that kind's aad and the rounded
  times of its issue (`KindInv`), and what its own verifier found expired, or too old, still is
  unless the clock was set back since (`SeenInv`, `HookInv`). The lemmas under
  them are about rounding down and about the 64-bit conversions. Assumed: expiry
  times fit a signed integer (`(MaxTime + ttl) \div Sec < Half`) and so do
  differences of clock readings (`2 * MaxTime < Half`), as 64 bits of seconds do
  for any clock in use; whatever else is sealed under the keys has an aad that is
  none of the examples'. Purposes of time-locked tokens may be aads of the
  examples, as in the code.
* `AuditLogProofs`: `HonestLogVerifies` (`HonestVerifies`), `VouchesForAppended`
  (`VouchedFor`), `FieldsStay` (`FieldsKept`), for any number of appends and
  edits. Every MAC in the log was issued by `Append` (`Shape`), each chained to
  none or to an earlier one (`ChainInv`); while nothing was appended to a changed
  log, to the one right before (`CleanInv`); an unchanged log is what `Append`
  made (`HonestInv`). That the entries `Sound` counts are in the order of the
  appends is an induction along the chain, done by taking the first entry that
  would break it (`LeastElement`). Assumed: fields are non-empty sequences of words.
* `RecipientsProofs`: `OpenersNeverPanic` (`NoPanic`), `CiphersGetWholeParts`
  (`WholeParts`), `FormatsStayApart` (`PartsRecovered`), `OnlyTheOwnerReads`
  (`OnlyOwnerReads`), for every size of nonce, tag, key and kid, every set of
  parties and every message shorter than the range of the length field
  (`MessagesFit`, which `MCRecipients` checks of the run's messages; 4 GiB,
  beyond which `kms.go:117` wraps). `Whole` describes a
  message nobody touched by the numbers its sealer put in it.
* `MigrationProofs`: `RowsReadBack` (`AutoReads`), `AeadIsAuthentic`
  (`AeadStaysAuthentic`), `PaddingIsExact` (`OnlyPaddedAccepted`),
  `DetectorsAgree` (`DetectionIsExact`) and `ScriptLeavesNoCbc`
  (`ScriptMigrates`), for every table, text, alphabet, length and block size. An
  undamaged row holds what was last saved, in its own format (`RowInv`); the rest
  is lemmas about `Cbc`, where `unpad` undoes `pad` and accepts nothing else, and
  about the lengths of hex and base64url text.
* `LoginProofs`: `LoginsMigrate` (`SuccessMigrates`) without conditions, from
  `MInv`: once a request has found a hash that is not bcrypt's, none is stored
  any more. `OnlyOwnLogsIn` (`OnlyOwnPassword`) and `NobodyIsLockedOut`
  (`PasswordStays`), from `PInv`: every hash, stored or fetched, was made from
  the registered password, damaged or not; a chance match with a hash cut to
  `ChanceLen` bytes is excepted in the property. They assume that no two passwords agree in their first
  72 bytes (`DistinctHeads`), which `login_long` shows to be necessary.

Further assumptions on constants are in the modules and evaluated by TLC:
sentinels differ from real values, and a chunk with its tag fits below the flag
bit of the length field, as 1 GiB (`streamMaxChunkSize`) does below 2^31.

Only model-checked: `CallsReturn`, since liveness under fairness is out of the
prover's reach. The violation runs are counterexamples and have nothing to prove.

## 5. Not modelled

`ed25519.go` and the encodings of `random.go` are calls of the standard library
after a length check, and `Cipher` and the `...WithKey` functions of `cbc.go`
pass their arguments on; the vector generator prints, `doc.go` is a comment, and
the remaining examples make a few calls in a row of what the modules make in
every order. HTTP, scopes of sessions and the salt of `DeriveKey` (no caller
passes one) are left out. Timing (constant-time comparison), memory use and the
strength of the ciphers are outside what a state machine can say.

## 6. Plan

Done: `Stream`, `Delivery` and the refinement, `KeyRing`, `Envelope`, `Tokens`,
`AuditLog`, `Recipients`, `Migration`, `Login` and the modules they are made of,
with their runs; proofs of all their safety and action properties. Left: abstract
specifications of `Envelope` (a map from what `Seal` returned to plaintexts) and
of `KeyRing` (the set of readable ciphertexts) that these modules could be shown
to implement, as `Stream` is, and shorter proofs where lemmas of several modules
say the same.

# TLA+ verification of metamorphic-crypto

TLA+ models of `metamorphic-crypto` (a Rust library of post-quantum hybrid
encryption and signatures, with WASM bindings and a release pipeline), model
checked with TLC and proved about with TLAPS. `PROJECT.json` maps every
definition to the lines it models and lists runs, faulty variants, hazards,
findings and theorems. Paths below are relative to the repository's root.

## The system

The library is **stateless and synchronous**. What persists between calls is
what its callers keep: keys, sealed texts, signatures. So nothing interleaves
inside the library; what is hard is the *protocol of formats* between calls made
years and releases apart — six sealed formats, six signature layouts and a
legacy box with no tag, told apart by one byte and a length — and what callers
may hand in: stale keys, keys of another suite, `None` and `""`, damaged texts,
artifacts put together from others. Two parts are protocols between parties: an
index is looked up obliviously (POPRF) or with a proof (ECVRF) over a network,
and an account's wrapped keys are changed by several devices, each in a thread
of its own (the signing stack). Around the library, the release workflow and the
vendoring script are concurrent, fail half way and are re-run.

| Component | State it lives on | Operations | What makes it correct |
|---|---|---|---|
| seal layer (`src/seal.rs`) | callers' keys and texts | `seal_for_user*`, `unseal_from_user` | what is sealed opens for its holder whatever else is passed, is never sealed in a weaker format than asked, and damaged texts are refused, not tripped over |
| hybrid KEM (`src/hybrid.rs`, `src/suite.rs`) | same | `generate_hybrid_keypair_*`, `hybrid_seal_*`, `hybrid_open*`, `is_hybrid_ciphertext` | tables of generation, sealing, routing and opening agree; labels bind |
| legacy box (`src/box_seal.rs`) | same | `box_seal`, `box_seal_open` | always opens for its owner, though it may look hybrid |
| composite signatures (`src/sign.rs`) | callers' keypairs and signatures | generate, `sign`, `verify`, `derive_public_key`, `signature_posture*` | strict AND of both halves; no cross-suite, cross-level or spliced acceptance; declared posture true |
| release pipeline (`.github/workflows/release.yml`) | runner, crates.io, npm, release page | steps of the job, re-runs | what is out was made as tagged; a stopped release can be completed |
| vendoring script (`scripts/update-wasm.sh`) | project files | download, verify, patch, copy | a finished update is one build's |
| key derivation and wrapping (`src/kdf.rs`, `src/keys.rs`, `src/secretbox.rs`) | an account's stored columns | `derive_session_key`, `encrypt_private_key`, `decrypt_private_key` | the credentials the user knows always open the private key, no others do |
| recovery codes (`src/recovery.rs`) | the code the user holds, the backup | `generate_recovery_key`, `recovery_key_to_secret`, wrap and unwrap | decoding is inverse to encoding, however the code is spelled; a replaced code is void |
| POPRF (`src/poprf.rs`) | the client's `PoprfBlindState`, the server's keys | `poprf_derive_key_pair`, `poprf_blind`, `poprf_blind_evaluate`, `poprf_finalize`, `poprf_evaluate` | a lookup gets the unblinded function's value at its own question or nothing; both sides refuse alike; blinding hides |
| ECVRF (`src/vrf.rs`, `src/vrf_p256.rs`) | the prover's keys | `ecvrf_prove`, `ecvrf_verify`, `ecvrf_proof_to_hash` and their P-256 forms | what is proved verifies; one output per label and key; no point of small order |
| signing stack (`src/stack.rs`) | one worker thread per call | `on_signing_stack` | the caller gets its closure's value or panic, and never hangs |
| raw Ed25519, ML-DSA-44, hashes, HMAC, HKDF, base64, WASM, errors | none | wrappers | length checks and argument parsing |

How they interact: `seal` calls `hybrid` or `box_seal`; `hybrid` calls `suite`
(envelope) and `ecc`; `sign` keeps formats of its own and shares only the `Suite`
type; `keys` and `recovery` wrap with `secretbox`, under what `kdf` derives or a code
decodes to; `poprf` and the VRFs share nothing but what an application does with
them, which is to derive the indices of a directory; `wasm` wraps all of them; the pipeline publishes the WASM build of the
crate, which the script fetches from the release page the pipeline fills. The
hazards of each part, with the line each bites at and the properties that cover
it, are in `PROJECT.json`.

## Modules

| Module | Models | |
|---|---|---|
| `KemFormats` | constants and dispatches of `hybrid.rs`, `suite.rs` | real byte lengths |
| `Seal` | `seal.rs` over `hybrid.rs` and `box_seal.rs` | one action per API call |
| `Mailbox` | — | abstract: what is posted to a user is read by that user |
| `SealProofs` | — | theorems about `Seal` |
| `Framing` | `frame()` | byte sequences |
| `SigFormats` | constants, dispatch and posture tables of `sign.rs` | real byte lengths |
| `Sign` | `sign.rs` | one action per call that leaves something behind |
| `Attestation` | — | abstract: accepted only if every key named attested it |
| `SignProofs` | — | theorems about `Sign` |
| `Release` | `release.yml` | per-tag run, registries, release page, faults |
| `UpdateWasm` | `update-wasm.sh` composed with `Release` | download, check and copy loops |
| `ReleaseProofs` | — | theorems about both |
| `Groups` | the curve libraries `poprf.rs`, `vrf.rs`, `vrf_p256.rs` call | laws as assumptions |
| `Poprf` | `poprf.rs` | one operator per call, every error |
| `Ecvrf` | `vrf.rs`, `vrf_p256.rs` | one operator per call, the suite as argument |
| `IndexDerivation` | clients and server calling both | keys, open lookups, replies on the wire |
| `KeyedFunction` | — | abstract: an answer is the function's value at the question |
| `GroupLemmas`, `PrfLemmas`, `IndexProofs` | — | theorems about the four above |
| `RecoveryCode` | `recovery.rs`: digits, groups, decoding | exact arithmetic |
| `KeyVault` | `kdf.rs`, `keys.rs`, `secretbox.rs`, wrapping in `recovery.rs`, `parse_salt_from_key_hash` | one operator per call, every error |
| `SigningStack` | `stack.rs` | one action per thing a thread does |
| `Account` | an account changed by several devices with `KeyVault` on `SigningStack` | |
| `InlineCall` | — | abstract: a call ends with a value of its closure or with a panic |
| `AccountProofs` | — | theorems about `Account` |
| `SequenceLemmas` | — | cancellation of concatenations, for `SignProofs` and `IndexProofs` |
| `MCIndex`, `MCAccount`, `MCSeal`, `MCSign`, `MCRelease`, `MCUpdateWasm` | — | values of the constants for TLC |

Definitions labelled *Faulty variant* are what a definition would be with a
plausible bug in it. No action uses them; each run's properties have been seen
to fail with one of them in place of the definition it varies
(`PROJECT.json`, "mutants").

### Seal

`ring[u]` are the KEM keys user `u` generated, old ones included, `wire` the
sealed texts in storage, `learned[u]` what `u` obtained by opening, `made` a
counter of keys. A key is `[owner, form, gen]` for both halves. A text keeps the
bytes the code looks at (first byte, length), what encryption bound (scheme,
recipient, label, plaintext) and whether it is intact. The operators between
"Openers" and "Calls" are the code's functions — same checks, same order, same
error — and the actions apply them to any arguments: every public key known,
the caller's own secret keys or something that is no key, every request, every
label. A call that fails changes nothing.

What follows an opener's checks is `Parsed`: it slices the text at the format's own offsets
(`HeaderLen`) and makes an array of the seed, and answers `"Panic"` when one is too
short for that. The minimum lengths of `hybrid.rs` are constants of their own (`MinLen`), shared
by router and opener; `OpenersNeverPanic` is that they cover the slices for every
text storage can give back — cut, or with its first byte changed, so that another
format's opener gets it — and that `box_seal_open`'s do where the fallback takes over.

Abstractions. Encryption is ideal: an AEAD opens for the key, domain and bytes
it was sealed with; that nobody else opens a text is that assumption and no property. `"Rejected"` stands for `Decryption` and for the
malformed-point errors of the matched openers, between which nothing in the
layer distinguishes. Damage changes bytes at random; it does not turn a text
into another valid one. A box's first byte is arbitrary (it is that of a fresh
ephemeral key). Each user has one X25519 key (`gen = 0`); KEM keys rotate.

### Sign

`pairs` are the keypairs generated, `sigs` the signatures stored, `signed` and
`accepted` history: what each component key signed, and what `verify` said yes
to. An artifact is its tag, its length and its parts. `SecretArgs`, `PublicArgs`
and `SigArgs` are what calls are made with: stored artifacts, a byte short or
long, under another tag, put together from the parts of two, with the classical
part dropped, empty, or no base64. A half verifies under the key that made it
over the bytes it was made over; the 8-byte length prefix of `frame` is one
element of the sequence. Calls that only return a value (`derive_public_key`,
the posture calls) are operators; no state changes by calling them. The lengths of
secret keys are written out three times, as in the code: what key generation assembles
(`SecretKeyLen`), what the parsers of `sign` ask (`SigningKeyLen`) and what those of
`derive_public_key` do (`DerivingKeyLen`); `SignMatchesDerive` is that they agree.

### Release and UpdateWasm

`step[t]` is where the run of tag `t` is, `pkg[t]` its build; `crates`, `npm` and
`assets` are what the public sees. Every step may fail; a registry may take an
upload and lose the answer; npm may forbid a publish; a finished run may be
re-run. `faults` counts these and is bounded. Files are named by the build they
come from: no two builds are alike (the SBOM has a timestamp), and where two
builds' bytes do agree a mixture of them is as good as either. The quality
gates are one step, and so is everything from `wasm-pack` to the attestation:
until npm nothing of it leaves the runner (signing and attesting record digests
elsewhere; they are not modelled). The two cosign bundles are uploaded like the
other files and are left out. How the registries, `action-gh-release` and
re-runs behave is modelled from how the workflow uses them.

In `UpdateWasm` the script runs beside the pipeline, reading `assets` one file
at a time; it may be interrupted anywhere, in the middle of a copy included.

### Poprf, Ecvrf and IndexDerivation

`Poprf` and `Ecvrf` are the two algorithms as operators: same checks in the same
order, same error (`InvalidLength`, `Poprf`, `Vrf`), `None` as an empty value. A secret is
its scalar; for edwards25519 that is the one 32 bytes are hashed and clamped to, so none is
refused there. They are written over the operators of `Groups`, of which only laws are assumed: scalars
form a field, points a group, scalar multiplication behaves like exponents on
points of prime order, and clearing the cofactor maps into those and loses
nothing there. ristretto255 and P-256 are the points of prime order; edwards25519
also has points with a component of small order, on which `Act` is not assumed
to be a homomorphism. Hashes are ideal. Where one is used as a scalar or point it is
a constant operator (`HashToGroup`, `InfoScalar`, `ChallengeScalar`, `Candidate`,
`Nonce`, `SeedScalar`), so every table of values is an instance, collisions included;
a *challenge* in a proof is the transcript it was hashed from, so that equal
challenges are equal transcripts; the final output of the POPRF is its framed
input, a VRF's the suite and the cleared Gamma. `Weight` is never zero (a 2^-252
event would let any statement pass). A point's 32 bytes are one element of a
sequence, a byte of a string another. Lengths are framed modulo `LenModulus`,
2^16 in the code, so the two-byte wrap is in the model; the runs' strings are shorter.

`IndexDerivation` composes them as a key-transparency directory does. `keys` are the
server's secrets, old ones included; `asked[l]` the question of lookup `l` with the
`PoprfBlindState` the client keeps; `wire` the replies, which may be delivered to any
lookup of the suite, any number of times or never; `found[l]` its index. The server may
take a request for any of its keys and any info. `Garble` changes a reply's point or
response, or wipes both halves of its proof; it does not hit upon the hash of
another transcript. So challenges are made by `poprf_blind_evaluate` and the provers
only: mix-ups and damage are modelled, the hardness of forging a proof is
not, except that `OneIndexPerLabel` considers, for every public key of a secret (those with a
component of small order included, each salting the hash to the curve with its own
bytes), every Gamma for which two challenges can be answered. What the client computes from a reply (`Checked`) is `poprf_finalize` with what it
kept, or `verify`.

### KeyVault, RecoveryCode, SigningStack and Account

`RecoveryCode` is exact: bytes, 5-bit digits that overlap in two bits, groups of
five, upper case, stripping of hyphens and the `|` of line 71 bit by bit. A
character is its digit, the small letter of a digit, a hyphen, one of `Specials` or `Foreign`.
Upper case is Unicode's (`str::to_uppercase`), and comes before the length check: long s,
sharp s and the ligatures ff, fl, ffl and st (`Specials`) turn into one, two or three letters of the
alphabet, and no other character outside ASCII into letters of the alphabet only. So they are read,
and a code with one of them may be shorter than 64 characters. `Foreign` is any
character whose upper case leaves the alphabet, at whatever length. `KeyVault` has the calls with their
errors: text that is no base64, decoded bytes of a wrong length, a box too short, a
wrong key. Encryption and Argon2id are ideal; nonces are left out.

`Account` is how an application uses them: `stored` are the account's columns (key
hash, wrapped private key, backup), `password` and `code` what the user knows,
`salts` those drawn. A device reads the columns and what the user types, makes a
closure of it — change the password, replace the code, recover with the code — and
calls `on_signing_stack`; it stores the columns that come back in one statement,
though another device may have stored others meanwhile. The library leaves
columns and closures to its callers (those actions are marked external); what is
checked is that its calls compose to something safe under that use. `SigningStack` has `phase`,
`task` and `outcome` per caller; a spawn may be refused, a closure may panic for lack
of randomness, which is where `random_bytes` panics.

## Runs

| Run | Config | Question | Distinct states |
|---|---|---|---|
| `seal_formats` | `MCSealFormats` | do the formats hold at every boundary, with two users' and old keys? does `Seal` implement `Mailbox`? | 24473 |
| `seal_doc` | `MCSealDoc` | *violation*: documentation of `unseal_from_user` | |
| `sign_suites` | `MCSignSuites` | all suites and levels, all retaggings | 1182 |
| `sign_attest` | `MCSignAttest` | two keypairs, two signatures, shared ML-DSA-87 halves: do halves ever mix, does `Sign` implement `Attestation`? | 2841 |
| `sign_panic` | `MCSignPanic` | *violation*: `verify` always answers | |
| `sign_length` | `MCSignLength` | *violation*: `InvalidLength.got` is the actual length | |
| `release_tags` | `MCReleaseTags` | two tags, one not bumped, three faults: is what is out as tagged, is a finished page one build and npm not ahead of it, does a stopped release complete, each faultless step bringing it nearer? | 21606 |
| `release_npm` | `MCReleaseNpm` | *violation*: only "already published" lets a run go on | |
| `update_race` | `MCUpdateRace` | a project updating, and updating again, while the release page is filled and refilled; two faults | 97581 |
| `index` | `MCIndex` | two lookups, two keys, two replies that arrive anyhow: do answers fit questions, do both sides refuse alike, does `IndexDerivation` implement `KeyedFunction`? | 101752 |
| `index_panic` | `MCIndexPanic` | *violation*: a wiped proof is answered `None` | |
| `account` | `MCAccount` | two devices, three changes each way, panics and refused spawns: do the current credentials open, does a call look inline and return? | 183456 |

Bounds, and why they are enough:

* `Seal`: the invariants speak of one text and the keys passed to one call, so
  one stored text (`MaxWire = 1`) reaches every case of the formats; two keys give
  a user with an old and a new one, and two users with one each. `empty` meets every
  minimum exactly and `bulk` makes a box longer than every minimum; `EphBytes`
  holds a tag of each family (`combineKEMS`, pure, matched) and a byte that is none;
  `CutLens` cuts to one byte below the shortest box, below the shortest and the
  longest hybrid minimum and below what the Cat-1 opener slices off, and to nothing.
* `Sign`: the contexts and messages make `<<1>>, <<2,3>>` and `<<1,2>>, <<3>>`
  equal when joined without a length. Two signatures are enough to splice;
  `sign_attest` uses the three Cat-5 layouts, which share ML-DSA-87, so every splice that could pass a length check exists.
* `Release`: three faults are a failure, a lost answer and a denial, in any
  order, at any step. `UpdateWasm`: one tag and two faults: a failed upload whose
  re-run refills a page that is being read, and an interruption of the script, or two
  of one kind. Several builds of the tag are what gets mixed; with a second tag the
  liveness check takes ten times the states, and the three safety properties are proved
  for every set of tags.
* `IndexDerivation`: the group is the integers modulo 10, so scalars are modulo 5,
  the prime subgroup has five points and the cofactor is two. The tables hold what a
  real hash does once in 2^252: an input at the identity, an info that cancels a
  key (`t = 0`), a seed whose first scalar is zero, candidates that do not decode or
  have small order, a label without candidate. The strings are equal when joined
  without lengths, and `LenModulus = 4` is above their lengths, as 2^16 is above a
  label's: `IndicesApart` assumes it, and says nothing of inputs of 65536 bytes and more,
  whose length `push_len16` wraps and no caller checks. Two replies and two lookups are needed to swap answers. One blinding scalar is
  enough: different inputs still blind to different elements, and `BlindingHides` speaks of all.
* `Account`: three salts allow two changes of the wrapped key after registration,
  by one device or one by each; two codes a replacement and a return. Secrets have
  three bytes, which makes two groups, at both ends of the byte range and with all
  overlapping bits set; one of the codes is `JFFSSC`, whose letters long s, sharp s and
  a ligature stand for; the encoding itself is checked for all bytes and digit pairs.
* `CHECK_DEADLOCK FALSE` everywhere: the bounded models stop when their bounds
  are used up, a project with no tag pushed has nothing to do, and no lookup or
  change is ever owed.

Symmetry is used over users in `seal_formats` and over lookups in `index`, where
nothing distinguishes them and no liveness is checked.

Fairness. `Seal`, `Sign` and `IndexDerivation` have none: no call and no reply is ever
owed. `Account` assumes weak fairness of each thread's steps: the operating system
spawns, refuses and joins (`OnStack`), and a closure, which has no loop without
bound, ends and lets its thread exit (`Exit`). `Release` and
`UpdateWasm` assume weak fairness of the steps of a run (GitHub carries a job to its
end), of `Rerun` (somebody resumes a failed release, as the workflow's comments
expect), of the script's steps (a shell) and of `Retry` (who saw the script fail
runs it again), and faults are finitely many. Nothing makes anyone push a tag,
start an update or re-run a finished release.

## Findings

1. `unseal_from_user` opens 0x10, 0x13 and 0x14 as hybrid; its documentation sends
   every tag but 0x01–0x03 to the legacy opener (`src/seal.rs:77`; `is_hybrid_ciphertext`'s has
   the same three, `src/hybrid.rs:360-362`). The code is
   right and the documentation out of date (run `seal_doc`).
2. `verify` panics on a public key that decodes to no bytes when the signature has
   a CNSA-2.0 tag (`src/sign.rs:1030`), where its documentation has it answer
   (run `sign_panic`).
3. `sign` and `derive_public_key` report `got: 0` for a secret key of a wrong length,
   since the buffer is wiped, and so emptied, first (`src/sign.rs:646`, `:701`; run
   `sign_length`).
4. The npm step reads any 403 as "already published" (`.github/workflows/release.yml:204`),
   so a forbidden publish leaves a green release that npm does not have (run
   `release_npm`).

5. `ecvrf_p256_verify` panics on a proof with a valid Gamma whose challenge and
   response are zero: the recomputed commitment is the identity, whose encoding has
   one byte and not 33 (`src/vrf_p256.rs:119`, which says it never arises), where
   the documentation has it answer `Ok(None)` (run `index_panic`). The edwards25519
   twin encodes the identity and answers.

Observed and not a disagreement a run can show: `poprf_finalize` hashes the `info` and
`input` it is given, which the proof does not cover; that a wrong `info` leads to
`None` is so because the tweaked key is made from it, when the caller passes the
state it kept (`IndexDerivation` does). `ecvrf_verify`'s comment names mixed-order keys,
its check rejects small-order ones only; `OneIndexPerLabel` shows that each key still
has one output per label. `InvalidRecoveryKey` is documented as what a character outside
the alphabet gives (`src/error.rs:33`) and a code as having 64 characters (`src/recovery.rs:19`):
ß, ſ and four ligatures are accepted for the letters of their upper case, and a code of
63 characters can open a backup. `release.yml:12` says the concurrency group keeps two tag
pushes from racing; the group is per ref, so two tags do run side by side (run `release_tags`). After a resumed release npm
may hold an earlier build than the release page; `DonePageIsLatest` shows it is never a
later one.

## Proofs

All by `tlapm` (SMT, Zenon, and PTL for the last, temporal step), for every value of
the constants that satisfies the modules' assumptions. `ConstantsAssumption`,
`SignAssumption`, `ReleaseAssumption`, `SecretAssumption`, `AccountAssumption` and
`IndexAssumption` only type the constants and keep sentinel values apart; `ScalarLaws`, `PointLaws`,
`PrimeLaws` and `CofactorLaws` are the group laws, `HashAssumption` and `VrfAssumption` the types
of the ideal hashes and that a weight and a nonce are not zero. TLC evaluates
them all on the runs' instances.

**`SealProofs`.** The invariant is `SealInv`: `TypeOK` and `SealedWell`. `TypeOK`
carries what would otherwise be lost, that a ring holds KEM keys under their
owner's name; `SealedWell` says what an undamaged text looks like: its own tag,
its overhead plus its plaintext, a recipient key of its own scheme. It is
inductive because every sealer checks the public key's length and those lengths
are pairwise different (`PkLenInjective`). From it follow, each by a lemma about the
openers: `LegacyAvailability`, `HybridAvailability`, `NeverPanics`, `LabelBinding`,
`RoutingLockstep`, `NoDowngrade` and `KeyFits` (with `TagInjective`,
`MinLenIsOverhead` and `DispatchesAgree`: a text is routed to the opener of its
own scheme, passes that opener's gate, and the two dispatches name one scheme; and
`GateCoversHeader`, `ParsedBehindGates`: behind its gate no opener slices too far).
`Refinement` proves the step simulation to `Mailbox`: a seal posts, an open reads, all
else stutters.

**`SignProofs`.** `SignInv` is `TypeOK` and `SigsWellSigned`. `FrameInjective` (equal
frames have equal contexts and messages, since the first element fixes where the
context ends) turns "the half was made over the same bytes" into "the key signed
the same statement", which gives `BothHalvesRequired`; `LengthTablesAgree` and
`SigTagInjective` give `PostureReliable`; `KeyLensAgree` (keygen, `sign` and `derive_public_key`
write, ask and ask the same lengths) gives `SignFitsDerive`; `SignImplements` follows.

**`ReleaseProofs`.** `ReleaseInv` adds to `PublishedAsTagged` that a run past the guard
is on a commit whose `Cargo.toml` agrees with its tag, that past the crates.io step
the crate is out, and that `pkg` is of the run's own tag. `ScriptInv` says what the
loops have established so far: files fetched are there and of the tag wanted;
what is being copied is one build (the checksums), and the first `n` copies are
in place. Hence `UpdateIsWhole` and `VersionIsLast`, with any number of faults.
`NumbersInv` adds the order in which builds were made: npm is never ahead of the build a
run holds from its build step on, since only a run past the guard publishes, and only
under its own tag (`DonePageIsNewest`). `RunsComeToAnEnd` is the safety half of
`ResumedReleaseCompletes`: `ToGo`, nine times the steps ahead of a run plus the uploads
its page needs, drops with every faultless change of the run, so a run fails by a
fault or ends within 62 changes; with the fairness of `Advance` and `Rerun` and finitely many
faults it must end. That last inference, and that some `Advance` is always possible, stay with TLC.
`ReleaseTypeCorrect` is a part of `ReleaseInv`; `UpdateTypeCorrect` also needs
`ProjectInv`, the types of the files vendored into the project.

**`GroupLemmas`, `PrfLemmas`.** What the laws give: cancellation, that inverses undo,
that discrete logarithms are unique, that two answers to one commitment force
the point (`ForcedLog`). From these `PoprfCompletes` and `VrfCompletes` (an honest proof
verifies and the outputs agree), `PoprfIsSound` and `VrfIsSound` (what verifies with the
challenge of a true statement has the function's value), and `OneVrfIndex`.

**`IndexProofs`.** `IndexInv` adds to `TypeOK` that every challenge on the wire was hashed
from a true statement, whatever became of the reply around it
(`TrueStatement`); that the blinding state a client keeps was made for its own question, which
has an index; and that an answered lookup has that index. It is inductive
because the transcript names the key it is about, and the tweaked key in the
state is that of the question's key and info: a reply under another key or info, to
another request or with another point has another transcript. `IndexImplementsFunction`
is then the step simulation to `KeyedFunction`; `IndicesAlwaysApart` needs that framed
concatenations are one-to-one below `LenModulus` (`SequenceLemmas`); `RefuseAlikeAlways`
that `t*B` is the identity if and only if `t = 0`. All properties of run `index` are proved,
for every group with the laws and any number of lookups, keys and replies.

**`AccountProofs`.** `AccountInv` says that the stored columns are those made at once for
some drawn salt and some drawn secret: the wrapped key is a box of the private
key under the session key of the current password and that salt, the code the user
holds is the one encoded from that secret, and the backup is a box under its bytes; and that a call that
has ended did so with a result of its own closure, made of a fresh salt or
secret and the columns and credentials it was given, or with a panic. `PasswordAlwaysOpens` follows from it; freshness of salts
is not needed for it, since `Store` writes key hash and wrapped key together.
`StackImplementsInline` is the simulation to `InlineCall`: all between spawn and join is one
running call. `CodesAlwaysRoundTrip` is arithmetic on the parts of a byte below, in and above the overlap
(`OverlapKept`) and on the places of the digits between the hyphens (`DigitPlace`).

`CodeAlwaysOpens` (all spellings of a code are read alike, `SpellingsRead`, and the
backup opens for the current one alone) needs what decoding does to everything a user may type. `Stripped` is
therefore defined by positions — the n-th character kept is the one with n kept
characters up to and including it — and not by a recursive filter. `StrippedAt` says that any
increasing enumeration of the kept places gives the stripped string; from it
follow that grouping is undone (`GroupsStripped`), that neither case nor hyphens matter
(`BareStripped`, `SpellingRead`: whatever stands for the digits of a secret is read as
that secret, for secrets of every length), and that a code one digit short or long, or with a
character whose upper case is no digit, is refused (`TailStripped`, `AppendStripped`,
`OtherLengthRefused`, `MistypedRefused`). The upper case of a text is laid out the same
way, character after character (`UppercasedAt`), since one character may become two
digits: a text of plain characters keeps its length (`PlainUppercased`), and one with a
ligature for two digits is one shorter and reads as the same code
(`SplicedUppercased`). That code
and backup always belong together is the part of `AccountInv` that makes it
inductive: a device that read the columns before another replaced the code
stores a code and a backup of one call, never one of each. TLC checked the strengthened
invariant on the run's states before it was proved.

Every invariant and every action property of a passing run, and every refinement, is thus a theorem. Only
model-checked are the three liveness properties, `ResumedReleaseCompletes`, `UpdateLands`
and `CallsReturn`: weak fairness is stated with ENABLED, which the prover does not reason about.

## Not modelled

Cryptographic strength; constant time; zeroization, except where it changes a
result; randomness quality; the bytes of base64. `ecc` appears only as part of
ideal decapsulation. `hash`, `mac` and `hkdf` are functions of the libraries they
wrap, `ed25519` and `mldsa` length checks before a library call; `wasm` parses
arguments for the calls above. CI keeps no state.

## Plan

Done: (1) the KEM formats, the seal layer and its abstract mailbox; (2) composite
signatures and attestation; (3) the release pipeline and the vendoring script;
(4) wrapped keys and recovery codes in an account, on the signing stack; (5) POPRF
and ECVRF in a directory of indices; (6) theorems for every invariant, action property and refinement of the runs. Left, in this
order: the raw signature wrappers, and `hkdf`'s output limit; the panics of WASM bindings as outcomes of
the calls they wrap.

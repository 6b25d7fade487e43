# knee-tie in TLA+

A verification development kept beside `knee-tie-crypto`
(`crates/knee-tie-crypto` of the knee-tie repository): TLA+ models of its group
signature scheme DGMT with the Merkle trees and one-time signatures under it, of
its epoch keys and of its Elligator-K1 handshake; TLC configurations that check
them on small instances; and TLAPS proofs of the properties that matter most,
for all parameters.

Paths below are relative to `crates/knee-tie-crypto/src/` unless they start at
the root of the repository.

## 1. Inventory

knee-tie is a library. It starts no thread and opens no connection: a program
(manager, member, verifier) owns the state and passes it to the functions. What
makes it hard is therefore not locking but long sequences of legal calls on
state that several actors hold copies of, a randomised search with an attempt
budget that fails half-way, two loops that must walk the same order with
different code, and index arithmetic at its boundaries.

| component | state | operations | interacts with |
|---|---|---|---|
| DGMT parameters (`dgmt/params.rs`) | `DgmtParams` | `new`, `alpha`, `num_fallback_nodes`, `fallback_node_depth` | all of DGMT |
| Key generation (`dgmt/keygen.rs`) | `DgmtSecretKey`, `DgmtPublicParams` (`gpk`, `fk`, `rl`, `pub_seed`, IMT) | `dgmt_keygen`, `build_public_params`, `compute_shuffle`, `compute_dgmt_pos`, `is_revoked` | trees, WOTS, SPRP |
| Manager (`dgmt/join.rs`, `dgmt/revoke.rs`) | the private list PLM of `MemberRecord`s: `status`, `index_state`; `rl` | `dgmt_join`, `dgmt_key_dist`, `dgmt_revoke`, `revocation_entry_count` | writes `rl`, hands `SigningKey`s to members |
| Group (`dgmt/sign.rs`, `verify.rs`, `open.rs`) | a member's unused keys; a verifier's copy of the public parameters | `dgmt_sign`, `dgmt_verify`, `dgmt_open`, `verify_open_consistency` | reads `rl`; opens tags of signatures |
| Merkle trees (`merkle.rs`) | node array | `build`, `auth_path`, `compute_root` | SMT(1), SMT(2), IMT |
| WOTS (`wots.rs`) | none | `wots_keygen`, `wots_sign`, `wots_pk_from_sig` | leaves of SMT(1), SMT(2) |
| SPRP (`utils/sprp.rs`) | none | `sprp_eval`, `sprp_inv` | fallback keys, position tags |
| Epochs (`epoch/*.rs`) | `EpochHistory`, `MemberEpochKeyRing` | `rotate`, `grant_epochs`, `grant_single_epoch`, `absorb_grant`, `absorb_single`, `encrypt_content`, `decrypt_content` | called after a join and after a revocation; seals over the handshake |
| Elligator-K1 handshake (`elligator/*.rs`) | none | field and Kummer line arithmetic, `encode`/`decode`, `generate_keypair`, `dh_initiate`, `dh_complete` | `epoch/seal.rs` |
| Identity (`identity/*.rs`) | sealed key on the caller's disk | Ed25519 pseudonyms, Argon2id + AEAD seal | none |
| Hash and AEAD wrappers (`utils/hash.rs`, `utils/aead.rs`) | none | PRF, hash, encrypt, decrypt | everything |

What makes each correct:

- **Manager.** A WOTS leaf key is built at most once, over all members, calls
  and failures. A revocation lists every key its member ever received and no key
  of anybody else. A revoked member gets no key. Each member keeps one leaf of
  every SMT(2). `dgmt_key_dist` returns, with `b` new keys or with an error.
- **Group.** The verdict on a signature depends on the revocation list and the
  signer only; a verifier with an old list never rejects an active member, and a
  rejection is never taken back; an opening names the signer.
- **The chain of a signature.** What `dgmt_sign` makes verifies, in every tree;
  what verifies was made by one member for that message, in one piece; the table
  of fallback keys is written and read at the same index; an SMT(1) key, shared
  by several members, signs one root.
- **Trees, WOTS, SPRP.** A path recomputes the root for each leaf and inner
  node; signing and recovery meet at the public key; inversion inverts.
- **Epochs.** A member reads the posts its grants cover and no others; a member
  revoked before a rotation does not read what is posted after it.
- **Handshake.** Both sides derive the same secret, and each failure of the map
  is reported and not turned into a wrong key.

The hazards of the code, each at its line with the property that covers it or
the reason why none does yet, are listed in `PROJECT.json`.

## 2. Plan

| order | module | what | state |
|---|---|---|---|
| 1 | `DgmtParams`, `DgmtParams_proofs` | index sets, order, intervals, shuffle | written, proved |
| 2 | `Manager`, `Manager_proofs` | PLM and RL under all manager calls | written, checked, proved |
| 3 | `RevokeWalk`, `RevokeWalk_proofs` | the two loops, iteration by iteration; the walk lists the interval and comes closer to the pointer | written, checked, proved |
| 4 | `Group`, `Manager_proofs` | Manager composed with signers and verifiers; verdicts and openings | written, checked, proved |
| 5 | `OneTimeKeys` | abstract promise: each leaf has at most one owner, a set of banned owners; `ManagerRefinement`: `Manager` implements it | written, checked, proved |
| 6 | `Community`, `Manager_proofs` | epochs, grants in flight and rings, composed with membership | written, checked, proved |
| 7 | `MerkleTree`, `MerkleTree_proofs` | building a tree, paths of leaves and inner nodes, verification | written, checked, proved |
| 8 | `Wots`, `Wots_proofs` | base-w digits, checksum, chains | written, checked, proved |
| 9 | `KummerLine`, `KummerLine_proofs` | field, curve and map over any prime P with P % 8 = 5: roots, map, group law, multiples | written, checked, proved |
| 10 | `Sprp`, `SignatureChain`, `SignatureChain_proofs` | Feistel inversion; key generation, signing and verification link by link, for whatever arrives | written, checked, proved |
| 11 | u32 products | `fk_idx` and the shifts in `SignatureChain`, `b * num_fn * 2` in `Manager`, both modulo a constant `Word` | written, checked, proved |
| 12 | `Handshake`, `Handshake_proofs` | the exchange: public values, errors, agreement | written, checked, proved |

`Group` and `Community` each extend `Manager`, which extends `DgmtParams`;
`ManagerRefinement` extends `Manager` with the mapping to `OneTimeKeys`;
`RevokeWalk` extends `DgmtParams`, `SignatureChain` extends it and `Sprp`;
`Handshake` extends `KummerLine`. Every module is parameterised by CONSTANTS under named
assumptions and declares no RECURSIVE operator, so that it can be proved about.

## 3. Modules and how they correspond to the code

### DgmtParams

The constants are the quantities of `DgmtParams`: `NumFn` = 2^(hI+1) - 2
fallback nodes (2 stands for hI = 1), `Gamma`, `Alpha` = 2^hS, `Beta`, `NMax`,
and `SortVal`, the PRF values `compute_shuffle` sorts. `ParamsAssumption` is
what `DgmtParams::new` accepts, without the bounds on hI and hS, and without
gamma = 0, which `new` accepts too but for which no signature verifies. SortVal
is *any* function to the naturals: collisions of the 32-byte values included,
the proofs assume nothing about the PRF.

`Exhausted` and `Advance` are the four branches of the pointer move in
`dgmt_key_dist`; `Precedes` is the order the two loops walk. A position tag
`DGMT.pos` is the image of i||j||k||l under a permutation, so that 4-tuple
stands for it: equality of tags is equality of tuples.

### Manager

| variable | code |
|---|---|
| `next_id` | the id the caller passes to `dgmt_join` |
| `status`, `index_state` | the fields of `MemberRecord` |
| `call` | the locals of a running `dgmt_key_dist`: `b`, `attempts`, `allocated`, `keys` |
| `wallet` | the keys a call returned to the member |
| `rl` | `DgmtPublicParams.rl`, as a set (the code pushes a tag only if absent) |
| `issued_to` | history: for which members each leaf key was built |

| action | code |
|---|---|
| `Join` | `dgmt_join`, with its check that the group is not full; the error path changes nothing |
| `KeyDistBegin` | `dgmt_key_dist` up to its loop; a revoked member's call returns at once |
| `KeyDistAllocate` | an iteration whose random node has a key left: pointer, shuffle, tag, key |
| `KeyDistMiss` | an iteration whose random node is exhausted |
| `KeyDistGiveUp` | `attempts > max_attempts`: `NoKeysRemaining`; the advanced pointers stay |
| `KeyDistReturn` | the loop ends with `b` keys |
| `Revoke` | `dgmt_revoke` for any set of ids, unknown and already revoked ids included |
| `OpenTag` | the arithmetic of `dgmt_open` |

The budget of attempts is taken modulo `Word`, the width of u32: a build with
overflow checks panics before the call has changed anything, which is as if it
had not begun; other builds go on with the wrapped budget.

*Interleaving.* `dgmt_key_dist` borrows one `MemberRecord` mutably and the
secret key and public parameters immutably: calls for different members may run
on different threads, and their iterations interleave here. `dgmt_revoke`
borrows the record list and the public parameters mutably: it runs when no
`dgmt_key_dist` does and is one step. Its loop is the subject of `RevokeWalk`.
There is one PLM; a program that calls `dgmt_revoke` on stale clones of the
records, as one integration test does, is outside the model.

### OneTimeKeys and ManagerRefinement

`OneTimeKeys` is the manager without trees, pointers, shuffles and tags: leaf
keys with an owner, banned members, and keys that are turned down. It has two
steps. `HandOut` gives a key nobody ever owned to a member that is not banned;
`Ban` bans members and turns down, in the same step, every key they own and no
other. `ManagerRefinement` maps `issued_to` to the owners, the revoked records
to the banned members, and a key to "turned down" when the tag of its leaf, the
preimage of l' under the shuffle, is in `rl`. The promise, as the property
`HandsOutOneTimeKeys`, says more than the invariants: that no other step changes
any of the three, that a key built by a call that then failed keeps its owner
and is turned down with the others, and that a revocation is complete at once.

### RevokeWalk

One member under one fallback node: `Allocate` moves the pointer as
`dgmt_key_dist` does, `StartWalk` and `WalkStep` are `dgmt_revoke`'s loop with
its own advance code (`WalkAdvance`, whose branch conditions differ from those
of `Advance`) and its "should not happen" branch (`WalkIsStuck`). It connects
the code to the one-step `WalkedTags` of `Manager` (`WalkListsInterval`).

### Group

Adds signatures in circulation and, per verifier, the copy of `rl` it downloaded
last. `Sign` respects the obligation `dgmt_sign` documents, that the caller
marks a key as used. `Verifies` is the verdict of `dgmt_verify` for a signature
made by `dgmt_sign`: the list lookup, the range check of the fallback key, and
the hash chain to `gpk`, abstracted to the question whether the tag is the one
that was hashed into the leaf. `OpenConsistent` is `verify_open_consistency`.

### Sprp and SignatureChain

`Sprp` has the two Feistel rounds and their inverse over pairs of halves; AES is
any function of a key half and a block, xor a function that undoes itself.

`SignatureChain` follows a signature from the message to the group public key.

| variable | code |
|---|---|
| `loop`, `fk`, `rl` | the indices of the two loops of `build_public_params`, `DgmtPublicParams.fk` and `.rl` |
| `sigs` | signatures that members made |
| `sig`, `message`, `r_ij`, `verdict` | arguments, a local and the answer of one `dgmt_verify` |

| action | code |
|---|---|
| `SetupStep` | one turn of the inner loop: `fk[(i-1) * gamma + (j-1)]` = g1(r_ij, Fn_i), index modulo `Word` |
| `Sign` | `build_signing_key` for a leaf that was handed out (`BuildSigningKey`), then `dgmt_sign` (`DgmtSign`), one signature per key |
| `Revoke` | a tag enters `rl` |
| `DgmtVerify` | `dgmt_verify`: the roots it recomputes (`RootIj`) and its checks in their order (`Verdict`) |

Keys and hashes are named by their place: a one-time signature names its key and
the value it was made for, and recovers that key from that value and nothing
known from another (the results of `Wots`); a path names its tree and leaf and
recomputes that root from that leaf (the results of `MerkleTree`); the fallback
nodes with `gpk`, and the SMT(1) roots, are distinct blocks (`TreesAssumption`).
Hashing something that is in no tree gives any of the blocks `Strays`. The SPRP
is *not* idealised: it is the one of `Sprp`, so that a fallback key may, undone
with a root it was not made with, give a fallback node or `gpk` all the same;
`AcceptedIsGenuine` names that case (`SprpCoincidence`), and in the run it
occurs. What arrives (`Received`) is any splice of the fields of two signatures,
or one with other indices (i, j) up to the width of a word, with its IMT path or
with an empty one, or other (k, l') up to twice the width of a tree. The empty
path belongs to i = 0, whose depth is 0: `compute_root` then compares the value
undone by the fallback key with `gpk` itself (`ImtValue`). For k and l',
`compute_root` looks at their low bits only, so these two are not protected by
the signature beyond that (`SameUpToWidth`). `checked` tells the builds with
overflow checks, which panic, from those that wrap.

`WidthAssumption` says which parameters the index arithmetic supports:
(2^(hI+1) - 2) * gamma at most 2^32.

### Community

Composes the manager with the epoch keys that a program distributes next to it
(`epoch/key.rs`, `epoch/grant.rs`). The key of an epoch is fresh and is
represented by the number it was made with. The number that a sealed key *says*
it is for is another thing: `SealedEpochKey.epoch_number` is sent in the clear,
the ciphertext does not cover it (`epoch/seal.rs:49-57`, `:81`), and
`absorb_grant` files the key under it. A ring is therefore a map from numbers to
keys, and a copy that opens may have other numbers than were sealed.

| variable | code |
|---|---|
| `policy` | the `HistoryAccessPolicy` the community has chosen |
| `epoch_count` | the length of `EpochHistory.epochs` |
| `rotation_due`, `owed` | the caller's obligations: a rotation after a revocation, a seal of the new epoch for each remaining member |
| `welcomed` | members whose first grant has been made |
| `stored` | the grants sealed for each member, which stay where they are for it to fetch |
| `ring` | `MemberEpochKeyRing.keys` of each member: a map from numbers to keys |
| `join_epoch`, `grant_epoch`, `last_epoch` | history: the current epoch when a member joined, was first granted and was revoked |

| action | code |
|---|---|
| `JoinMember` | `dgmt_join` in a community |
| `GrantEpochs` | `grant_epochs` under either policy; sealing is all or nothing |
| `RevokeMembers`, `Rotate` | `dgmt_revoke`, then `EpochHistory::rotate`, as the doc comments ask |
| `GrantSingleEpoch` | `grant_single_epoch` for a member that is owed the epoch |
| `AbsorbGrant` | `absorb_grant` and `absorb_single` of any copy of any stored bundle, in any order and as often as one likes |

`AbsorbGrant` chooses the numbers of the copy (`NumbersInCopy`, bounded by
`WrongNumbers`) and how many of its keys open before one does not: the call
returns there and keeps what it has filed, from nothing to the whole bundle.
`Filed` is the `insert` of those keys in order: under a number that occurs twice
the last key stays, and a key that was in the ring under that number is gone.
`Finds` is `MemberEpochKeyRing::get` with the epoch's own key as its answer. A
copy with a wrong number can thus take a good key out of a ring, and no call
reports it; what brings it back is an undamaged copy of the same bundle, since
bundles stay on the server. That is what `MembersCatchUp` says of every active
member, and why its fairness (`FetchIntact`) is about undamaged copies. A key
that is only seen by its number cannot be told apart from another, so the
properties about who reads what speak of keys *held*, under whatever number
(`InReach`).

A failed grant changes nothing and is a step not taken. Of the manager, joins and
revocations interleave with these actions; `dgmt_key_dist` is left out, because
it touches nothing of the epochs and no action of this module looks at what it
changes.

### MerkleTree

One tree is built iteration by iteration (`BuildStep`), a path taken for a leaf
(`AuthPath`) or, for the IMT, for an inner node (`ImtAuthPath`), transported
(`Received`: as it was, one sibling replaced, one appended, the first lost) and
verified iteration by iteration (`ComputeRoot`, `RootStep`, `Compare`). The hash
is a CONSTANT function of two digests, under no assumption: a collision is a
disjunct of the property instead. `PowerOfTwo` is `1 << d`, a constant with the
two equations that define it as assumption, because exponentiation is out of the
prover's reach. `Wraps` bounds by how many widths of the tree a claimed index
may exceed it: `compute_root` looks at the low bits only.

### Wots

One key is generated, one hash signed ("WOTS is one-time") and what was received
verified for any hash. `DigitStep`, `ChecksumStep` and `DigitsReturn` are
`message_to_basew`; `ElementBegin`, `ChainStep` and `ElementEnd` are the loop
over elements with its calls of `wots_chain`, shared by the three operations,
which differ in where they start and stop (`ChainStart`, `ChainStop`);
`KeygenReturn`, `WotsSign`, `SignReturn`, `WotsVerify` and `Compare` are their
entries and exits. `Received` is the signature as it was made, with one element
altered, or what a further signature by the same key would disclose (the
constant `Disclosures` bounds the latter). `Step` is `wots_chain_step`, any
function of value and counter. History: `chain`, the values of every chain;
`sums`, the running checksum of the signed hash; `hashed`, what verification
applied the step function to.

### KummerLine and Handshake

`KummerLine` has the pure functions, each the translation of one function:
`Sqrt` of `field.rs` by its formula for P % 8 = 5, `EcDouble`, `EcAdd` and the
double-and-add loop `EcScalarMult` of `kummer.rs`, `ScalarMult` with its
conversions and failures, `Encode`, `Decode` and `CanonicalRep` of
`elligator_k1.rs`. The 32-byte strings are numbers of `Bits` bits.

`Power[n][a]` is `pow`, by repeated multiplication; `Tabulated(f)` is f (it
makes TLC evaluate a function once). `FieldAssumption` is what the code fixes
and its tests assert of P, lambda and u: a prime with P % 8 = 5, a square lambda,
and u = 2, which is no square (`elligator/field.rs:308`).

The last section of the module is the reference and models no code: the points
of the `Curve`, repeated addition (`Times`), orders, and the points of the curve
that a point of the line stands for (`PointsOf`).

`Handshake` has two parties, each with its call of `dh_initiate` (`DhInitiate`,
then `Found` or `Retry` for each scalar drawn, `GiveUp` after `MaxAttempts`)
and one of `dh_complete` (`DhComplete`, with the peer's string, its free top bit
set or not, or, for the parties in the bound `Exposed`, with any string). The
secret is the affine coordinate that the code hashes.

`CurveAssumption` is what the doc comment of `clamp_scalar` takes for granted
when it says that clearing three bits removes the small subgroup
(`elligator/kummer.rs:266-272`): no multiple of 8 of a point of the curve is the
point with x = 1, whose image has z = 0 like the neutral element's, and eight
times the base point has prime order or is neutral. TLC evaluates it on the
instance. For the constants of the code it was established apart from this
development, by counting the points of the curve: there are 16 q of them, where

    q = 3618502788666131106986593281521497120426638970361872520098195964852699115041

is prime (252 bits); the points of 2-power order form Z/4 x Z/4, so that none
has order 8, and a point over the base point, x = 578/63, has order q.

## 4. Runs

| run | checks | result |
|---|---|---|
| `manager_two_members` | `Manager` and its refinement of `OneTimeKeys`: 2 nodes, 1 SMTMT, 4 leaves, beta = 2, 2 members, requests of 2 | no error; about 194 000 states |
| `manager_two_trees` | `Manager`: 1 member, 2 SMTMTs; requests of 0 to 3, words of 8; liveness | no error; about 1 700 states |
| `revoke_walk` | `RevokeWalk`: beta = 4, gamma = 2, two walks | no error; 672 states |
| `group` | `Group`: 2 members, 2 verifiers, 2 messages, 2 signatures | no error; about 8 000 states |
| `signature_chain` | `SignatureChain`: 6 fallback nodes, gamma = 2, 4 leaves, words of 4 bits, blocks of 8 bits, 2 signatures, one listed tag | no error; about 1 143 000 states |
| `community` | `Community`: 2 members, 3 epochs, both policies, copies that open in part or have wrong numbers; liveness | no error; about 148 000 states |
| `merkle_tree` | `MerkleTree`: height 3, 5 digests, a hash with collisions, every index and every received path | no error; about 69 000 states |
| `wots` | `Wots`: base 4, 2 + 2 digits, all 16 hashes, a step function with one collision per step | no error; about 211 000 states |
| `handshake` | `Handshake`: 101 field elements, 112 curve points, strings of 8 bits, any string for one party | no error; about 90 000 states |
| `manager_give_up` | `NoKeysRemainingMeansExhausted` | violated, see findings |
| `revoke_count` | `EntryCountIsExact` | violated, see findings |
| `group_open` | `ConsistentOpeningFitsLeaf` | violated, see findings |

*Bounds and why they are enough.* `manager_two_members` has two members because
the interval and list properties relate pairs of members, two nodes because a
call spreads over nodes, and requests of 2 because one key of a call may be
built and the next one not. With beta = 2 the first branch of the pointer move
never applies, and with one SMTMT the third does not, so that this run moves
pointers through the second branch only; beta = 4 in `revoke_walk` covers the
first, and `LeavesIssuedOnce` holds for all of them. `manager_two_trees` reaches
the third branch (next SMTMT) and full exhaustion, with a request that is larger
than what is left, one of zero keys, and two whose budgets of attempts wrap. `MCSortVal` gives the trees different
shuffles with ties. Attempts and requests are bounded by the code itself; the
bounds of the model are `MaxSigs`, `MaxKeys` (`Group`) and `MaxWalks`
(`RevokeWalk`). The theorems of section 6 remove the bounds for the safety
properties of the manager. In `group`, verifiers and messages are
interchangeable and declared symmetric; the run checks no liveness.

`signature_chain` has hI = 2, the first height with fallback nodes of two depths,
and words of four bits, so that indices 0, 15 and all that wrap back into the
table of 12 keys are tried. The leaves handed out are two of one SMT(2), one of
another SMT(2) of the same SMT(1), one of another SMTMT and one of another
depth: with two signatures, every pair of places where splices could be mixed
up. The small AES has two keys that are one, so that a coincidence of the
permutation occurs. Messages are interchangeable and declared symmetric.

`community` has one member that is revoked and one that stays, and three epochs
so that one is before, one during and one after a membership. Copies for the
first member may say of any of their keys that it is for epoch 1 (the bound
`WrongNumbers`): keys of an older and of a newer epoch then take the place of
the right one, and two keys of one copy the place of each other. What the
numbers of its copies do is the business of one ring, so copies for the second
member, whose grants and revocation matter to the first, keep their numbers. In
`merkle_tree`, height 3 is the first with an inner level that is neither the
leaves' nor next to the root, and the colliding hash makes the collision
disjunct happen. In `wots` the checksum, at most 6, needs both of its digits;
accepting another hash and accepting through a collision both occur. In
`handshake` the curve has the group structure Z/4 x Z/4 x Z/7; the 2-part of the
curve that the code fixes is Z/4 x Z/4 as well, so that clamping means the same.
Some multiples of the base are outside the image of the map (`Retry`), some are
neutral, roots fall into both halves of the field, and strings above the prime
exist. The MC module also has TLC evaluate, as an assumption, that `EcAdd` is
the chord-and-tangent group law on all pairs of points, so that repeated
addition is a fair reference for the loop; `CurveIsGroup` proves that it is a
group law for every field and line. One verification, and one completion for
each party, stand for all, because these functions keep no state.

*Deadlock* is checked wherever the system cannot stop: the manager can always be
asked to revoke, in a community and a group too, and a tree for another path.
`RevokeWalk` stops after `MaxWalks` walks, `Wots` and `SignatureChain` after the
verification, `Handshake` when both parties have completed.

*Fairness.* `Manager` assumes weak fairness of `KeyDistStep(id)` for each
member, `RevokeWalk` of `WalkStep`: a function call that has started goes on to
its return. `Community` assumes weak fairness of the first grant and of the
seals owed after a rotation, which the doc comments of `grant_epochs` and
`rotate` ask of the caller, and, for each member and epoch, of absorbing an
undamaged copy of a bundle with the key of that epoch, as long as the ring does
not have that key under its number (`FetchIntact`: a member that cannot read an
epoch goes on fetching its key, and not every copy it is given is damaged). It
assumes nothing of joins, revocations and rotations. Nothing obliges a program
to make any other call; and no fairness is assumed of the random choice of
nodes, which is why `KeyDistReturns` rests on the attempt budget.

## 5. Findings

- `manager_give_up`: `dgmt_key_dist` can return `NoKeysRemaining` ("No OTS keys
  remaining for this member") although another fallback node still has keys: the
  budget of `b * num_fn * 2` random draws may be spent on exhausted nodes.
- `revoke_count`: `revocation_entry_count` counts beta leaves per SMT(2), the
  walk takes beta - 1; the count is too large as soon as the pointer has left
  the first SMT(2).
- `group_open`: `verify_open_consistency` compares i, j and k, not that the
  opened leaf maps to `l_prime` as its comment says: the opening of one
  signature is consistent with another member's signature of the same SMT(2).

Also noted, without a run: for the paper's parameters (hI = 16, gamma = 2^16),
which the test at `dgmt/params.rs:177` declares valid, `(i - 1) * gamma + (j - 1)`
overflows u32 in `build_public_params` and `dgmt_verify` (`WidthAssumption` is
false). Under `FromJoinDate`, a first grant that is made only after a rotation
does not contain the epoch of the join; the members' guarantees are therefore
stated from the first grant on. The position (1, 0, 0) is never issued, because the
pointer moves before it is used, but every revocation lists it for each node.
It is nobody's key, so the list is larger than needed and no verdict changes.
The profile with `overflow-checks` in `crates/knee-tie-crypto/Cargo.toml:34-35`
has no effect, since cargo reads profiles from the workspace root only. The
test comment at `elligator/dh.rs:346` expects that completing with the public
value 0 succeeds; 0 stands for the neutral element (b2 : a2) and always fails
(`ErrExactlyOnIdentity`), which the test tolerates. `elligator/kummer.rs:272`
calls 8 the cofactor of the curve; with a square lambda of the form
a^4 / (a^4 - b^4) all points of order 2 can be halved, so 16 divides its order,
and the cofactor is 16. Clamping to multiples of 8 still suffices, as no point
has order 8 (`CurveAssumption`).
`elligator_k1_decode` answers None for points outside the image only
among the points of the curve, the only ones it is given.

## 6. Proofs

`DgmtParams_proofs` proves the facts about the index arithmetic: `Advance` stays
in the index space and goes to the immediate successor (`AdvanceIsNext`),
intervals of members do not meet (`LAbsoluteInjective`), the interval formula of
`dgmt_open` inverts the offset (`IntervalDivision`), and the shuffle is
injective for arbitrary sort values (`ShuffleInjective`: ranks of a stable sort
differ because the set of leaves before one is strictly contained in that before
the other).

`Manager_proofs` proves about the manager, from `ParamsAssumption`,
`SortValAssumption` and `RequestsAssumption` (the width of words plays no part
but in `CallsComeToAnEnd`):

| theorem | property |
|---|---|
| `TypeCorrect` | `TypeOK` |
| `LeavesIssuedOnce` | `NoLeafIssuedTwice` |
| `RevocationIsComplete` | `RevokedKeysListed` |
| `RevocationIsPrecise` | `ActiveKeysNotListed` |
| `SpareLeafKept` | `UnusedLeafKept` |
| `RevocationStays` | `RevocationIsFinal` |
| `DeliversB` | `DeliversWhatWasAsked` |
| `CallsComeToAnEnd` | an iteration that does not end its call spends an attempt, never past the budget; nothing else touches the call |
| `ManagerImplementsOneTimeKeys` | `HandsOutOneTimeKeys` |

None of these is inductive alone. `IInv` adds what the code relies on silently:

- `LeavesBehindPointers`: a leaf that was issued lies behind the pointer of the
  one member it was issued to, at the place the shuffle sends it to. With it,
  the leaf in front of a pointer is fresh (`FreshLeaf`): an earlier owner would,
  by injectivity of shuffle and offset, be the same member at the same pointer,
  which has not been passed.
- `KeysBehindPointers`: the same for keys held by members or by running calls,
  whose tag is that of their leaf.
- `RlExact`: the list is exactly what the walks over the pointers of the
  revoked members yield. It is inductive because a revoked member's pointer
  stands still, which needs
- `CallsOfActiveMembers`: no call of a revoked member is running. A revocation
  cannot slip under a running call because of the mutable borrow.
- `Unjoined`, `NoPointersBeforeJoin`: a joining member starts from nothing.

`KeysCounted` adds, for `DeliversB`, that a running call holds `allocated`
distinct keys, none of which the member had. For the refinement, the step that
builds a key is `HandOut` because the leaf in front of a pointer is fresh and,
the list being exact, not turned down; a revocation is `Ban` because `RlExact`
holds before and after it; every other step leaves the three abstract variables
alone.

The other theorems:

| module | theorem | property |
|---|---|---|
| `RevokeWalk_proofs` | `WalkTypes` | `TypeOK` |
| | `WalkIsComplete` | `WalkListsAllocated` |
| | `WalkIsInterval` | `WalkListsInterval` |
| | `WalkNeverStuck` | the branch that "should not happen" is taken at the pointer only |
| | `WalkComesCloser` | each iteration but the last reduces the distance to the pointer by one |
| | `CountIsUpperBound` | by how much `revocation_entry_count` exceeds the entries |
| `Manager_proofs` | `CommunityTypes` | `CommunityTypeOK` |
| | `RevocationCutsOff` | `RevokedReadsNoLaterEpoch` |
| | `HistoryWithheld` | `NothingBeforeJoin` |
| | `NoEpochForgotten` | `ActiveMembersCovered` |
| | `ReachIsKept` | no step takes an epoch out of a member's reach, what ceases to be owed is within reach, and the reach of a revoked member stands still |
| | `RingIsMended` | after an undamaged copy of a bundle was absorbed, the member finds the key of each of its epochs, whatever its ring was before |
| | `GroupTypes` | `GroupTypeOK` |
| | `VerdictFollowsStatus` | `CurrentListVerdict` |
| | `StaleListsAreSafeForActive` | `OldListAcceptsActive` |
| | `VerdictsAgreePerMember` | `VerdictIsPerMember` |
| | `OpeningsAreTrue` | `OpeningIdentifiesSigner` |
| | `RejectionsStay` | `RejectionIsFinal` |
| `MerkleTree_proofs` | `TreeTypes` | `TypeOK` |
| | `PathsVerify` | `OwnPathVerifies` |
| | `AcceptanceIsSound` | `AcceptedIsGenuine` |
| `Wots_proofs` | `WotsTypes` | `TypeOK` |
| | `SignaturesVerify` | `OwnSignatureVerifies` |
| | `AcceptanceIsSound` | `AcceptedIsGenuine` |
| | `ChecksumProtects` | `OtherHashNotCovered` |
| `SignatureChain_proofs` | `SprpInverts` | inversion in both directions |
| | `ChainTypes` | `TypeOK` |
| | `SignaturesVerify` | `OwnSignatureVerifies` |
| | `AcceptanceIsSound` | `AcceptedIsGenuine` |
| | `InnerKeysSignOnce` | `InnerKeySignsOneRoot` |
| `KummerLine_proofs` | `MapRoundTrip` | decode finds the canonical preimage of every image |
| | `CurveIsGroup` | `EcAdd` is a commutative group law on the curve |
| | `EcScalarMultIsTimes` | the double-and-add loop computes the k-fold sum |
| | `LineMultiple` | multiplication on the line is that on the curve, whichever root is taken |
| `Handshake_proofs` | `HandshakeTypes` | `TypeOK` |
| | `EveryStringRoundTrips` | `RoundTrip` |
| | `StringsNameMultiples` | `PublicNamesMultiple` |
| | `ErrOnlyOnIdentity` | `ErrExactlyOnIdentity` |
| | `Agreement` | `SharedSecretsAgree` |

- `RevokeWalk`: `RInv` describes the walk half-way. Behind `at` lies exactly what
  the first walk has listed (`ListedSoFar`; a later walk finds everything listed),
  `at` has not passed the pointer (`WalkBehindPointer`), what was issued is the
  interval up to the pointer without its first position (`AllocatedExact`), and
  the entries pushed are the ordinal of `at` (`PushesCounted`). It is inductive
  because the two versions of the move, `Advance` and `WalkAdvance`, are one
  function (`SameStep`) that goes to the immediate successor. `WalkComesCloser`
  is the ranking half of `WalkTerminates`; that a walk goes on at all is its
  fairness, and stays with TLC. `CountIsUpperBound` gives the finding
  `revoke_count` its size: one entry too many per finished SMT(2).
- `Group`: a step is one of the manager's or leaves the manager alone. `GInv`
  adds that signatures are made with a member's own keys (`SignedWithOwnKey`),
  that a copy is an older state of the list (`CopiesAreOld`), and that a copy
  treats a member as a whole (`CopiesPerMember`): it lists no leaf of the
  member's intervals, those not yet issued included, or the member was revoked
  before it was taken and it lists every key the member has. The first
  alternative has to speak of leaves that are not issued yet, because the member
  may draw and use them after the copy was taken.
- `Community`: a step is one of the manager's or leaves the manager alone
  (`ManagerStepOrStutter`), so the manager's invariant is reused. `CInv` adds
  that seals are owed to active members only (`OwedToActive`), that nothing is
  stored or held by those who are not members yet (`NothingBeforeMembership`),
  and that a member's ring has, under whatever numbers, only keys that are
  stored for it (`HeldIsStored`). The last is what makes a displaced key one that
  can be fetched again: absorbing any copy leaves the member's reach as it was
  (`AbsorbReachesSame`). `ReachIsKept` and `RingIsMended` are the safety halves of
  `MembersCatchUp`: a key that is due never goes out of reach, and one undamaged
  copy puts it, and all others of its bundle, in their places.
- `MerkleTree`: `MInv` says that the array holds the hashes built so far
  (`Built`), the path the siblings above the node so far (`PathSoFar`), and that
  a verification that is still on a genuine path carries the node's ancestor and
  its index within its level (`RootSoFar`). Acceptance goes backwards: where the
  received data first differs from the tree and the roots agree, two inputs of
  the hash collide.
- `Wots`: `ChainInv` follows each operation along the chains of the key;
  `DigitInv` compares the hash being verified with the signed one: if none of its
  digits so far comes earlier, its running checksum is not larger, and if it is
  equal the digits are equal. The checksum, being written in as many digits as
  it needs (`WotsAssumption`), then cannot come later in every digit unless
  the hashes are the same.
- `SignatureChain`: `IInv` says that the entries of the table the loop has passed
  are those of their trees (`FkBuilt`, inductive because no two places share an
  index: `FkIdxInjective`), that every signature is the one made for a leaf that
  was handed out (`SigsGenuine`), that none is made before the table is complete,
  and that the verdict is the one on what was received (`Verified`). Acceptance
  goes backwards from gpk: the depth and offset of i name one node
  (`DepthAndOffset`, modulo `Word`), the table index names one SMTMT
  (`TableEntry`), so that without a coincidence of the permutation the root that
  was recomputed is that of the tree the indices name; from there the parts are
  those of one signature (`ReceivedRoot`), because the roots are distinct and
  the shuffle, being injective, leaves one tag for a leaf.

- `KummerLine_proofs` proves the number theory the map rests on, for every prime
  P with P % 8 = 5 and every admissible line. The library's induction theorems
  take a predicate as an operator, which the provers cannot instantiate; here
  induction is over *sets* of naturals instead, from the least element of a
  nonempty set (`LeastElement`, `SetInduction`), and recursion over a step
  *function* (`PrimitiveRecursion`), so that powers, binomial coefficients and
  sums are functions with provable equations. The chain is: a prime divides a
  factor of a product (`PrimeDividesFactor`), the binomial theorem modulo P,
  Fermat's little theorem, `Inv` is the inverse (`InvIsInverse`), `Chi` is a
  character and tells squares (`ChiIsPower`, `CharacterOfProduct`), `Sqrt`
  squares back to its argument (`SqrtSquared`, the formula of `Fp::sqrt` for
  P % 8 = 5, which needs that 2 is no square). Then the map: `Encode` divides by
  nothing that is zero (`LineFacts`, `Denominator`), of the two roots that it
  chooses from exactly one is on the curve (`OtherRootFacts`, `EpsilonOpposite`),
  the candidates of `Decode` for its image are these two in either order
  (`RootOfDecoded`), only one of t and -t is in the canonical half
  (`OneCanonicalRoot`), and so decoding an image returns the canonical element
  with that image from every representative (`MapRoundTrip`). Equations are
  between integers modulo P, identities of polynomials with P as a factor.

  *The group law.* `SumFacts` reduces `EcAdd` and `EcDouble`, with their special
  cases and divisions, to congruences: a sum is the neutral element for opposite
  points only (the cubic has no double root: `CubicIsSmooth`), otherwise it is
  the reflection of the third point of a line. `Line(m, n, p, q, r)` says that
  the curve and a line have p, q and r in common, *with multiplicity*, as the
  symmetric functions of three roots; closure and commutativity are read off it
  (`SumLine`, `LineSum`). For associativity (`GenericSum`) no identity of
  rational functions is expanded. The lines that add s to p + q, divided by the
  vertical line through p + q, are a conic, x^2 + b x + c = d y, that meets the
  curve in p, q, s and the opposite of the sum; the lines that add p to q + s
  are another. Conics of this form through three points that are on no line are
  equal (`ConicsAgree`; when two of the points coincide, through one with the
  curve's tangent: `TangentConicsAgree`), and then so are their fourth points
  (`FourthPoint`). `Associative` reduces the cases left, neutral elements,
  opposites and repeated points, with `Cancel`. Every congruence is a linear
  combination of its hypotheses with polynomials for coefficients, which the
  lemma names and the SMT solver expands.

  *Multiples.* `Times` is additive and multiplicative (`TimesSum`,
  `TimesProduct`); the order of a point exists because the curve is finite
  (`SomeMultipleVanishes`) and divides the multiples that vanish
  (`OrderDivides`). The loop of `ec_scalar_mult` keeps the multiple by the low
  bits read so far and that by the next power of two (`EcScalarMultIsTimes`).
  `PointsOfLine` says which points of the curve a point (x : z) stands for, and
  `LineMultiple` that `scalar_mult` is the image of the multiple of either.

- `Handshake_proofs` has the invariant `KeysMatch`: a party that has keys has
  those of one clamped scalar whose candidate it sends, and what it completed
  with is the value of `compute_shared_secret`. `StringsNameMultiples` follows
  from `DecodedPreimage`: what `Decode` finds for a point of the curve is a
  preimage of it, on either branch. `ErrOnlyOnIdentity` and `Agreement` use
  `CurveAssumption`, the former its first conjunct only. For `Agreement` the two
  secrets are one multiple of the base point, by `TimesProduct` and the
  commutativity of integers, whichever roots the computations took; that the
  multiple is not neutral although neither public value is rests on the prime
  order (`CommonMultiple`): otherwise the prime would divide 8.

## 7. What is only model-checked, and what is not modelled

- Liveness (`KeyDistReturns`, `WalkTerminates`, `MembersCatchUp`) is
  model-checked on the instances above; it and ENABLED are beyond the prover used.
  The safety halves are proved (`CallsComeToAnEnd`, `WalkComesCloser`,
  `ReachIsKept`, `RingIsMended`). Every other property that a passing run checks is proved too.
- Integers have their width in the products that can exceed it (`fk_idx` and the
  shift and depth of verification, the budget of attempts); the others are
  bounded by the parameters and unbounded in the models. `DgmtParams::new` is
  not a module: its outcome is `ParamsAssumption`. For hS of 64 or more it
  shifts by too much, which panics in a build with overflow checks and is
  rejected by a later check in others.
- The manager takes the SPRP of position tags for injective; `MerkleTree` and
  `Wots` take hashes for any functions and name the collision. Nothing is said
  about the strength of a primitive.
- `handshake` runs over a small field. The theorems hold for every prime P with
  P % 8 = 5 and every admissible line, but that 2^255 - 19 and the constants of
  the code satisfy `FieldAssumption` and `CurveAssumption` is not proved here
  (the residues are asserted by tests of `elligator/field.rs`, the number of
  points is given in section 3).
- Nothing bounds how often `generate_keypair` has to draw: that 64 attempts
  nearly always suffice is a statement about probabilities.
- Encrypting content under an epoch key (`encrypt_content`, `decrypt_content`)
  keeps no state. The identity module (Ed25519 pseudonyms, a sealed local store)
  and the hash and AEAD wrappers each make one call of an external primitive and
  keep no state: a model of them would restate what the primitive promises. They
  appear as outcomes of the operations using them.

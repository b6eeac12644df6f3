# A verification development for stoa-js

TLA+ specifications of the parts of stoa-js that are hard to test: the node
failover and the client on top of it, the polling loops, the analysis of
guards, the signing strategy of the Codex, signing by several parties, the
builder of commands, the encrypted secrets of a codex, and the wallet's balance
reads. TLC checks them on small instances; TLAPS proves the theorems below for
every value of the constants.

All paths are relative to the repository. Two abbreviations:
`core/` is `packages/stoa-core/src/`, `legacy/` is
`packages/kadena-stoic-legacy/src/`.

## 1. The system

stoa-js is two packages. `kadena-stoic-legacy` is a vendored set of client
libraries (transaction builder, signing bridges to wallets, HTTP client, HD
wallets, cryptography). `stoa-core` is StoaChain's own code: it decides which
node to talk to, reads and writes with deadlines and failover, analyses
account guards, calibrates gas, and signs with the keys of the user's "Codex".

| Component | State | Operations | Talks to |
|---|---|---|---|
| Node failover, `core/network/nodeFailover.ts` | six module-level variables: primary, fallback, current host, custom gas limit, interval handle | `withFailover`, `initNodeFailover`, `setNodeConfig`, `resetNodeFailover`, the 30 s tick | nodes (health probes); called by the failover client |
| Failover client, `core/network/failoverClient.ts` | per call: one abort controller and deadline per attempt | `dirtyRead`, `submit`, `listen`, `pollOne` | node failover, chainweb client |
| Polling client, `legacy/client/client/utils/retry.cjs`, `api/status.cjs`, `api/spv.cjs` | per call: remaining keys, promises, timers, abort listeners | `pollStatus`, `pollOne`, `pollCreateSpv` | nodes; the consumer's `onPoll` and `onResult` |
| Chainweb client facade, `legacy/client/client/client.cjs` | none of its own | `local`, `submit`, `listen`, `getStatus`, `runPact` | nodes |
| Guard analysis, `core/guard/guardUtils.ts` | none (pure) | thresholds, `analyzeGuard`, `selectCapsSigningKey`, guard keys | called by the strategy and the review |
| Smart account review, `core/guard/smartAccountAuth.ts` | none; reads codex and pasted keys | `analyzeSmartAccountAuthPaths` | guard analysis |
| Gas, `core/gas/` | none (pure, reads the clock) | price floor, `calculateAutoGasLimit` | called by the strategy |
| Codex signing strategy, `core/signing/codexStrategy.ts` | locals of one `execute` | `execute` | key resolver (the user), failover client, guard analysis, gas, universal signing |
| Universal signing, `core/signing/universalSign.ts` | none | `universalSignTransaction` | key resolver |
| Partial signatures, `core/signing/partialSig.ts` | the transaction a party holds; envelopes | `signPartial`, serialise, deserialise, `isFullySigned`, `verifyExistingSignatures` | universal signing, `addSignatures` |
| Wallet bridges, `legacy/client/signing/` | none | quicksign, Ecko | external wallets |
| Command builder, `legacy/client/composePactCommand/`, `createTransactionBuilder/`, `pact/` | the reducers a builder collects; an initial command that builders may share; the path of a module proxy | builder methods, `getCommand`, `createTransaction`, `composePactCommand` | – |
| Pact reads, `core/reads/` | the reader wired at the moment | `setPactReader`, `pactRead`, `rawCalibratedDirtyRead` | node failover, nodes |
| Wallet, `core/wallet/` | `balance`, `balanceResolver`; the adapter's store | `getBalance`, the wallet builder | pact reads, formatting, HD wallets |
| Codex crypto, `core/crypto/` | one flag: has the process been advised of V1 | `encryptString`, `decryptString`, `smartEncrypt`, `smartDecrypt`, `...V2`, `isCodexUpgraded` | logger; called by the consumer that keeps the codex |
| HD wallets, `legacy/hd-wallet/` | none | seeds, key pairs, encryption, change of password, signing | called by the wallet builder and universal signing |
| Pact formatting, `core/pact/format.ts` | none | decimals and integers for Pact, European locale | called by the consumer |
| Logger, `core/observability/logger.ts` | the logger in force | `setLogger`, `resetLogger` | everything that warns |
| Account generation, cryptography utilities, tooling | see `PROJECT.json` | | |

Interactions, from the top: a consumer calls `execute`; it lists the codex,
prompts for keys, builds a transaction with a price and a gas limit, has
`dirtyRead` simulate it and `submit` send it. Both run inside `withFailover`,
which picks a node, recognises network errors, switches to the fallback and
tries once more; an interval then probes the primary until it is back. Results
are awaited by the polling loops. Instead of one strategy with all the keys,
several parties may pass a partly signed transaction round. A consumer without
the strategy composes commands with the builder. The wallet reads balances
through the same failover; the keys all of them use come out of the codex,
where `core/crypto/` and `hd-wallet/` each put a layer of encryption on them.

What is hard in this code, and what correctness means in each part:

* **Node failover.** JavaScript runs callbacks one at a time, but every
  `await` lets another in, and all share module-level variables. Calls that
  fail late, a start-up check, a probe in flight and a reconfiguration all
  start and stop one interval. Correct: the active node is a configured one,
  one interval at most is live and only while it is needed, switches have
  evidence behind them, and the client returns to a primary that is healthy.
* **Failover client.** A deadline stops the waiting, not the request. Correct:
  all that lands of a submit is the transaction its caller called with, a
  refusal is final, each attempt has a life of its own, every call ends.
* **Polling.** The losers of a `Promise.race` go on; callbacks throw; aborts
  and deadlines fall between rounds. Correct: rounds do not overlap, callbacks
  come once and after their promise, results heard are delivered, everything
  settles.
* **Guards.** Seventeen predicates at their boundaries, with keys that come and
  go. Correct: the analysis never promises more than the keys give and falls
  into one documented case.
* **Codex strategy.** Several prompts and requests, and the codex, the clock and
  the chain change at each. A timed-out submit may still land. Correct: guards
  are met by what is submitted, the gas key signs no guard, price and time
  agree, and a careful consumer's job lands once.
* **Partial signatures.** Envelopes travel by hand: reordered, repeated, lost,
  edited. Correct: nobody signs what they have not read, the local checks
  suffice, signatures are not lost.
* **Command builder.** Reducers run anew at every `getCommand`, write into the
  signers they find, and read the clock. Correct: a command handed out stays as
  it is unless it shares signers with a template, a signer is scoped to what it
  was given, and two transactions are equal when they should be.
* **Codex secrets.** Two layers of encryption with a password each, two envelope
  versions, a schema version read before an await, walks over all entries that
  a crash may cut. Correct: every secret still opens, under the password in
  force, to the key it is filed under, and errors name the real cause.
* **Wallet reads.** Reads overtake each other, nodes are at different heights,
  and reader, resolver and logger may be replaced under a read. Correct: a
  balance is one the asked node had, "0" means that there is no account, and
  amounts keep their value on their way to a screen or a transaction.

`PROJECT.json` lists the single hazards at their lines, each with the
properties that cover it or the reason none does.

## 2. The modules

| Module | Models | Composes |
|---|---|---|
| `NodeFailover` | `core/network/nodeFailover.ts` | implements `FailoverContract` |
| `FailoverContract` | what a user of `withFailover` may rely on | – |
| `FailoverClient` | `core/network/failoverClient.ts` | extends `NodeFailover` |
| `PollStatus` | `retry.cjs`, `status.cjs`, `spv.cjs`, grouping in `client.cjs` | – |
| `GuardAnalysis` | `core/guard/guardUtils.ts`, branch picker of `smartAccountAuth.ts` (operators) | – |
| `GuardReview` | the review of a smart account while keys change | extends `GuardAnalysis` |
| `GasMath` | `core/gas/` (operators) | – |
| `CodexStrategy` | `codexStrategy.ts` with the calls it makes | extends `GuardAnalysis`, `GasMath` |
| `PartialSig` | `partialSig.ts`, `addSignatures.cjs`, the bridges | – |
| `CommandBuilder` | `composePactCommand/`, `createTransactionBuilder/`, `createTransaction`, `pact.cjs` | – |
| `Envelopes`, `HdSecrets` | `core/crypto/`; `hd-wallet/` and `KadenaWalletBuilder.ts` (operators) | – |
| `Codex` | what happens to stored secrets over time | extends `Envelopes`, `HdSecrets` |
| `Amounts` | `core/pact/format.ts` (operators) | – |
| `WalletReads` | `KadenaWallet.ts`, `reads/`, `errors/`, `logger.ts` | extends `Amounts`; `withFailover` is an instance of `FailoverContract` |
| `FoldTheorems` | – : what folds and flattening do to a sequence of any length | – |
| `FailoverProofs`, `GuardProofs`, `PollStatusProofs`, `PartialSigProofs`, `CommandBuilderProofs`, `CodexProofs`, `WalletReadsProofs` | theorems about `NodeFailover` and `FailoverClient`; `GuardAnalysis`, `GuardReview` and `CodexStrategy`; and the modules named | extend these |
| `MC...` | small instances for TLC | extends the module named |

`PROJECT.json` maps each definition to the lines it models. Definitions named
`...Bug` are plausible mistakes in the definition after them. No specification
uses them; they are put in the place of the right one to see that a property
notices.

### NodeFailover

`PRIMARY_HOST`, `FALLBACK_HOST`, `currentHost`, `customGasLimit` and
`retryTimer` are variables; `intervals` is the event loop's set of live
intervals, so that a handle overwritten without `clearInterval` shows. `calls`
holds each `withFailover` in flight with the two URLs it captured at entry,
`tick` and `boots` the hosts a probe is waiting for. `selected`, `epoch` and
`rejected` are history. An action is the code between two awaits:

| Action | Code |
|---|---|
| `BeginCall`, `RetryCall`, `SettleCall` | `withFailover`: entry; the catch block up to the second `fn`; the end |
| `TickFires`, `TickHealthy`, `TickUnhealthy` | the interval's callback before and after `isHealthy` |
| `InitNodeFailover`, `BootHealthy`, `BootUnhealthy` | the start-up check before and after `isHealthy` |
| `SetNodeConfig`, `RejectNodeConfig`, `ResetNodeFailover` | accepted, throwing, and the reset |

`StopRetryLoop`, `StartRetryLoop`, `SwitchToFallback` and `SwitchToPrimary` are
called from those, as in the code. URL parsing is two sets, origins that are
accepted and URLs that throw. `FailoverContract` leaves out timers, probes and
history: a pair of hosts, the active one, and for each call the one or two
hosts it was sent to.

### FailoverClient

A call becomes one request per attempt, each `sent`, then `served`, `refused` or
`broken`, with the controller `runWithTimeout` makes for that attempt.
`DeadlinePasses` aborts it and rejects, but the request stays on the wire; the
node may serve it later and the chain mine it (`pool`, `landed`). `transaction` is
the object the caller of a submit holds, as the version of its contents: the
client captures the object, not its contents, and serialises it at every send
(`Carried`), and the key a node computes is that of the body it got
(`RequestKey`). So a retry may carry something else than the first attempt did,
and `Edit`, the caller's, may change the object before the call and after its
promise settled, while a late body is still under way; in between it must not
(`failoverClient.ts:222-230`). Without that guard of `Edit`, TLC finds a landing that
is not of the first body. The nodes, the network, the caller and the chain
are external; that a chain takes a request key once is assumed (`Mine`), as the code
does (`:215-220`). An attempt of `pollOne` is a loop of such
requests: `retry` swallows what a round throws, so `PollAgain` follows where a
read would fail over; it is given no signal, so it outlives `DeadlinePasses`, and
even the call, until a result or its own deadline (`PollExpires`). What happens
inside a round is `PollStatus`.

### PollStatus

One loop per host and one per `pollCreateSpv`. A loop is idle, racing, waiting
for its interval, or has ended; `waking` and `polls` are its tasks in their 1 ms
sleep and on the wire, also those whose round is lost. Time is one flag per
loop, `expired`: a round passes on what is left of the timeout, so the deadline
is that of the first round. A timer that is due fires before the 1 ms sleep set
after it ends, which is what the code's comment at the sleep relies on.

### GuardAnalysis and GuardReview

A guard is the shapes it matches, a predicate and a sequence of keys.
`ClassifyGuardKind` keeps the order of the code's tests (capability before
keyset), thresholds its arithmetic (percentages rounded up). In `GuardReview`
keys are imported, removed, pasted and cleared (a cleared input leaves a blank
entry), and keyset references are resolved. Its initial states, steps and
specification are `ReviewInit`, `ReviewNext` and `ReviewSpec`, because `GuardProofs`
extends it together with `CodexStrategy`.

### CodexStrategy and GasMath

Each execution is a record: phase, snapshot of the codex, guard keys still to
be collected, prompts made, caps key, simulated and real transaction,
signatures. The steps B to F of `execute` are actions that end where the code
awaits. The codex is read anew at each prompt; the clock once, before the first
build. `ExecuteAgain` is a consumer that repeats a rejected job; `PollAfter`
says after which errors it first waits to learn the fate of the transaction.
The build closure, codex, clock, nodes and chain are external.

### PartialSig

A hash is a record of the command it was computed from, a signature of the key
it verifies under and the hash it covers. `copy` is what each party works on,
`mail` all envelopes ever posted: nothing is taken out, so they can be imported
late, repeatedly or never. `Edit` changes the command, with or without its hash,
or damages a signature. `shown` records which command the holder of a key was
reading when it signed. `SignPartial`, the quicksign bridges `QuickSign` and
`QuickSignWithEcko` (a party has one of the two wallets; Ecko's answer must name the
transaction's hash) and `SignWithEcko` sign; `AddSignatures` rebuilds the slots in the order of the
command's signers, by `pubKey`.

### CommandBuilder

A command is a record with the fields it has so far: an absent field is outside
its domain, as `undefined` is tested for in the code. Signers are references
into `heap`, because `patchCommand` writes into the signer object it finds.
`template` is the initial command builders may start from. `AddStep` only
appends a reducer; `GetCommand` and `CreateTransaction` run all of them
(`RunAll` from what the builder starts with), with `Finalize` after each, as the
nested `composePactCommand` calls do. `Over` is the spread `{...old, ...new}`.
`ComposeOnTemplate` is `composePactCommand` applied to the template itself, with
which it then shares its list of signers and its payload, into which
`finalizeCommand` writes. `NewExecution` and `CallRefused` go through a saved
module proxy, whose `code` collects the `Paths` called and is reset only by a call
that succeeds. Values are `Given` by the consumer or a default, the time of the
run or a constant; a template is anything of the declared types (`IsTemplate`).

### Envelopes, HdSecrets and Codex

A ciphertext is the text and the key it was made with; it opens under that key
and otherwise fails its tag. A string of a codex is a record of how it parses,
which version it says it has, and what it was made with. Keys are the path from
their seed. A Chainweaver key is scrambled under the password without a tag:
with another password it is another key, and nothing fails. Private keys are 32
bytes that travel as bytes or as hex text, and the conversions are kept apart
(`Hex`, `HexToBin`, `Utf8`): `KadenaGenKeypairFromSeed` encrypts the bytes, the
wallet's own `encrypt` the UTF-8 bytes of the text it is given (`WalletEncrypt`), and
`SignHash` refuses a key that is not of nacl's size.

`codex` is the codex in memory, `store` and `version` what the adapter holds.
`BeginWrite` and `EndWrite` (`EndStoicWrite`, `RefuseWrite`) are the two ends of a
write, between which the upgrade may end; `ImportBackup` brings entries of older
versions. `BeginUpgrade` or `BeginRekey`, then `Walk` for each entry, `Save` and
`Finish` are a walk over the codex, and `Restart` loses what is not stored. This
order is the consumer's, as the packages' documentation describes it; each call
in it is the packages'. `Open` opens any string, the codex's or junk, in each of
the three ways.

An entry is a seed, one of its key pairs, or a DALOS ("stoic") pair, and `SignWith` is
the path by which the packages sign with each: an extended key through its
library (`SignExtended`, `universalSign.ts:128-145`), a SLIP-10 seed or pair through
`kadenaSignWithSeed` and `kadenaSignWithKeyPair`, a DALOS pair as raw hex text through
nacl (`SignRawHex`, `universalSign.ts:101-103,125-127`). The last is the only one that
fits a text encrypted by `KadenaWalletBuilder.encrypt`; given to
`kadenaSignWithKeyPair`, which hex-encodes what it decrypts, the same entry would be
a key of 96 bytes, and nacl throws. The mutant `KadenaGenKeypairFromSeedBug` makes
that mistake from the other side: it encrypts the text where the bytes are due.

### Amounts and WalletReads

`Amounts` works on the shapes of a text: digits before and after its marks, and
the marks. A read goes from `Unresolved`, `ReadPinned` or `ReadWithFailover`
(`getBalance` up to its first await) by `Retry` to `Answer` or `Fails`; `Report` is
the caller's `logDetailedError`. Steps of `withFailover` are those of
`FailoverContract`, which `NodeFailover` implements, so that the wallet is checked
against everything the failover may do. Nodes are at heights of a `Ledger`;
`heads` grow under the reads, and `since` remembers where they were when a read
began.

## 3. The runs

Each run is a module and a configuration of the same stem. Deadlock is checked
in `node_failover`, `node_failover_stranded` and `guard_review`, where something
can always happen. The other systems stop when their calls have ended, or when
the consumer does no more, so those configurations say `CHECK_DEADLOCK FALSE`.

| Run | Question | Result |
|---|---|---|
| `node_failover` | Does the failover machine keep its interval, its evidence for switches, its contract, and does it return to a healthy primary? | holds |
| `node_failover_stranded` | Is the primary always probed while the client is on the fallback? | violated, finding 1 |
| `failover_client` | Is all that lands of a submit the one transaction its caller called with, do errors mean what they say, does every call end, and every poll loop it leaves behind? | holds |
| `guard_review` | Is the analysis of a smart account sound, monotone and in one case? | holds |
| `codex_strategy` | What does `execute` guarantee while codex, clock and chain change? | holds |
| `poll_status` | Do rounds, callbacks, deadlines and aborts stay in order? | holds |
| `partial_sig` | Are signatures given knowingly, kept, and sufficient? | holds |
| `partial_sig_filled` | Do filled slots stay intact? | violated, finding 2 |
| `command_builder` | Do commands stay separate, and say what was given to them? | holds |
| `codex` | Does every secret survive, and does every error name its cause? | holds |
| `wallet_reads` | Is a balance one that a node had, and does it keep its value? | holds |
| `display_round_trip` | Does `parseEU` read back what `formatEU` shows? | violated, finding 3 |

Bounds, and why they are enough:

* `node_failover`: two calls, so that one can fail late under the changes of the
  other; one start-up check; two timer handles, so that an interval can leak and
  a second start beside it; two accepted reconfigurations, so that a probe or a
  call can be overtaken twice; one custom origin and one rejected URL. Calls and
  checks are reused when they end, so histories are unbounded.
* `failover_client`: one call with its two attempts, a submit or a poll
  (`OneCall` in `MCFailoverClient`), over a changing configuration. A second call
  would share only `NodeFailover`'s variables, and the safety theorems hold for
  any number. One edit of the submitted object, at any moment the contract of
  `submit` allows: with two versions a key can already be a second one. 317,224
  states.
* `guard_review`: two keys reach every threshold a guard of two keys has, and 42
  triples of guards contain satisfied, short, empty, referenced, keyless and
  unreadable guards, and one that lists a key twice, in every position that
  matters to the picker (73,728 states). Keysets of any length are covered by
  the proofs.
* `codex_strategy`: two executions, enough for a job and its repetition or for
  a race of codex reads; eight jobs that set guards against one another (shared
  keys, payment key in a guard, pasted, asked, missing and blank foreign keys, a
  smart account without codex keys); two codexes; one tick, at which the price
  floor rises and a transaction can expire (`Ttl = 0`). 309,052 states.
* `poll_status`: two keys on one host and one on another, so that a response can
  be partial and hosts independent; one proof job; one abort.
* `partial_sig`: two parties with a key each; the draft, a command that lists
  the signers the other way round, one that has lost a signer; three envelopes,
  one edit; one key held as a secret nobody compared with its public key.
  Signing, importing and wallet answers are not bounded. About 437,000 states.
* `command_builder`: two builders, two keys, a template without signers and one
  that lists a key twice; seven kinds of step, of which two may be taken (one per
  builder, or two that meet in one), two runs, one tick between them, one refused
  call of the proxy. 1,464,471 states, symmetric in the builders.
* `codex`: two entries, so that a walk has a middle; two passwords; a mnemonic
  that checks and one that does not; one DALOS seed; nine strings that no version of the code
  wrote or that were damaged; one change of password and one restart, at any
  await. 96,640 states, symmetric in the entries.
* `wallet_reads`: two nodes, two calls, so that they can overtake each other;
  a ledger of three heights (no account, a balance with more decimals than a
  literal may have, a smaller one); failures that mention a balance or a missing
  row beside what they are about; one rewiring, with resolver and reader in any
  state at the start. 1,119,012 states, symmetric in the calls.

The violation runs use the smallest instance in which the behaviour shows. The
other passing runs have 55,000 to 350,000 distinct states; each run ends within a
few minutes.

Fairness, and what in the code justifies it:

* `NodeFailover`: `setInterval` keeps firing, and a probe ends, because
  `isHealthy` is aborted after 3 seconds. `ReturnsToPrimary` assumes in its
  statement that from some time on probes succeed and no rejected configuration
  has stopped the loop. Nothing is assumed of callers.
* `FailoverClient`: `setTimeout` fires, so a call's deadline passes and a poll
  loop's own; that failing rounds do not put the latter off is what `LoopsSettle`
  shows of `PollStatus`. Nodes and network promise nothing.
* `CodexStrategy`: the deadlines of `dirtyRead` (15 s) and `submit` (60 s) fire.
  A prompt may stay open for ever, and `ChainCallsSettle` is only about the two
  requests.
* `PollStatus`: the interval's sleep ends, and a due timer fires. That the
  deadline passes at all is the premise of `ExpirySettles`, not an assumption,
  and `AbortSettles` does without it.
* `GuardReview`, `PartialSig`, `CommandBuilder`, `Codex`, `WalletReads`: none. They
  are driven by people, by a consumer, or by nodes that may stay silent until a
  timer that `FailoverClient` and `CodexStrategy` already cover.

## 4. The proofs

`tlapm` checks all of them: 49 results, which `PROJECT.json` lists, and the lemmas
they rest on. Of the 40 properties of the passing runs, 36 are theorems; the other
four are liveness.

They hold for any constants that meet the named assumptions of the modules: nodes
differ and handles are distinct from null (`HostAssumption`, `TimerAssumption`), gas
limits are numbers (`GasAssumption`), jobs and hosts are different things
(`PollAssumption`), keys are not the absence of one (`KeyAssumption`), accounts, jobs,
codexes, calls and templates are of their types (`GuardAssumption`,
`JobAssumption`, `CodexAssumption`, `StepAssumption`, `TemplateAssumption`), a command
lists a signer once, which the builder sees to, and absent values are no values
(`PartialAssumption`, `AbsentAssumption`), a pin is a node or none and the ledger is
not empty (`NodeAssumption`, `LedgerAssumption`), a string given to a decoder was made
by one of the two derivations (`JunkAssumption`), and bounds are numbers. TLC
evaluates every one of them. Some theorems have a hypothesis besides:

| Hypothesis | Says | Needed because |
|---|---|---|
| `ConsumerPolls` | the consumer polls after every error of a submit | otherwise a job lands twice (section 5) |
| `KeysListedOnce` | a keyset holds each of its keys once, as on the chain | the code counts positions, the chain keys |
| `OtherFailuresAreOther` | a node names a missing row only when the row is missing | `createSimulationError` goes by the text of a message |
| `LedgerHoldsAmounts` | balances are numbers as the chain prints them | nothing else has a value |
| `TemplatesHaveNoCode` | no template brings Pact code of its own | its code would be in front of the function's name |
| `KeysNamedOnce` | one `addSigner` names no key twice | its capabilities would be appended twice |
| `IsFiniteSet(Builders)` | the builders can be counted | the theorem counts them |

**FoldTheorems.** The library's induction theorems take an operator as a parameter,
which no installed prover can instantiate. What is needed of them is proved
here in another form: a set of lengths that holds 0 and is closed under the next holds
every length (`SetInduction`, from the well-foundedness of `Nat`). With it a fold, which
the community modules define as the value of a chosen recursive function, is taken
apart: such a function exists (`FoldExists`), and its values on the prefixes are
the stages of the fold (`FoldStages`), each of which follows from the one before by one
step. `FlattenStages` does the same for `FlattenSeq`. So facts about folds over
sequences of any length are theorems like any other.

**NodeFailover** (`FailoverProofs`). The invariant `IInv` conjoins type
correctness, `ActiveIsConfigured`, `NoLeakedInterval`, `ProbesOnlyOnFallback`,
`StrandedOnlyByRejection`, `CustomStaysHome` and `RetryGoesToFallback`. They are
not inductive as they stand: that a custom node is never left rests on
`CustomIsOwnFallback`, and what a suspended call may still do on
`CapturedAtEntry`, which says how its captured URLs relate to the configuration
in force. There is a lemma per switch and one step per action. From it follow
type correctness, `RetryLoopDiscipline`, `CustomStaysHome`,
`RetriesWithoutBadUrls` (with no rejected URL the documented retry loop does
always run), `SwitchesOnEvidence` (with `ProbesPrimary` in addition: before the
first reconfiguration every probe is one of the primary) and the refinement
`ImplementsContract`: each action maps to one of the contract, or to its
`Switch`, or to a stutter.

**FailoverClient** (`FailoverProofs`). `ClientImplementsNodeFailover`: every
step of client, network and chain is a step of `NodeFailover` or leaves it alone,
so all of the above holds for the client. `ClientInv` adds what the client's own
properties need: the requests of a call are those of the attempts it has begun
(`WireFollowsPhase`), only attempts that were begun can have been aborted
(`AbortedWereTried`), a node that served a submit has its transaction
(`ServedIsPooled`). A caller may edit its object, so that a key is not given with the
call: while a call is in flight its object says what the first body said, and a retry,
which is sent only then, says the same (`SameBody`); every key in a pool or on chain
is therefore that of its call's first body, which is never sent again or
changed (`OneVersion`). `SubmitsLandOnce` and `ErrorsMeanWhatTheySay` follow, for
any number of calls, nodes, edits and reconfigurations.

**GuardReview** (`GuardProofs`). First arithmetic: `ThresholdInRange` says
that every known predicate asks a keyset of n keys for 1 to n signatures,
percentages included. Then counting: a verdict "satisfied" is backed by private
keys at hand for as many positions of the keyset as the predicate promises,
for keysets of any length, and a key gained never makes a branch want more. Writing the proof for all keysets
corrected the statement of `VerdictsAreBacked`: for a guard that lists a key
twice the code counts positions, so the claim is about positions that can be
signed for, not about keys. The instance now has such a guard.

**CodexStrategy** (`GuardProofs`). First the loops of `execute` over guards and keys, each
a fold: `Among` keeps the order and the keys at hand, `Needed` takes as many as the
threshold asks for, and `GuardSigners`, their concatenation without repetition,
holds for each satisfied guard as many keys as it wants (`SignersMeetGuards`), whatever
other guards took the same keys before. `RInv` is then about one execution: the caps
key is chosen after the guard keys and from what they leave
(`CapsKeyComesLast`), what the user was asked for is the guard signers collected,
the caps key and the signatures, all different (`Prompts`), what is simulated lists
the keys held and is priced at its own time (`SimulatesWhatIsHeld`), what is signed
afterwards still meets the guards at that price (`SignsWhatWasSimulated`), and only a
submit puts anything on the wire (`WireFollowsSubmit`). The two halves of
`KeysAreSeparate` (`CapsKeyIsApart`, `KeysAreAskedOnce`), the two of `GuardsAreMet`
(`SatisfiedGuardsGetTheirSigners`, `GuardsAreMetOnSubmit`) and `PriceFollowsTime` follow.
`LandInv` is about all executions: of two of one job, one at most is alive, the
other has been rejected and has nothing on its way (`OneIsAlive`), which gives
`JobsLandOnce`.

**PollStatus** (`PollStatusProofs`). The properties are kept by four facts:
a task under way belongs to a loop that races or has lost a race
(`TasksHaveRounds`), what it asks for is still pending (`AskedIsPending`), a
delivered key has left `requestKeys` unless its callback threw
(`DeliveredLeave`), and promises are rejected only when their loop ends
(`RejectedAtEnd`). With them `OneTaskAtATime`, the two parts of
`CallbackContract` and `HeardIsResolved` are inductive; `QuietAfterEnd`
follows.

**PartialSig** (`PartialSigProofs`). A copy carries the hash of its own command
(`HashesMatch`; envelopes in the mail need not) and names each signer in one slot
at most (`NamesAreDistinct`). The lemma `AddSignaturesIs` says what
`addSignatures` makes of such a transaction. It gives `SignaturesWereShown`,
`VerifiedTransactionsLand` and `NamedSignaturesStay`, for any parties, commands
and orders of signers, and for any values of the bounds on mail and edits.

**CommandBuilder** (`CommandBuilderProofs`). A run is a fold of reducers, each of which
patches by a fold over signers, so the lemmas say what one stage keeps. `BInv` is
type correctness with references: the template's signers are among the objects,
what a builder starts with has none. *Apart:* a run writes to objects it has made
itself and to those the template's list names (`Keeps` for a signer, `Spares` for a
reducer, `Apart` for a run), so `StepKeeps` holds of every step and
`CommandsStaySeparate` follows. *As given:* `View` is what the signers are without
references; no run lists a key twice, and a key carries the capabilities it had and
then those each call named (`Carries`, `RunCarries`), which gives `SignersAsGiven`.
*Equal:* two runs of the same calls over different heaps, at different times, differ
in references and where a time is a default, and nowhere else (`Same`, `InStep`): a
transaction is what its calls give in an empty heap at its time (`NothingInvented`),
and `TransactionsAgree` follows without any hypothesis. `CodeInv` counts: a refused
call is still in the saved path, or has spoilt one builder. Writing the proofs showed
one write the model had left out, the default proof of a shared payload
(`ComposeOnTemplate`), and that a template is not any record but one of the declared
types (`TemplateAssumption`).

**WalletReads** (`WalletReadsProofs`). `ReadsAreHonest` is not inductive: a read
under way must be known to have asked one node per attempt and to have failed
over the network before the second (`UnderWay`), to remember heights its nodes
have reached (`SinceReached`), and to leave nothing at the failover when it ends
(`AtRest`, `EndedAs`); `LastOK` survives because heights only grow
(`OtherStepsKeep`). `AmountsKeepTheirMeaning` is about digits, for amounts of any length:
the literal has the value of the balance cut after `MaxDecimals` (cutting and
stripping zeros commute, `CutOfStripped`), the groups of three that are shown
flatten back to the digits they were made of (`ThousandsFlatten`), and `parseEU`, in
its branch for a comma, reads what it was shown.

**Codex** (`CodexProofs`). `SecretsSurvive` says that an entry opens and signs; what
is kept is why. An entry is `Good` under a password if its envelope is sound
(`WellMade`), the secret in it opens to a text under the same password (`Seals`), and
the text, scrambled under that password once more if it is an extended key, derives
the entry's public key (`GoodSecret`), in the form its signing path takes: the bytes
of a SLIP-10 key, the UTF-8 of a DALOS key's hex (`SignHashSigns`). The store is Good under the password in
force, and memory entry by entry under `PasswordOf`: the new one for what a change of
password has rewritten, the old one for the rest, which is why a writer and a
change of password must exclude one another (`JobOK`). `NewSecretIsGood` and
`ChangedSecretIsGood` are the two lemmas about `hd-wallet/`: what is derived is Good,
and a change of password that succeeds moves every layer. `OpeningsAreHonest` needs
no invariant but `AdviceOK`, the flag and the advisories: `OutcomesAreHonest` shows
the rest of any string, whatever wrote it.

Model-checked only: the four liveness properties, `ReturnsToPrimary`, `CallsSettle`,
`ChainCallsSettle` and `LoopsSettle`, because liveness under fairness and `ENABLED`
are beyond the prover. The violation runs are TLC's too.

## 5. Findings

Where a document, a comment or an assertion says one thing and the code does
another. The first three have a run that shows it.

1. `core/network/nodeFailover.ts:185`: `setNodeConfig` stops the retry loop before
   it validates the URL. If it throws while the client is on the fallback,
   nothing probes the primary any more; `:8` says it is retried every 30 s.
2. `legacy/client/signing/utils/addSignatures.cjs:29`: a signature in a slot without
   `pubKey`, as the Ecko wallet returns it, is dropped when the next party signs.
3. `core/pact/format.ts:196`: `parseEU` takes dots for thousands only if there is
   exactly one: `1.234.567`, as `formatEU` shows it, is read back as 1.234; `:179`
   and `:184` speak of a pair.

Four more, each a definition of a module that TLC finds violated when the
configuration of the module's run is changed as said:

4. `core/network/nodeFailover.ts:138`: a call entered before a reconfiguration
   compares the URLs it captured but switches to the fallback of the moment: its
   failure evicts the client from a new primary nobody tried
   (`LeavesPrimaryOnItsFailure` of `NodeFailover`, as a property of
   `MCNodeFailover.cfg`).
5. `core/errors/transactionErrors.ts:222` suggests to try again after a TIMEOUT.
   Following it lands a job twice; `core/signing/codexStrategy.ts:63` demands to
   poll first (`LandsOnce` with `PollAfter = {"submit"}`).
6. `core/signing/codexStrategy.ts:202` takes keys guard by guard and may report
   "impossible" although a smaller choice would leave a key for gas
   (`ImpossibleIsImpossible` of `CodexStrategy`, with the job `Greedy`).
7. `core/signing/codexStrategy.ts:258`: a measured gas of 0 gives gas limit 0, and
   the transaction is submitted with it (`WorkableGasLimit` of `CodexStrategy`
   with `SimGas = {0}`).

Smaller disagreements met on the way, seen in the code and not run:

* `codexStrategy.ts:152`: without `requestForeignKey`, any guard that lists an
  unresolved foreign key is rejected, also a guard that its codex keys meet;
  `signing/types.ts:67-68` says the method is needed when a guard requires a
  foreign-key signer.
* `nodeFailover.ts:74`: a tick that began under one configuration can end under
  another and vouch for a primary it did not visit.
* `nodeFailover.ts:141` with `:218-219`: a call entered under a custom node can be
  retried on a preset after the configuration changes.
* `nodeFailover.ts:21` gives node1 a gas limit of 2,000,000; `:5` says 1.6M.
* `failoverClient.ts:151` with `:169-171`: a TIMEOUT says how the last attempt
  ended, not both. `:248` calls `pollOne` single-shot; it polls repeatedly, and
  `:165-166`, the fallback on network errors, does not hold of it: the loop hides
  them, so a poll whose primary is down moves at its deadline
  (`RefusalIsFinal`), and the loop it leaves goes on for up to three minutes.
* `codexStrategy.ts:118` looks at codex keys only, `smartAccountAuth.ts:240-242`
  also at pasted ones: a branch the review calls satisfied can be refused.
* `codexStrategy.ts:171-172`: a guard that lists a key twice is not deduplicated.
* `guardUtils.ts` looks predicates up with `pred in` a table: inherited names
  count, so `constructor` gives a threshold that is no number instead of
  `UnknownPredicateError`. Its percentages, `Math.ceil(n * P)` in floating point,
  agree with exact rounding for every n up to 20,000.
* `status.cjs:21` is `requestKeys.forEach(onPoll)`, so `onPoll` gets the key's index
  where it takes an error. A throwing `onResult` makes later keys of the same
  response wait for another round.
* `client.d.cts:101` documents `onPoll` for `pollCreateSpv`; nothing calls it.
* `codexStrategy.ts:50` speaks of TIMEOUT only. `LandsOnce` needs a consumer that
  polls after any error of the submit, as `PollAfter` says in its run.
* An edit that drops a signer leaves a surplus slot that neither `isFullySigned` nor
  `verifyExistingSignatures` sees while it is empty; `VerifiedIsAccepted` is therefore
  about copies with a slot per signer.
* `core/crypto/`: an envelope whose IV or salt has an impossible length, or whose
  field is null, is a `WrongPasswordError`, although it is the string that is bad
  (`errors.ts:10-13`). `UnsupportedFormatError` is thrown nowhere: a version other than 2
  takes the V1 path. The advisory of `smartDecrypt` (`v2.ts:379`) says that a string was
  decoded before it has been tried.
* `KadenaWalletBuilder.ts` documents that a mnemonic of the wrong length throws; any
  length BIP39 knows passes. `"stoic"` falls into the koala branch of
  `createWalletPairFromMnemonic`.
* `KadenaWalletBuilder.ts:8` and `:146` say that koala's secret key is plain hex from
  `kadenaGenKeypairFromSeed`; that function returns an `EncryptedString` of the bytes, so
  it cannot go to nacl as it is.
* `kadenaChangePassword` refuses an empty old password, under which `kadenaEncrypt`
  encrypts. `kadenaGetPublicFromRootKey` takes a hardened index where its siblings harden
  it themselves. `kadenaKeyPairsFromRandom` draws a fresh seed per index.
* `format.ts`: `1,234` is accepted as 1.234 (`:79-80`) and `1.` passes;
  `formatDecimalForPact(formatEU("6081"))` is 6.081, `parseEU("0.125")` is 125, and
  `parseEU` goes through floating point, which long balances do not survive.

## 6. Not modelled, and why

Byte formats and cryptography (key derivation, ciphers, hashes, base64): pure
functions with no protocol; what the code relies on is their contract, which
`Envelopes` and `HdSecrets` state. Digit-by-digit formatting beyond the shapes of
`Amounts`; wording; typings; build and release tooling and the archived
baselines. Of the node: whatever it answers is a choice, except that a chain
takes a transaction once and checks signatures, guards, price floor and expiry.
`addSignatures`' branch by order has no caller. Connecting to a wallet, and lists
of transactions in one quicksign request, are left out. A caller that mutates its
transaction while `submit` runs sends another one at the retry: its
documentation makes that the caller's duty, and `Edit` keeps to it. `SwitchesOnEvidence`
is about the time before the first reconfiguration: the switches after it that rest on
captured URLs or on an overtaken probe are finding 4 and a note above, not a
property. `safeCreationTime` and `stoaGasMeta` take the clock as it is. The
components that are modelled in part or not at all are in `PROJECT.json` with
the reason.

## 7. Plan

Done: the modules above with their runs, and proofs of every safety property the
passing runs check. Left, in
order of weight:

1. An abstract submission contract that `FailoverClient` and `CodexStrategy` both
   implement: a job lands at most once and its verdict is final.
2. Lists of transactions in one quicksign request, with wallets that answer for some
   of them.

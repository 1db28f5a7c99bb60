# A TLA+ verification of osnmalib

osnmalib decodes and authenticates Galileo OSNMA data: it reassembles messages
from the pages that each satellite broadcasts, builds a chain of trust (Merkle
root, public key, KROOT, TESLA chain) and uses the TESLA keys, disclosed one
subframe (30 s) late, to verify the MACs over navigation data.

The library is sequential: one caller feeds pages, everything happens before the
call returns, nothing is stored. What is hard is not concurrency but *order*:
many satellites interleave, pages and subframes are lost, repeated and late,
keys arrive after what they verify, and every table is bounded. These
modules model that.

## 1. Inventory

Paths are relative to `src/`.

| Component | State | Operations | Hard because |
|---|---|---|---|
| `OsnmaAuthenticator` (`osnma_authenticator.cpp`) | status per satellite | `Reset`, `SetNavTimingMode`, `FeedRawInavPage`, `FeedPageParts`, `GetStatus`, `SetMerkleRoot`, `AddTrustedPublicKey` | it wires all parts: the navigation store sees every page, also those that OSNMA processing rejects |
| `OsnmaPageParser` | none | `Parse` | |
| `OsnmaSubframeAssembler` | a partial subframe per satellite, timing mode | `FeedParsedPage`, `Reset` | late and repeated pages, edge of the subframe in two timing modes |
| `OsnmaDsmAssembler` (`osnma_dsm.cpp`) | an assembly per satellite and DSM id | `FeedBlock`, `Reset` | length known only from block 0, retention times, out-of-order blocks |
| `OsnmaDsmContentDecoder` | none | `Decode` | |
| `OsnmaTrustStore`, `OsnmaMerkleVerifier`, `OsnmaKrootVerifier` | Merkle root, list of public keys, list of KROOTs | `SetMerkleRoot`, `AddTrustedPublicKey`, `AddPkr`, `AddKroot`, `Find...`, `Reset` | full lists reuse entry 0, renewals, ties |
| `OsnmaTeslaChain` | chain parameters, table of 128 keys | `InitializeFromKroot`, `VerifyAndStoreDisclosedKeyDetailed`, `GetKeyForTag`, `Reset` | losses, eviction, keys of other chains |
| `OsnmaMackProcessor`, `OsnmaMacLookupTable`, `OsnmaMacInputBuilder`, `OsnmaMacVerifier` | none | `ParseMack`, `FindEntry`, `BuildTagMessage`, `Verify` | twelve tables with two halves each, flexible slots, bit ranges that must be those of the signal, order of checks, which failure wins |
| `GalileoNavCandidateStore` (`galileo_nav_candidate.cpp`) | candidates per satellite and subframe | `FeedPage`, `Cleanup`, `FindForAdkd`, `Reset` | copies of copies, ages against COP, completion time, expiry |
| `OsnmaEngine` (`osnma_engine.cpp`) | 64 pending MACKs, authenticated objects, and all of the above | `FeedNavigationPage`, `ProcessSubframe`, `SetMerkleRoot`, `AddTrustedPublicKey`, `Reset` | what meets what, and when |
| `GalileoAuthDataFifo`, `GalileoInavDecoder` | output queues, the last row reported per satellite | `ObserveNavigation`, `PushCedStatus`, `PushTiming`, `Pop...`, `Reset` | several filters leave rows out as repeated; initial and authenticated rows of the same data take their times from elsewhere |
| `PegasusCsvWriter` | none; writes the output files | `Write` | it sorts what the queues hold |
| `OsnmaRawJsonReader` | reorder buffer | `ReadFile`, `FeedFileToAuthenticator` | window and cap decide what is flushed; missing pages must keep their place |
| `OsnmaOfficialTestVectorReader` | none | `ReadFile`, `FeedFileToAuthenticator` | satellites in rows, pages wanted in order of time; times computed from a civil date |
| `GnssTime` | none | differences, additions, weeks resolved from their low bits | rollovers |
| XML loader, command line, crypto, mbed TLS | files | | |

How they interact: a page goes from a reader to `FeedPageParts`, which gives it
to the engine's navigation store and, if it is intact, through the parser to
the subframe assembler. A complete subframe goes to `ProcessSubframe`:

1. expire navigation candidates and pending MACKs;
2. DSM part: assemble, decode, store a verified key or KROOT, start the chain;
3. MACK part: cut the MACK, queue it, verify its key; if the key is new,
   verify the queued MACKs of the subframe before and output what they
   authenticate.

What makes each component correct, and the properties that say so, is in
section 3; `PROJECT.json` lists the hazards with their lines.

## 2. Modules

| Module | Models | Correspondence |
|---|---|---|
| `TeslaChain` | `OsnmaTeslaChain` | `keys` is `keys_`, `root` the subframe of index 0; `InitializeFromKroot`, `VerifyAndStoreDisclosedKey`, `Reset` are the methods |
| `TrustStore` | `OsnmaTrustStore` and both verifiers | `pkr_list`, `kroot_list`; `AddPkr`, `AddKroot`, `AddTrustedPublicKey`, `SetMerkleRoot`, `Reset` |
| `TrustRenewal` | the trust store fed in time order | extends `TrustStore` with histories of what was accepted and, for keys, given up again |
| `DsmAssembler` | `OsnmaDsmAssembler` | `sats` is `sats_`; `FeedBlock` is the method; `heard` is a history of the blocks received, kept without the assemblies |
| `OsnmaEngine` | `OsnmaEngine`, `OsnmaMacVerifier`, key delays | extends `TeslaChain`, instantiates `TrustStore` as `Trust`; `ProcessSubframe` and `ProcessMack` are the two halves of `ProcessSubframe` |
| `Reception` | the engine in the input loop, all pages received | extends `OsnmaEngine`, states the fairness of the loop |
| `NavCandidateStore` | `GalileoNavCandidateStore` | `candidates` is `candidates_`; `FeedPage`, `Cleanup`, `FindComplete`, `FindTiming` |
| `NavigationOutput` | `ObserveNavigation`, `PushCedStatus`, `PushTiming`, `RegisterMacSuccesses`, `PegasusCsvWriter` | extends `NavCandidateStore`: the data that rows are built from is the store's; `rows` are the deques, `last_rx` and `last_auth` the arrays of those names, `files` what is written; `fell_back` is a history of the store |
| `GalileoTime` | `GnssTime` and the arithmetic on times of verifier, FIFO and readers | pure operators |
| `MacLookup` | `OsnmaMacLookupTable` | pure; the tables and the operators on them keep their names |
| `NavigationBits` | the bits read by `OsnmaMacInputBuilder` and `GalileoInavDecoder` | pure; a word is the set of its one bits, rows and fingerprints are made from it |
| `MackVerifier` | `OsnmaMackProcessor`, `OsnmaMacVerifier` | pure; `Verify` is the method, its result what the code returns |
| `TagVerification` | the way of navigation data from a satellite to the rows | composes `MackVerifier` with a sender and a channel that follow the signal definition, not the code |
| `SubframeAssembler` | page parser's verdict, `OsnmaSubframeAssembler`, `FeedPageParts` | `sats` is `sats_`; a chunk is named by the page it was sent in |
| `JsonReorder` | `OsnmaRawJsonReader` | `reorder_buffer`, `newest_seen`; one action per line; the pages flushed go to `pending`, `IsFedBefore` is the order they are called back in |
| `CivilCalendar`, `TestVectorReader` | `OsnmaOfficialTestVectorReader` | pure: the day numbers, the start time, the pages of a file and the order `IsDecodedBefore` of its loops |
| `InputPipeline` | the three ways into `FeedRawInavPage` | extends `JsonReorder`, `TestVectorReader`, `SubframeAssembler`: `FeedNextPage` takes the first of the pages that a reader still has to call back with (`pending`) and feeds the assembler |
| `TeslaChainProofs`, `TrustStoreProofs`, `DsmAssemblerProofs`, `OsnmaEngineProofs`, `NavCandidateStoreProofs`, `NavigationOutputProofs`, `InputPipelineProofs`, `TagVerificationProofs` | | theorems of the module of that name; `TrustStoreProofs` also those of `TrustRenewal`, `InputPipelineProofs` those of its readers and the assembler, and of the times and dates they reckon with (`GalileoTime`, `CivilCalendar`), `TagVerificationProofs` those of `MackVerifier` and `NavigationBits` |
| `MC...` | | instances for TLC |

Decisions that hold throughout:

* **Time** is counted in subframes where the code compares whole subframes
  (chain, trust store, DSM, engine, reorder buffer); in seconds where pages count
  (navigation store, subframe assembler); as week and second of the week where
  that representation matters (verifier, rows, test vectors).
* **Cryptography is symbolic.** A key is its chain and subframe; hashing a
  genuine key down gives the genuine older key and hashing anything else gives
  `Junk`. A signature is the key pair that made it. A MAC is the key and the data
  it was made with. What forgers cannot do is one named assumption,
  `SecrecyAssumption` of `OsnmaEngine`: of a tag made with a key that is still
  secret when its MACK was sent, only the satellites can be the author. Nothing
  is assumed of the authenticity of tags made with disclosed keys, or of the
  data in the navigation store.
* **ProcessSubframe is one call**, written as two actions with the subframe
  `in_hand` between them and nothing else enabled in that state.
* Statistics, log rows and the formatting of files are left out, and so are checks
  that no caller can fail (impossible ids, null pointers).
* Inside the engine, the DSM assembler and the navigation store appear as any
  result they could return; their own modules model how they compute it.
* Definitions that only a mutation test uses (for example `TrustAnyKey`) stand
  just before the definition they would replace: each is a plausible bug.

## 3. Runs

| Run | Properties | Shows |
|---|---|---|
| `trust` | `TrustTypeOK`, `KrootsAreAuthentic`, `LastVerifiedKrootActive`, `RenewedKeyTakesOver` | no KROOT without an authentic signature, whatever was evicted; the last verified KROOT is in force, also in a list that reuses entry 0, and a renewed key until that reuse gives up the very key |
| `dsm` | `MessagesAreWhole`, `HeardIsHandedOver`, `MessagesSpanRetention`, `BlocksUsedOnce`, `UsefulBlocksKept` | messages are whole, of one retention interval, and handed over as soon as all their blocks were heard; late blocks discard nothing |
| `engine` | `EngineTypeOK`, `AuthenticSound`, `KeyKnownOnlyAfterMack`, `VerifiedMacksLeave`, `UsableTagsAuthenticate`, `OldestOverwritten`, `ForwardOnly` | only transmitted data is called authentic; a MACK that comes when its key is known never counts; no usable tag is passed over, no copy of a MACK stays behind, a full table gives up its oldest MACK, keys become known in the order of the chain |
| `engine_renewal` | `KeySoundness`, `NeverCutOff`, `EvictionDropsOldest`, `DsmFailureReported`, `TeslaSpec`, `TrustStoreSpec` | only the chain's own keys are ever held; no loss, damage or eviction makes the receiver refuse a later genuine key; a DSM that failed is never reported as ordinary waiting; the engine implements the specifications of its parts while chains and keys change |
| `reception` | `EverythingAuthenticated` | liveness under good reception, DSM failures included |
| `nav` | `AgesAreTrue`, `FoundWithinCop`, `NoStaleWord`, `CompleteTimeOfContents`, `KeptForLifetime` | candidates hold words with true ages; a replaced word comes back only as a copy older than the partial timeout; what is found for a tag respects COP |
| `input` | `FedInOrder`, `EveryLineFedOnce`, `BufferBounded`, `HeardIsDelivered`, `SubframesAreGenuine` | from any source: no line is lost or fed twice, memory is bounded, pages come in the order of time within the limits; subframes are genuine and rightly dated, and those heard completely and in order are delivered |
| `macs` | `ReportedIsTransmitted`, `IntactTagsVerify`, `OwnDataInTwoSubframes`, `NewsIsNoticed` | whatever is altered on the way, what is reported as authentic was transmitted, value by value; one damaged tag does not stop the others; two subframes cover a satellite's own data; no change of a value is taken for a repetition |
| `output` | `AuthenticatedAfterInitial`, `LastInitialIsCurrent`, `AuthenticatedIsReported` | in the files every authenticated row repeats an initial row before it; the rows left out as repeated hide neither a change received (but for `fell_back`) nor data authenticated |

Three runs find a disagreement between the code and its own documentation:

* `late_purge` / `ExpiredOnlyWhenOld`: a subframe that arrives late purges
  younger pending MACKs as "expired" (`osnma_engine.cpp:762`), while the
  navigation store and the DSM assembler deliberately tolerate the same input.
* `slow_mac` / `SlowMacAuthenticated`: ADKD 12 tags are never verified, not even under good reception, as a MACK is only
  looked at when the key of the next subframe arrives (`osnma_engine.cpp:997`).
* `storm_flags` / `AuthenticatedRowRepeats`: for the same WT5 the initial ionosphere
  row has storm flag i as bit i (`galileo_auth_data_fifo.cpp:946`) and its "authenticated
  repetition" (`pegasus_nav_rows.h:34`) as bit 4 - i (`galileo_auth_data_fifo.cpp:570`).
  All other values of the two rows agree (`NewsIsNoticed`).

The sender of `TagVerification` is written from the signal definition: the
order and sizes of the fields of a word, the tags of a table by their PRND and
ADKD, all bits under the tag but word types and spare. So `macs` compares two
independent descriptions, and a wrong bit range of the code fails
`ReportedIsTransmitted` or `IntactTagsVerify` although sender and receiver could agree on
a wrong one.

### Bounds

* `trust`: two ids, two pairs, lists of two: the third message overwrites
  entry 0; three arrival times, so that two messages may come in one subframe.
* `dsm`: messages of one or two blocks and an undefined length, retention of
  three subframes, six subframes of input, of which a block may be two late.
* `engine`, `engine_renewal`, `late_purge`: three subframes (data, tags, key) and the data before them, a
  `SlowMacDelay` of two, one satellite, tables of up to three MACKs, lifetimes of two subframes.
  The key table of `engine_renewal` has two entries, so that the third key evicts the
  root; 128 in the code: nothing but "full" depends on the number.
  The properties relate at most three subframes. The input of `engine` may be one
  subframe late, that of `late_purge` two. Several satellites differ
  for the engine in the MACKs they add to the table, which repeated subframes do too.
* `reception`, `slow_mac`: four or five subframes, so that at least two have all of data, tags
  and key; lifetimes are longer than the slow MAC delay, as in the code. Two satellites in `reception`.
* `nav`: subframes of 2 s, at times chosen so that a copy of a copy exists and subframes
  can be missing; one CED word stands for five (they are all treated alike), with two
  contents; `PartialTimeout` (4) and `CompleteLifetime` (9) fall inside the range and relate to each
  other as in the code (240 s and 1200 s): a partial candidate expires while an older complete one
  is kept. One page may be late. The COP of tags is up to 4 (15 in the code).
* `output`: as `nav`, with WT1, WT2 and WT5 for the five CED words (carriers of the issue
  of data, and the one that the ephemeris and ionosphere share), two issues, two
  ionospheres, WT10 with and without GST-GPS parameters, input in order with losses. Data
  can be authenticated one subframe after its own (two in the code): a shorter delay
  allows all the orders that the code's does and more. The last two pages, at 12 and 17, are a WT6 that
  breaks the pair of timing words in the newest candidate, and one by when that candidate has expired
  (`PartialTimeout`) while an older complete one is still kept (`CompleteLifetime`).
* `input`: two pages for fifteen, two satellites and an impossible one. Live: two subframes,
  pages up to a subframe late, both timing modes. JSON: four lines, at most two of a
  subframe, in four subframes with a window of two, a buffer of three lines and
  lines up to three subframes late; lines with a null, a malformed page, a list that
  breaks off, a satellite that occurs twice. `FedInOrder` is about files within the
  limits (`Orderly`): with more than `MaxBuffered` lines per window the cap flushes early.
  Test vectors: files of up to two rows, of which some are inconsistent or too short, and
  names around leap days, a year without one, the end of a year and of a week.
* `macs`: all twelve tables and an unknown one, key and tag sizes that fit them and some
  that do not, both MAC functions; two satellites (the first and the last PRN), two issues
  of data, three start times, among them the last subframe before week 4096, where the week number
  outgrows 6, 8 and 12 bits at once. One thing is altered at a time: any field of any
  tag, two tags exchanged, MACSEQ, header, the age or one word of the data, and for one table
  every single bit of it. The MACK of table 28 has ten tags of 20 bits, more than the eight a
  result can hold. `storm_flags` is the same with one table.

Deadlock is checked except where a recording ends (`Reception`, `InputPipeline`).

### Fairness

Only `Reception` has any: weak fairness of its whole next-state relation. The
command line's loop feeds page after page until the input ends, and every
call returns; nothing is assumed about which page comes next.

## 4. Proofs

TLC checks small instances; the theorems hold for every value of the
constants that satisfies the named assumptions.

| Theorem | Module | States |
|---|---|---|
| `TeslaTypeCorrect`, `TeslaKeySoundness`, `TeslaNeverCutOff` | `TeslaChainProofs` | `TeslaSpec => []TeslaTypeOK`, `[]KeySoundness`, `[]NeverCutOff` |
| `TeslaForwardOnly`, `TeslaEvictionDropsOldest` | `TeslaChainProofs` | the two action properties of the chain |
| `TrustTypeCorrect`, `TrustKrootsAuthentic` | `TrustStoreProofs` | `TrustSpec => []TrustTypeOK`, `[]KrootsAreAuthentic` |
| `LastKrootInForce`, `RenewedKeyInForce` | `TrustStoreProofs` | `RenewalSpec => []LastVerifiedKrootActive`, `[]RenewedKeyTakesOver` |
| `EngineTypeCorrect` | `OsnmaEngineProofs` | `EngineSpec => []EngineTypeOK` |
| `EngineAuthenticSound`, `EngineKeyKnownOnlyAfterMack`, `EngineKeySoundness`, `EngineVerifiedMacksLeave` | `OsnmaEngineProofs` | `EngineSpec => []AuthenticSound`, `[]KeyKnownOnlyAfterMack`, `[]KeySoundness`, `[]VerifiedMacksLeave` |
| `EngineDsmFailureReported`, `EngineOldestOverwritten`, `EngineUsableTagsAuthenticate` | `OsnmaEngineProofs` | the action properties of the engine |
| `EngineRefinesTesla`, `EngineRefinesTrustStore` | `OsnmaEngineProofs` | `EngineSpec => TeslaSpec`, `EngineSpec => TrustStoreSpec` |
| `WholeMessages`, `HeardMessagesLeave`, `BoundedSpan` | `DsmAssemblerProofs` | `Spec => []MessagesAreWhole`, `[]HeardIsHandedOver`, `[]MessagesSpanRetention` |
| `BlockUsedOnce`, `UsefulBlocksSurvive` | `DsmAssemblerProofs` | the action properties of the assembler |
| `TrueAges`, `FoundIsWithinCop`, `NoReplacedWords` | `NavCandidateStoreProofs` | `NavSpec => []AgesAreTrue`, `[]FoundWithinCop`, `[]NoStaleWord` |
| `CompleteTimeFollowsContents`, `KeptForItsLifetime` | `NavCandidateStoreProofs` | the action properties of the candidate store |
| `InitialRowsComeFirst`, `LastRowsAreCurrent`, `AuthenticatedRowsAreExact` | `NavigationOutputProofs` | `OutputSpec => []AuthenticatedAfterInitial`, `[]LastInitialIsCurrent`, `[]AuthenticatedIsReported` |
| `SortingChangesNothing` | `NavigationOutputProofs` | `OutputSpec => [][WriteFiles => files' = rows]`: with input in order the rows of a file are in the order of their times already |
| `BufferStaysBounded`, `LinesAreFedOnce`, `PagesAreFedInOrder` | `InputPipelineProofs` | `Spec => []BufferBounded`, `[]EveryLineFedOnce`, `[]FedInOrder` |
| `DeliveredIsGenuine`, `HeardSubframesAreDelivered` | `InputPipelineProofs` | `Spec => []SubframesAreGenuine`, `[]HeardIsDelivered` |
| `WhatIsReportedWasTransmitted`, `IntactTagsAreVerified` | `TagVerificationProofs` | `Spec => []ReportedIsTransmitted`, `[]IntactTagsVerify` |
| `SuccessWasSent` | `TagVerificationProofs` | a success of `Verify` shows the tag sent at its place and data that agrees with the data transmitted in every bit under it, if no MAC was forged |
| `IntactTagIsReported` | `TagVerificationProofs` | a tag that arrives as it was sent, under its MACSEQ, is among the successes of `Verify`, or these are `MaxSuccess`; `IntactTagsVerify` adds that all of them then come before it |
| `NumbersAreRead`, `TaggedBitsDecideRows` | `TagVerificationProofs` | numbers are decoded as they were encoded; data that agrees in the bits under a tag gives the rows that were meant |
| `WeekIsResolved`, `TowIsResolved` | `InputPipelineProofs` | a week within half a period, a time within half a week of the reference is recovered |
| `SecondsAreAdded` | `InputPipelineProofs` | `AddSeconds` is inverse to `DiffSeconds` and gives valid times |
| `DaysAreCounted`, `DaysAreDates` | `InputPipelineProofs` | the difference of two day numbers is how many dates there are from the one to the other |

The inductive invariants, and why they are needed:

* `TeslaInv` = types, `KeySoundness` and "no keys before the root". A key is
  accepted when it hashes down to a held key; the held key is genuine by
  `KeySoundness`, and only a genuine key leads there. `ChainsAssumption`
  (`NoChain` is no chain) keeps `Junk` apart from keys.
* `TableInv` adds that stored indices are distinct and that an initialised table is
  never empty: without them nothing could be said of the entry that a new key
  overwrites, nor that a key to verify against exists.
* `TrustInv` adds that every public key of the list is loaded or a leaf of the
  tree: a KROOT is checked against a key of the list, not against the tree.
* `RenewalInv` relates the lists to the histories. The KROOT verified last is in the list, as a full
  list overwrites entry 0 only with something newer; it is found by its time and place, so the property is not
  inductive alone. `NewestKeysKept`: of a renewal that was not given up some key is stored, and no key of
  its id is younger. That a key stored later, of this id or another, takes the last one of them at entry 0 only is
  `StoredRenewalKept`; there `GivesUp` clears the history. `NoYoungerKey` is for the keys stored after that: none of
  the list is younger than the newest subframe.
* `EngineInv` = `TeslaInv`, and every queued MACK (`QueueGenuine`) and the
  subframe in hand (`HandGenuine`) come from a received subframe with its epoch and
  tags. `AuthenticSound` needs both ends: the key found for a tag is
  the chain's key of a subframe after the MACK's, by `TeslaInv`; so it was secret
  when the MACK was stamped, and `SecrecyAssumption` speaks of
  the tag, by `QueueGenuine`. A delay of at least one subframe (`BoundsAssumption`) is essential.
* `LateInv` adds `LateMacksOvertaken`: for a queued MACK that came late the table holds
  the key of the next subframe or a newer one. Keys only advance, so that key never
  counts as new again.
* `LeaveInv` adds `MacksLeave`, which is `VerifiedMacksLeave` in terms of the key table, to
  `EngineInv`: a new key empties the queue of the MACKs it is for, and these are
  recognised by their epoch, which is that of their subframe by `QueueGenuine`.
* `UsableTagsAuthenticate` is about one step and needs `EngineInv` only: the key that
  becomes known is that of the subframe after the tag's, so the loop over the queue reaches
  its MACK, and the verdicts of others do not end it.
* `DsmFailureReported` needs that the reason kept for the subframe in hand is none of those that mean waiting
  (`HandReason`); then each way out of `ProcessMack` replaces a waiting reason by it.
* `TypeInv` adds `EngineTypeOK`. Stating it for all constants showed two mistakes of the model that no
  run could show, as the runs number subframes without gaps: `now` may be a time at which
  only navigation data came, and loaded keys must be keys (`MaterialAssumption`).
* `RefinementInv` adds that every KROOT held was received as one, so the sizes a
  MACK is cut with are those of some chain, as `TeslaSpec` requires of its input.
* `DsmInv` says of an unfinished assembly that its blocks lie between its first block and its
  retention, but for lateness (`Timely`), and that it is not complete (`Unfinished`); and
  that no block is older than the last message of its key, but for lateness. The last is what
  `BlocksUsedOnce` needs: a new message cannot hold blocks of the one before.
  `HeardInv` compares the assembly with the history (`Agrees`): an unfinished assembly holds every block heard in its
  interval and the length its last block 0 declared, and what was heard is not whole (`NothingWholeHeard`).
* `NavInv` = types, `GoodStore` and `NoStaleWord`. `GoodStore` says of every candidate that it
  is stored under the subframe it was made in and last updated in, that the age of
  each word is the number of subframes since the word, and that complete data has a
  completion time. `AgesAreTrue` is about what is found; copies are made of other candidates.
  `NoStaleWord` is inductive with it: the newest candidate is a copy of the newest before it,
  unless that expired.
* `OutputInv` = `NavInv`, rows in order of their times (`GoodDeque`) and before them an initial row for each
  authenticated one (`InitialFirst`), and how `last_rx`, `last_auth` and the store relate to the rows. `SaidBefore`:
  everything the store holds was said by an initial row, which is what puts an initial row before the authenticated one.
  `SaidLast`: for a satellite that is not in `fell_back` the last of them said it. `SaidOnce`: authenticated rows and
  authenticated objects are the same data, though the rows left out are found by the last one alone.
  A file is sorted when it is written; since rows are in order and the sort is stable, the initial row stays in front.
* `PipelineInv` puts together `ReaderInv`, `AssemblerInv` and what is between them. `ReaderInv`: every line
  is buffered under its subframe or flushed in exactly one batch, by line number. `AssemblerInv`: every
  chunk of an active assembly was sent by its satellite in its subframe and place, what was heard and is not
  delivered is in the assembly, and as long as input is in order no assembly is ahead of the
  newest page. Between them, pages waiting to be fed have an index and a time that are those they were
  sent at.
* `OrderInv` adds that everything flushed is older than everything that may still come: in an
  orderly recording all waiting pages are of subframes a window older than the newest seen, and all that
  was fed is older still (`FedUpTo`). The pages of a batch are a set, `IsFedBefore` a total order of it.
* `TagInv` says that what is received comes from one MACK that was sent (`ComesFrom`) in which no MAC is
  forged (`Unforged`: each is one of those sent, at any place, or junk), and that what was returned is what
  `Verify` makes of it. `ReportedIsTransmitted` is then a matter of one call. The MACSEQ of an accepted MACK
  is the sender's, so sender and time are (`MacseqTellsSender`: the second of the week is in its 12 and 20 bits, but
  weeks 4096 apart are only told apart by the key). A tag's MAC is one of those sent; the counter in
  it tells the place, PRND and ADKD follow from the table, or for a flexible slot from MACSEQ
  (`SuccessWasSent`). So the data agrees in every bit under the tag; the fields of the signal that rows are made of
  lie at the sums of the sizes before them, under the tag, and are read back as they were written
  (`NumbersAreRead`), and the weeks and times cut to 6, 8 and 14 bits are resolved to those
  meant (`TaggedBitsDecideRows`).
  For `IntactTagsVerify` it adds that the satellites named by tags for others are others, and that all
  data has an age (`GoodData`). A tag as it was sent is then taken for what it was sent for
  (`IntactTagIsUsed`), its key is the one the sender used (`KeyOfTag`), and the bits `BuildNavData` cuts out of
  the words transmitted are those the sender puts under the tag (`TransmittedIsUnderTag`: word by word, each field lies
  wholly within a range or before it). So it matches; the tags that match have distinct places, the number of
  those before each is a one-to-one numbering (`RanksOfTags`), and a tag left out leaves exactly
  `MaxSuccess` (`FirstTags`).

`SubframesAreGenuine` for test vectors of any date rests on the calendar. Its reference
`GalileoDays` counts the dates between two dates, as a set (`DatesBetween`); `DaysAreDates` shows that
the formula of the code gives that number. The formula adds the days of years that begin in March and of
months (`NumberIsSum`); so it goes up with the months of a year (`MonthsGoUp`), with the years
(`WithinItsYear`), and by one from each date to the next (`DaysAreCounted`). It is therefore a
bijection from the dates between onto an interval of numbers.

`WeekIsResolved` and `TowIsResolved` say exactly how far a reference may be from what it
resolves, and `TimeInWeek` of the rows rests on them.

Three findings about the model came out of proving. `NoStaleWord` was stated without its second
alternative and is then false: with the timeouts of the code, the newest candidate of a
satellite expires after 240 s without complete data (`PARTIAL_TIMEOUT_S`) while an older complete one is kept for
1200 s (`COMPLETE_LIFETIME_S`), and the next candidate copies words that had been replaced
since. A tag's COP keeps such a word out, as the data of the tag did not change for that many
subframes. The bounds of `nav` are now such that the case occurs. `LastInitialIsCurrent` is false in the same case: the
store then holds what an earlier row said, and no row says that it is back; the satellites it
happened to are in `fell_back`, and the bounds of `output` now include it. And pages waiting to be
fed were a sequence sorted by a library operator; they are a set with an order now, as the prover
has no induction over sequences.

Assumptions used: the named `ASSUME`s of the modules, which TLC evaluates on every instance. They
say that sizes and times are numbers, that subframes begin at half minutes after the root of the chain, that what is
fed has the form the callers give it, and
`SecrecyAssumption`; a proof has no other hypothesis.

Only model-checked: liveness (`EverythingAuthenticated`), as the prover has no ENABLED, and the three findings
of section 3, which are counterexamples. Of `TagVerification`, two properties that hold for the
instances and not for every value of the constants: `OwnDataInTwoSubframes`, as sizes with fewer tags than the table has
slots may leave none for a satellite's own timing data, and
`NewsIsNoticed`, which relates altered data to a reference: a week altered by half
its period is resolved to one week or another as the reference is before or after a boundary. The type invariant of the chain, `TeslaTypeOK`, is proved and
not checked again by a run.

## 5. Not modelled

* The bit layouts of pages, DSM-KROOT and DSM-PKR; of a MACK, its parts and their number
  are modelled, not their bits. In `OsnmaEngine`, MACKs consist of tags that fit their slots: tables, flexible
  slots and MACSEQ are in `MackVerifier`.
* Collisions of fingerprints: two different contents have different fingerprints. Which
  bits a fingerprint covers is modelled (`NavigationBits`).
* The scaling of a field to its physical unit.
* In `NavigationOutput`, a row's data is the contents of the words that its fingerprint
  covers, and the satellite number in WT4 is taken to be the sender's; `NavigationBits` has
  the bits. That the decoder may refuse data is modelled in both.
* Whether a tag of 20 or 28 bits verifies: the last half byte of the computed MAC is compared
  as it is with a masked one (`osnma_mac_verifier.cpp:904`), so the outcome depends on bits
  of a hash; it is left open (`surplus`). `IntactTagsVerify` covers such tags where the surplus bits are zero.
* Of `GalileoAuthDataFifo`, the deques of decoded objects and of log rows, which
  are only appended to and popped.
* `auth_bits` (of a MACK that is queued twice the tags count twice), statistics and logs.
* The characters of JSON, CSV and hexadecimal text (what the readers make of a list with missing or broken
  parts is modelled), the exceptions of `std::stoi` for rows that are not numbers.
* The XML loader, the command line, mbed TLS: I/O and external code.

## 6. Plan

Done: the chain of trust, the TESLA chain, the engine, MAC look-up and
verification down to the bits of the words, both assemblers, the navigation store and
the rows reported from it, all readers of pages and the way from them to subframes; proofs
of every property of the runs `trust`, `dsm`, `engine`, `engine_renewal`, `nav`, `output` and `input`, and that what is
reported was transmitted and what arrives intact is reported.

Next:

1. The engine composed with `NavCandidateStore` and `DsmAssembler`; the abstract engine as
   what they refine.

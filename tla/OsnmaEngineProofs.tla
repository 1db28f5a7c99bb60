------------------------- MODULE OsnmaEngineProofs --------------------------
(* Proofs about OsnmaEngine: what the receiver calls authentic is what the *)
(* satellites transmitted, for every set of subframes that TESLA's premise *)
(* allows, every size of the tables and any lateness.                      *)
EXTENDS OsnmaEngine, TeslaChainProofs, FiniteSetTheorems, WellFoundedInduction

(***************************************************************************)
(* The inductive invariant.  The chain holds genuine keys (TeslaInv), the  *)
(* subframe in hand and every queued MACK come from a subframe that was    *)
(* received: with its epoch and its tags, so that TESLA's premise speaks   *)
(* of them when their key arrives.                                         *)
(***************************************************************************)
StemsFrom(entry, sf) ==
    sf.mack # NoMack /\ entry.epoch = sf.epoch /\ entry.tags = sf.mack.tags

QueueGenuine(queue) ==
    /\ queue = [s \in PendingSlots |-> queue[s]]
    /\ \A s \in PendingSlots : queue[s].valid => \E sf \in Subframes : StemsFrom(queue[s], sf)

HandGenuine == ~Idle => in_hand.subframe \in Subframes

EngineInv == TeslaInv /\ QueueGenuine(pending) /\ HandGenuine /\ AuthenticSound

-----------------------------------------------------------------------------
(* A tag that matches a key of the chain was made while the key was secret *)
(* (its delay is at least one subframe), so it is for data the satellite   *)
(* transmitted.                                                            *)
LEMMA MatchingTagGenuine ==
    ASSUME TeslaTypeOK, NEW ks,
           \A s \in Slots : ks[s].valid => ks[s].key = ChainKey(chain, root + ks[s].index),
           NEW sf \in Subframes, NEW entry, StemsFrom(entry, sf),
           NEW i \in 1 .. Len(entry.tags), TagMatches(ks, entry, entry.tags[i])
    PROVE  \E e \in NavEpochs :
              Transmitted[entry.tags[i].prnd, NavKind(entry.tags[i].adkd), e] = entry.tags[i].nav
<1> DEFINE tag == entry.tags[i]
           delay == KeyDelay(tag.adkd)
           slot == CHOOSE s \in SlotsForTag(ks, entry.epoch, tag.adkd) : TRUE
<1>1. sf.epoch \in Epochs /\ sf.epoch \in Nat
  BY SubframesAssumption, EpochsAssumption
<1>2. delay \in Nat \ {0}
  BY BoundsAssumption DEF KeyDelay
<1>3. slot \in SlotsForTag(ks, entry.epoch, tag.adkd)
  BY DEF TagMatches, HasKeyForTag
<1>4. tag.key = ks[slot].key /\ tag.key.chain \in Chains
  BY DEF TagMatches, MacMatches, GetKeyForTag
<1>5. /\ slot \in Slots /\ ks[slot].valid
      /\ DisclosureIndex(sf.epoch) >= 0
      /\ ks[slot].index = DisclosureIndex(sf.epoch) + delay
  BY <1>3 DEF SlotsForTag, StemsFrom
<1>6. initialized /\ DisclosureIndex(sf.epoch) = sf.epoch - root
  BY <1>5 DEF DisclosureIndex
<1>7. root \in Int
  BY DEF TeslaTypeOK
<1>8. tag.key = ChainKey(chain, root + ks[slot].index)
  BY <1>4, <1>5
<1>9. tag.key.epoch = root + ((sf.epoch - root) + delay)
  BY <1>5, <1>6, <1>8 DEF ChainKey
<1>10. tag.key.epoch > sf.epoch
  BY <1>1, <1>2, <1>7, <1>9
<1>11. sf.mack # NoMack /\ i \in 1 .. Len(sf.mack.tags) /\ tag = sf.mack.tags[i]
  BY DEF StemsFrom
<1>12. tag.nav = Transmitted[tag.prnd, NavKind(tag.adkd), sf.epoch - 1]
  BY <1>4, <1>10, <1>11, SecrecyAssumption
<1>13. sf.epoch - 1 \in NavEpochs
  BY <1>1 DEF NavEpochs
<1> QED
  BY <1>12, <1>13

(* So is everything that a run over queued MACKs authenticates.            *)
LEMMA AuthenticatedGenuine ==
    ASSUME TeslaTypeOK, NEW ks,
           \A s \in Slots : ks[s].valid => ks[s].key = ChainKey(chain, root + ks[s].index),
           NEW queue, QueueGenuine(queue), NEW epoch,
           NEW o \in Authenticated(ks, queue, Targets(queue, epoch))
    PROVE  \E e \in NavEpochs : Transmitted[o.prnd, NavKind(o.adkd), e] = o.content
<1>1. PICK s \in Targets(queue, epoch) : o \in AuthenticatedBy(ks, queue[s])
  BY DEF Authenticated
<1>2. s \in PendingSlots /\ queue[s].valid
  BY <1>1 DEF Targets
<1>3. PICK sf \in Subframes : StemsFrom(queue[s], sf)
  BY <1>2 DEF QueueGenuine
<1>4. PICK i \in Successes(ks, queue[s]) :
          o = NavObject(queue[s].tags[i].prnd, queue[s].tags[i].adkd, queue[s].tags[i].nav)
  BY <1>1 DEF AuthenticatedBy
<1>5. i \in 1 .. Len(queue[s].tags) /\ TagMatches(ks, queue[s], queue[s].tags[i])
  BY <1>4 DEF Successes, MatchingTags
<1>6. \A entry, j : StemsFrom(entry, sf) /\ j \in 1 .. Len(entry.tags)
                       /\ TagMatches(ks, entry, entry.tags[j]) =>
          \E e \in NavEpochs :
              Transmitted[entry.tags[j].prnd, NavKind(entry.tags[j].adkd), e] = entry.tags[j].nav
  BY MatchingTagGenuine
<1>7. \E e \in NavEpochs :
          Transmitted[queue[s].tags[i].prnd, NavKind(queue[s].tags[i].adkd), e]
              = queue[s].tags[i].nav
  BY <1>3, <1>5, <1>6
<1> QED
  BY <1>4, <1>7 DEF NavObject

-----------------------------------------------------------------------------
(* Cutting a MACK with the wrong sizes spoils its key, not its tags.       *)
LEMMA ParsedMack ==
    ASSUME NEW mack \in Macks
    PROVE  ParseMack(mack).tags = mack.tags /\ ParseMack(mack).key \in KeyValues
<1>1. mack.key \in KeyValues /\ Junk \in KeyValues
  BY EpochsAssumption DEF Macks, ReceivableKeys, KeyValues, ChainKey, Junk
<1> QED
  BY <1>1 DEF ParseMack, Macks

LEMMA CleanedQueueGenuine ==
    ASSUME NEW queue, QueueGenuine(queue), NEW epoch
    PROVE  QueueGenuine(CleanPending(queue, epoch))
  BY DEF QueueGenuine, CleanPending, NoEntry, StemsFrom

LEMMA AddedMackGenuine ==
    ASSUME NEW queue, QueueGenuine(queue), NEW sf \in Subframes, NEW entry, StemsFrom(entry, sf)
    PROVE  QueueGenuine(AddPendingMack(queue, entry))
<1> DEFINE slot == SlotForMack(queue)
           added == [queue EXCEPT ![slot] = entry]
<1> HIDE DEF slot
<1>1. queue = [s \in PendingSlots |-> queue[s]]
  BY DEF QueueGenuine
<1>2. added = [s \in PendingSlots |-> IF s = slot THEN entry ELSE queue[s]]
  BY <1>1
<1>3. \A s \in PendingSlots : added[s].valid => \E r \in Subframes : StemsFrom(added[s], r)
  BY <1>2 DEF QueueGenuine
<1>4. QueueGenuine(added)
  BY <1>2, <1>3 DEF QueueGenuine
<1> QED
  BY <1>4 DEF AddPendingMack, slot

-----------------------------------------------------------------------------
LEMMA SameTeslaInv == TeslaInv /\ UNCHANGED teslaVars => TeslaInv'
  BY NextTeslaInv

(* The DSM part changes the chain only by starting it from a KROOT.        *)
LEMMA DsmTeslaInv ==
    ASSUME TeslaInv, NEW sf \in Subframes, NEW reason, HandleDsm(sf.dsm, sf.epoch, reason)
    PROVE  TeslaInv'
<1>1. CASE UNCHANGED teslaVars
  BY <1>1, SameTeslaInv
<1>2. CASE sf.dsm.type = "Kroot" /\ HandleKroot(sf.dsm.kroot, sf.epoch, reason)
  <2>1. sf.dsm \in Dsms
    BY SubframesAssumption
  <2>2. PICK kroot \in Trust!SignedKroots : sf.dsm = KrootDsm(kroot)
    BY <1>2, <2>1 DEF Dsms, NoDsm, BadDsm, PkrDsm, KrootDsm
  <2>3. sf.dsm.kroot.content \in Kroots
    BY <2>2 DEF KrootDsm, Trust!SignedKroots
  <2>4. CASE InitializeFromKroot(sf.dsm.kroot.content)
    BY <2>3, <2>4, InitializeTeslaInv
  <2> QED
    BY <1>1, <1>2, <2>4 DEF HandleKroot, StartChain
<1> QED
  BY <1>1, <1>2 DEF HandleDsm, KeepTrust

LEMMA ProcessSubframeInv ==
    ASSUME EngineInv, NEW sf \in Subframes, ProcessSubframe(sf)
    PROVE  EngineInv'
<1>1. TeslaInv'
  <2>1. CASE KeepTrust
    BY <2>1, SameTeslaInv DEF EngineInv, KeepTrust
  <2>2. CASE \E reason : HandleDsm(sf.dsm, sf.epoch, reason)
    BY <2>2, DsmTeslaInv DEF EngineInv
  <2> QED
    BY <2>1, <2>2 DEF ProcessSubframe
<1>2. QueueGenuine(pending')
  BY CleanedQueueGenuine DEF ProcessSubframe, EngineInv
<1>3. in_hand' = in_hand \/ in_hand'.subframe = sf
  BY DEF ProcessSubframe, Continue
<1>4. AuthenticSound'
  BY DEF ProcessSubframe, EngineInv, AuthenticSound
<1>5. (QueueGenuine(pending))'
  BY <1>2 DEF QueueGenuine, StemsFrom
<1> QED
  BY <1>1, <1>3, <1>4, <1>5 DEF EngineInv, HandGenuine, Idle

(* The MACKs that stay queued after a run are among those queued before.   *)
LEMMA VerifyQueuedInv ==
    ASSUME TeslaTypeOK, AuthenticSound, NEW ks,
           \A s \in Slots : ks[s].valid => ks[s].key = ChainKey(chain, root + ks[s].index),
           NEW queue, QueueGenuine(queue), NEW epoch, NEW reason,
           VerifyQueued(queue, epoch, ks, reason)
    PROVE  QueueGenuine(pending') /\ AuthenticSound'
<1>1. QueueGenuine(pending')
  BY DEF VerifyQueued, QueueGenuine, NoEntry, StemsFrom
<1>2. authenticated_objects' =
          authenticated_objects \cup Authenticated(ks, queue, Targets(queue, epoch))
  BY DEF VerifyQueued
<1>3. \A o \in Authenticated(ks, queue, Targets(queue, epoch)) :
          \E e \in NavEpochs : Transmitted[o.prnd, NavKind(o.adkd), e] = o.content
  BY AuthenticatedGenuine
<1> QED
  BY <1>1, <1>2, <1>3 DEF AuthenticSound

LEMMA UseMackInv ==
    ASSUME EngineInv, NEW sf \in Subframes, sf.mack # NoMack, NEW reason, UseMack(sf, reason)
    PROVE  TeslaInv' /\ QueueGenuine(pending') /\ AuthenticSound'
<1> DEFINE mack == ParseMack(sf.mack)
           disclosed == Disclosure(mack, sf.epoch)
           status == DisclosedKeyStatus(disclosed)
           late == HasKeyForTag(keys, sf.epoch, "InavCed")
           entry == Entry(sf.prn, sf.epoch, mack, late)
           queue == AddPendingMack(pending, entry)
<1>1. sf.mack \in Macks /\ sf.epoch \in Nat
  BY SubframesAssumption, EpochsAssumption
<1>2. mack.tags = sf.mack.tags /\ mack.key \in KeyValues
  BY <1>1, ParsedMack
<1>3. StemsFrom(entry, sf)
  BY <1>2 DEF Entry, StemsFrom
<1>4. QueueGenuine(queue)
  BY <1>3, AddedMackGenuine DEF EngineInv
<1>5. VerifyAndStoreDisclosedKey(disclosed) /\ disclosed.epoch \in Nat /\ disclosed.key \in KeyValues
  BY <1>1, <1>2 DEF UseMack, Disclosure
<1>6. TeslaInv'
  BY <1>5, DiscloseTeslaInv DEF EngineInv
<1>7. chain' = chain /\ root' = root
  BY <1>5 DEF VerifyAndStoreDisclosedKey
<1>8. \A s \in Slots : keys'[s].valid => keys'[s].key = ChainKey(chain, root + keys'[s].index)
  BY <1>6, <1>7 DEF TeslaInv, KeySoundness, KnownSlots, ChainKey
<1>9. CASE VerifyQueued(queue, sf.epoch, keys', reason)
  BY <1>4, <1>6, <1>8, <1>9, VerifyQueuedInv DEF EngineInv, TeslaInv
<1>10. CASE pending' = queue /\ UNCHANGED authenticated_objects
  BY <1>4, <1>6, <1>10 DEF EngineInv, AuthenticSound
<1> QED
  BY <1>9, <1>10 DEF UseMack

LEMMA ProcessMackInv == EngineInv /\ ProcessMack => EngineInv'
<1> SUFFICES ASSUME EngineInv, ProcessMack PROVE EngineInv'
  OBVIOUS
<1>1. in_hand.subframe \in Subframes /\ Idle'
  BY DEF EngineInv, HandGenuine, ProcessMack, Idle
<1>2. CASE UNCHANGED <<teslaVars, pending, authenticated_objects>>
  BY <1>1, <1>2, SameTeslaInv DEF EngineInv, AuthenticSound, HandGenuine, QueueGenuine, StemsFrom
<1>3. CASE in_hand.subframe.mack # NoMack /\ UseMack(in_hand.subframe, in_hand.reason)
  <2>1. TeslaInv' /\ QueueGenuine(pending') /\ AuthenticSound'
    BY <1>1, <1>3, UseMackInv
  <2> QED
    BY <1>1, <2>1 DEF EngineInv, HandGenuine, QueueGenuine, StemsFrom
<1> QED
  BY <1>2, <1>3 DEF ProcessMack

-----------------------------------------------------------------------------
LEMMA EmptyQueueGenuine == QueueGenuine([s \in PendingSlots |-> NoEntry])
  BY DEF QueueGenuine, NoEntry

LEMMA InitEngineInv == EngineInit => EngineInv
  BY InitTeslaInv, EmptyQueueGenuine DEF EngineInit, EngineInv, HandGenuine, Idle, AuthenticSound

LEMMA RestartInv == Restart => EngineInv'
<1> SUFFICES ASSUME Restart PROVE EngineInv'
  OBVIOUS
<1>1. TeslaInv'
  BY ResetTeslaInv DEF Restart
<1>2. (QueueGenuine(pending))'
  BY EmptyQueueGenuine DEF Restart, QueueGenuine, NoEntry
<1> QED
  BY <1>1, <1>2 DEF Restart, EngineInv, HandGenuine, Idle, AuthenticSound

(* Steps that touch neither the chain nor the queue nor the output.        *)
LEMMA UntouchedInv ==
    EngineInv /\ UNCHANGED <<teslaVars, pending, authenticated_objects, in_hand>> => EngineInv'
  BY SameTeslaInv DEF EngineInv, AuthenticSound, HandGenuine, Idle, QueueGenuine, StemsFrom

LEMMA NextEngineInv == EngineInv /\ [EngineNext]_engineVars => EngineInv'
<1> SUFFICES ASSUME EngineInv, [EngineNext]_engineVars PROVE EngineInv'
  OBVIOUS
<1>1. CASE Restart
  BY <1>1, RestartInv
<1>2. CASE LoadMaterial
  BY <1>2, UntouchedInv DEF LoadMaterial
<1>3. CASE \E p \in Prns, e \in NavEpochs, found \in [NavKinds -> NavContents \cup {NoNav}] :
              FeedNavigationPage(p, e, found)
  BY <1>3, UntouchedInv DEF FeedNavigationPage
<1>4. CASE ReceiveSubframe
  BY <1>4, ProcessSubframeInv DEF ReceiveSubframe
<1>5. CASE ProcessMack
  BY <1>5, ProcessMackInv
<1>6. CASE UNCHANGED engineVars
  BY <1>6, UntouchedInv DEF engineVars
<1> QED
  BY <1>1, <1>2, <1>3, <1>4, <1>5, <1>6 DEF EngineNext

(* What the receiver calls authentic, the satellites did transmit: a tag   *)
(* counts only with a key that was still secret in its subframe, whatever  *)
(* is received, in whatever order, and however the tables overflow.        *)
THEOREM EngineAuthenticSound == EngineSpec => []AuthenticSound
<1>1. EngineInv => AuthenticSound
  BY DEF EngineInv
<1> QED
  BY <1>1, InitEngineInv, NextEngineInv, PTL DEF EngineSpec

(* The keys that the engine verifies MACs with are genuine.                *)
THEOREM EngineKeySoundness == EngineSpec => []KeySoundness
<1>1. EngineInv => KeySoundness
  BY DEF EngineInv, TeslaInv
<1> QED
  BY <1>1, InitEngineInv, NextEngineInv, PTL DEF EngineSpec

-----------------------------------------------------------------------------
(***************************************************************************)
(* The engine uses its trust store as the store's specification says.      *)
(***************************************************************************)
LEMMA InitTrust == EngineInit => Trust!TrustInit
  BY DEF EngineInit

(* A DSM changes the trust store as TrustStore says.                       *)
LEMMA DsmTrustStep ==
    ASSUME NEW sf \in Subframes, NEW reason, HandleDsm(sf.dsm, sf.epoch, reason)
    PROVE  [Trust!TrustNext]_trustStore
<1>1. sf.dsm \in Dsms /\ sf.epoch \in Epochs
  BY SubframesAssumption
<1>2. CASE sf.dsm.type = "Pkr" /\ HandlePkr(sf.dsm.pkr, sf.epoch, reason)
  <2>1. PICK pkr \in Trust!Pkrs : sf.dsm = PkrDsm(pkr)
    BY <1>1, <1>2 DEF Dsms, NoDsm, BadDsm, PkrDsm, KrootDsm
  <2>2. sf.dsm.pkr \in Trust!Pkrs
    BY <2>1 DEF PkrDsm
  <2> QED
    BY <1>1, <1>2, <2>2 DEF HandlePkr, Trust!TrustNext, Trust!ReceivePkr
<1>3. CASE sf.dsm.type = "Kroot" /\ HandleKroot(sf.dsm.kroot, sf.epoch, reason)
  <2>1. PICK kroot \in Trust!SignedKroots : sf.dsm = KrootDsm(kroot)
    BY <1>1, <1>3 DEF Dsms, NoDsm, BadDsm, PkrDsm, KrootDsm
  <2>2. sf.dsm.kroot \in Trust!SignedKroots
    BY <2>1 DEF KrootDsm
  <2> QED
    BY <1>1, <1>3, <2>2 DEF HandleKroot, Trust!TrustNext, Trust!ReceiveKroot
<1> QED
  BY <1>2, <1>3 DEF HandleDsm, KeepTrust

LEMMA NextTrust == [EngineNext]_engineVars => [Trust!TrustNext]_trustStore
<1> SUFFICES ASSUME [EngineNext]_engineVars PROVE [Trust!TrustNext]_trustStore
  OBVIOUS
<1>1. CASE Restart
  BY <1>1 DEF Restart, Trust!TrustNext
<1>2. CASE LoadMaterial
  BY <1>2 DEF LoadMaterial, Trust!TrustNext
<1>3. CASE \E p \in Prns, e \in NavEpochs, found \in [NavKinds -> NavContents \cup {NoNav}] :
              FeedNavigationPage(p, e, found)
  BY <1>3 DEF FeedNavigationPage
<1>4. CASE ReceiveSubframe
  BY <1>4, DsmTrustStep DEF ReceiveSubframe, ProcessSubframe, KeepTrust
<1>5. CASE ProcessMack
  BY <1>5 DEF ProcessMack
<1>6. CASE UNCHANGED engineVars
  BY <1>6 DEF engineVars
<1> QED
  BY <1>1, <1>2, <1>3, <1>4, <1>5, <1>6 DEF EngineNext

(* Every step of the engine is a step of its trust store's specification,  *)
(* or leaves the store alone.                                              *)
THEOREM EngineRefinesTrustStore == EngineSpec => TrustStoreSpec
<1>1. Trust!trustVars = trustStore
  BY DEF Trust!trustVars, trustStore
<1>2. [EngineNext]_engineVars => [Trust!TrustNext]_(Trust!trustVars)
  BY <1>1, NextTrust DEF Trust!trustVars, trustStore
<1> QED
  BY InitTrust, <1>2, PTL DEF EngineSpec, TrustStoreSpec, Trust!TrustSpec

-----------------------------------------------------------------------------
(***************************************************************************)
(* And its TESLA chain as the chain's specification says.  That takes an   *)
(* invariant of the trust store: the sizes a MACK is cut with are those of *)
(* some chain, because every KROOT held was received as one.               *)
(***************************************************************************)
KrootsReceived ==
    /\ kroot_list = [s \in Trust!KrootSlots |-> kroot_list[s]]
    /\ \A s \in Trust!KrootSlots : kroot_list[s].valid => kroot_list[s].kroot \in Trust!SignedKroots

RefinementInv == EngineInv /\ KrootsReceived

LEMMA TrustedChainKnown ==
    ASSUME KrootsReceived, Trust!HasTrustedKroot
    PROVE  TrustedChain \in Chains
<1>1. PICK s \in Trust!KrootSlots : kroot_list[s].valid /\ Trust!GetTrustedKroot = kroot_list[s].kroot
  BY DEF Trust!HasTrustedKroot, Trust!GetTrustedKroot, Trust!FindLatestVerifiedKroot, Trust!NewestOf
<1>2. Trust!GetTrustedKroot.content \in Kroots
  BY <1>1 DEF KrootsReceived, Trust!SignedKroots
<1> QED
  BY <1>2 DEF TrustedChain, Kroots, Kroot

LEMMA TrustStepKrootsReceived ==
    KrootsReceived /\ [Trust!TrustNext]_trustStore => KrootsReceived'
<1> SUFFICES ASSUME KrootsReceived, [Trust!TrustNext]_trustStore PROVE KrootsReceived'
  OBVIOUS
<1>1. CASE UNCHANGED kroot_list
  BY <1>1 DEF KrootsReceived
<1>2. CASE Trust!Reset
  BY <1>2 DEF KrootsReceived, Trust!Reset, Trust!EmptySlot
<1>3. ASSUME NEW kroot \in Trust!SignedKroots, NEW t \in Epochs, NEW s \in Trust!KrootSlots,
             kroot_list' = [kroot_list EXCEPT ![s] = [valid |-> TRUE, time |-> t, kroot |-> kroot]]
      PROVE  KrootsReceived'
  <2>1. kroot_list' = [r \in Trust!KrootSlots |->
                          IF r = s THEN [valid |-> TRUE, time |-> t, kroot |-> kroot]
                                   ELSE kroot_list[r]]
    BY <1>3 DEF KrootsReceived
  <2> QED
    BY <2>1 DEF KrootsReceived
<1>4. CASE Trust!ReceiveKroot
  BY <1>1, <1>3, <1>4 DEF Trust!ReceiveKroot, Trust!AddKroot
<1>5. CASE Trust!SetMerkleRoot \/ Trust!LoadKey \/ Trust!ReceivePkr
  BY <1>1, <1>5 DEF Trust!SetMerkleRoot, Trust!LoadKey, Trust!AddTrustedPublicKey,
                    Trust!ReceivePkr, Trust!AddPkr
<1> QED
  BY <1>1, <1>2, <1>4, <1>5 DEF Trust!TrustNext, trustStore

LEMMA InitRefinementInv == EngineInit => RefinementInv
  BY InitEngineInv, InitTrust
  DEF RefinementInv, KrootsReceived, Trust!TrustInit, Trust!EmptySlot

LEMMA NextRefinementInv == RefinementInv /\ [EngineNext]_engineVars => RefinementInv'
  BY NextEngineInv, NextTrust, TrustStepKrootsReceived DEF RefinementInv

(* A DSM changes the chain as TeslaChain says.                             *)
LEMMA DsmTeslaStep ==
    ASSUME NEW sf \in Subframes, NEW reason, HandleDsm(sf.dsm, sf.epoch, reason)
    PROVE  [TeslaNext]_teslaVars
<1>1. CASE sf.dsm.type = "Kroot" /\ HandleKroot(sf.dsm.kroot, sf.epoch, reason)
  <2>1. sf.dsm \in Dsms
    BY SubframesAssumption
  <2>2. PICK kroot \in Trust!SignedKroots : sf.dsm = KrootDsm(kroot)
    BY <1>1, <2>1 DEF Dsms, NoDsm, BadDsm, PkrDsm, KrootDsm
  <2>3. sf.dsm.kroot.content \in Kroots
    BY <2>2 DEF KrootDsm, Trust!SignedKroots
  <2> QED
    BY <1>1, <2>3 DEF HandleKroot, StartChain, TeslaNext, InitializeOnce
<1> QED
  BY <1>1 DEF HandleDsm, KeepTrust

(* A MACK with a trusted KROOT changes the chain as TeslaChain says.       *)
LEMMA MackTeslaStep ==
    ASSUME KrootsReceived, Trust!HasTrustedKroot, NEW sf \in Subframes, sf.mack # NoMack,
           NEW reason, UseMack(sf, reason)
    PROVE  TeslaNext
<1>1. sf.mack \in Macks /\ sf.epoch \in Epochs
  BY SubframesAssumption
<1>2. ParseMack(sf.mack).key \in ReceivableKeys
  BY <1>1 DEF ParseMack, Macks, ReceivableKeys
<1>3. VerifyAndStoreDisclosedKey([epoch |-> sf.epoch, key |-> ParseMack(sf.mack).key,
                                  key_size |-> KeySize[TrustedChain]])
  BY DEF UseMack, Disclosure
<1>4. Disclose
  BY <1>1, <1>2, <1>3, TrustedChainKnown DEF Disclose
<1> QED
  BY <1>4 DEF TeslaNext

LEMMA NextTesla == RefinementInv /\ [EngineNext]_engineVars => [TeslaNext]_teslaVars
<1> SUFFICES ASSUME RefinementInv, [EngineNext]_engineVars PROVE [TeslaNext]_teslaVars
  OBVIOUS
<1>1. CASE Restart
  BY <1>1 DEF Restart, TeslaNext
<1>2. CASE LoadMaterial
  BY <1>2 DEF LoadMaterial
<1>3. CASE \E p \in Prns, e \in NavEpochs, found \in [NavKinds -> NavContents \cup {NoNav}] :
              FeedNavigationPage(p, e, found)
  BY <1>3 DEF FeedNavigationPage
<1>4. CASE ReceiveSubframe
  BY <1>4, DsmTeslaStep DEF ReceiveSubframe, ProcessSubframe, KeepTrust
<1>5. CASE ProcessMack
  <2>1. in_hand.subframe \in Subframes
    BY <1>5 DEF RefinementInv, EngineInv, HandGenuine, ProcessMack
  <2> QED
    BY <1>5, <2>1, MackTeslaStep DEF ProcessMack, RefinementInv
<1>6. CASE UNCHANGED engineVars
  BY <1>6 DEF engineVars
<1> QED
  BY <1>1, <1>2, <1>3, <1>4, <1>5, <1>6 DEF EngineNext

(* Every step of the engine is a step of its TESLA chain's specification,  *)
(* or leaves the chain alone: what is proved of the chain holds in the     *)
(* engine.                                                                 *)
THEOREM EngineRefinesTesla == EngineSpec => TeslaSpec
<1>1. EngineInit => TeslaInit
  BY DEF EngineInit
<1> QED
  BY <1>1, InitRefinementInv, NextRefinementInv, NextTesla, PTL DEF EngineSpec, TeslaSpec

-----------------------------------------------------------------------------
(***************************************************************************)
(* Late MACKs are never verified.  A MACK that is late when it is queued   *)
(* finds the key of the next subframe, or a later one, in the table; from  *)
(* then on the table always holds such a key (the newest key is never      *)
(* evicted), so the key of the next subframe never counts as new again.    *)
(***************************************************************************)
KnownBeyond(e) == initialized /\ \E t \in KnownSlots : keys[t].index >= e + 1 - root

LateMacksOvertaken ==
    \A s \in PendingSlots : pending[s].valid /\ pending[s].late => KnownBeyond(pending[s].epoch)

LateInv == EngineInv /\ LateMacksOvertaken /\ KeyKnownOnlyAfterMack

(* A queued MACK is of a subframe.                                         *)
LEMMA QueuedEpoch ==
    ASSUME NEW queue, QueueGenuine(queue), NEW s \in PendingSlots, queue[s].valid
    PROVE  queue[s].epoch \in Nat
  BY SubframesAssumption, EpochsAssumption DEF QueueGenuine, StemsFrom

LEMMA StartKnownBeyond ==
    ASSUME NEW sf \in Subframes, NEW reason, HandleDsm(sf.dsm, sf.epoch, reason), NEW e,
           KnownBeyond(e)
    PROVE  KnownBeyond(e)'
  BY DEF HandleDsm, KeepTrust, HandlePkr, HandleKroot, StartChain, KnownBeyond, KnownSlots, teslaVars

(* A key that is known beyond an epoch stays known.                        *)
LEMMA DiscloseKnownBeyond ==
    ASSUME TeslaInv, NEW m, m.epoch \in Nat, VerifyAndStoreDisclosedKey(m), NEW e \in Int,
           KnownBeyond(e)
    PROVE  KnownBeyond(e)'
<1> DEFINE i == DisclosureIndex(m.epoch)
<1>1. UNCHANGED <<initialized, chain, root>>
  BY DEF VerifyAndStoreDisclosedKey
<1>2. CASE UNCHANGED keys
  BY <1>1, <1>2 DEF KnownBeyond, KnownSlots
<1>3. CASE DisclosedKeyStatus(m) = "VerifiedNew" /\ StoreVerifiedKey(i, m.key)
  <2>1. i \in Nat /\ ~IsSameOrOlder(i)
    BY <1>3, NewKeyVerified DEF TeslaInv, TeslaTypeOK
  <2>2. PICK t \in KnownSlots : keys[t].index >= e + 1 - root
    BY DEF KnownBeyond
  <2>3. t \in Slots /\ keys[t].valid /\ keys[t].index \in Nat /\ root \in Int
    BY <2>2 DEF KnownSlots, TeslaInv, TeslaTypeOK
  <2>4. i > keys[t].index
    BY <2>1, <2>2, <2>3 DEF IsSameOrOlder
  <2>5. \/ keys'[t] = keys[t]
        \/ keys'[t] = [valid |-> TRUE, index |-> i, key |-> m.key]
    BY <1>3, <2>3, StoreFrame DEF TeslaInv, TeslaTypeOK
  <2>6. keys'[t].valid /\ keys'[t].index >= e + 1 - root
    BY <2>1, <2>2, <2>3, <2>4, <2>5
  <2> QED
    BY <1>1, <2>3, <2>6 DEF KnownBeyond, KnownSlots
<1> QED
  BY <1>2, <1>3 DEF VerifyAndStoreDisclosedKey

(* While a MACK of subframe e is overtaken, the key of e + 1 is not new.   *)
LEMMA OvertakenNotVerified ==
    ASSUME TeslaInv, NEW m, m.epoch \in Nat, DisclosedKeyStatus(m) = "VerifiedNew"
    PROVE  ~KnownBeyond(m.epoch - 1)
<1>1. /\ DisclosureIndex(m.epoch) = m.epoch - root
      /\ ~IsSameOrOlder(DisclosureIndex(m.epoch))
      /\ root \in Int
  BY NewKeyVerified DEF TeslaInv, TeslaTypeOK
<1>2. \A t \in KnownSlots : keys[t].index \in Int
  BY DEF TeslaInv, TeslaTypeOK, KnownSlots
<1> QED
  BY <1>1, <1>2 DEF KnownBeyond, IsSameOrOlder

(* If the key for a tag is known, a later key is.                          *)
LEMMA LateMackOvertaken ==
    ASSUME TeslaInv, NEW e \in Nat, HasKeyForTag(keys, e, "InavCed")
    PROVE  KnownBeyond(e)
<1>1. PICK s \in Slots : /\ keys[s].valid
                         /\ DisclosureIndex(e) >= 0
                         /\ keys[s].index = DisclosureIndex(e) + 1
  BY DEF HasKeyForTag, SlotsForTag, KeyDelay
<1>2. initialized /\ DisclosureIndex(e) = e - root /\ root \in Int
  BY <1>1 DEF DisclosureIndex, TeslaInv, TeslaTypeOK
<1> QED
  BY <1>1, <1>2 DEF KnownBeyond, KnownSlots

(* MACKs that leave the queue do not break LateMacksOvertaken.             *)
LEMMA OvertakenAfter ==
    ASSUME NEW queue,
           \A s \in PendingSlots : pending'[s].valid => pending'[s] = queue[s],
           \A s \in PendingSlots : queue[s].valid /\ queue[s].late =>
              \E e \in Int : e = queue[s].epoch /\ KnownBeyond(e)'
    PROVE  LateMacksOvertaken'
  BY DEF LateMacksOvertaken, KnownBeyond

LEMMA UseMackLate ==
    ASSUME LateInv, NEW sf \in Subframes, sf.mack # NoMack, NEW reason, UseMack(sf, reason)
    PROVE  LateMacksOvertaken' /\ KeyKnownOnlyAfterMack'
<1> DEFINE mack == ParseMack(sf.mack)
           disclosed == Disclosure(mack, sf.epoch)
           status == DisclosedKeyStatus(disclosed)
           late == HasKeyForTag(keys, sf.epoch, "InavCed")
           entry == Entry(sf.prn, sf.epoch, mack, late)
           queue == AddPendingMack(pending, entry)
<1>1. TeslaInv /\ sf.epoch \in Nat
  BY SubframesAssumption, EpochsAssumption DEF LateInv, EngineInv
<1>2. VerifyAndStoreDisclosedKey(disclosed) /\ disclosed.epoch = sf.epoch
  BY DEF UseMack, Disclosure
<1>3. entry.epoch = sf.epoch /\ (entry.late => KnownBeyond(entry.epoch))
  BY <1>1, LateMackOvertaken DEF Entry
<1>4. \A s \in PendingSlots : queue[s] = entry \/ queue[s] = pending[s]
  BY DEF AddPendingMack, LateInv, EngineInv, QueueGenuine
<1>5. \A s \in PendingSlots : queue[s].valid /\ queue[s].late =>
          queue[s].epoch \in Nat /\ KnownBeyond(queue[s].epoch)
  <2> SUFFICES ASSUME NEW s \in PendingSlots, queue[s].valid, queue[s].late
               PROVE  queue[s].epoch \in Nat /\ KnownBeyond(queue[s].epoch)
    OBVIOUS
  <2>1. CASE queue[s] = entry
    BY <1>1, <1>3, <2>1
  <2>2. CASE queue[s] = pending[s]
    BY <2>2, QueuedEpoch DEF LateInv, EngineInv, LateMacksOvertaken
  <2> QED
    BY <1>4, <2>1, <2>2
<1>6. \A s \in PendingSlots : queue[s].valid /\ queue[s].late =>
          \E e \in Int : e = queue[s].epoch /\ KnownBeyond(e)'
  <2>1. \A e \in Int : KnownBeyond(e) => KnownBeyond(e)'
    BY <1>1, <1>2, DiscloseKnownBeyond
  <2>2. \A s \in PendingSlots : queue[s].valid /\ queue[s].late =>
            \E e \in Int : e = queue[s].epoch /\ KnownBeyond(e)
    BY <1>5
  <2> QED
    BY <2>1, <2>2
<1>7. CASE status = "VerifiedNew" /\ VerifyQueued(queue, sf.epoch, keys', reason)
  <2>1. \A s \in Targets(queue, sf.epoch) : ~queue[s].late
    BY <1>1, <1>2, <1>5, <1>7, OvertakenNotVerified DEF Targets
  <2>2. ~done'.late
    BY <1>7, <2>1 DEF VerifyQueued
  <2>3. \A s \in PendingSlots : pending'[s] = NoEntry \/ pending'[s] = queue[s]
    BY <1>7 DEF VerifyQueued
  <2>4. \A s \in PendingSlots : pending'[s].valid => pending'[s] = queue[s]
    BY <2>3 DEF NoEntry
  <2> QED
    BY <1>6, <2>2, <2>4, OvertakenAfter DEF KeyKnownOnlyAfterMack
<1>8. CASE pending' = queue /\ done' = Nothing
  BY <1>6, <1>8, OvertakenAfter DEF KeyKnownOnlyAfterMack, Nothing
<1> QED
  BY <1>7, <1>8 DEF UseMack

LEMMA ProcessSubframeLate ==
    ASSUME LateInv, NEW sf \in Subframes, ProcessSubframe(sf)
    PROVE  LateMacksOvertaken' /\ KeyKnownOnlyAfterMack'
<1>1. \A e \in Int : KnownBeyond(e) => KnownBeyond(e)'
  <2>1. CASE KeepTrust
    BY <2>1 DEF KeepTrust, teslaVars, KnownBeyond, KnownSlots
  <2>2. CASE \E reason : HandleDsm(sf.dsm, sf.epoch, reason)
    BY <2>2, StartKnownBeyond
  <2> QED
    BY <2>1, <2>2 DEF ProcessSubframe
<1>2. \A s \in PendingSlots : pending[s].valid /\ pending[s].late =>
          \E e \in Int : e = pending[s].epoch /\ KnownBeyond(e)'
  <2>1. \A s \in PendingSlots : pending[s].valid /\ pending[s].late =>
            pending[s].epoch \in Int /\ KnownBeyond(pending[s].epoch)
    BY QueuedEpoch DEF LateInv, EngineInv, LateMacksOvertaken
  <2>2. \A s \in PendingSlots : pending[s].valid /\ pending[s].late =>
            \E e \in Int : e = pending[s].epoch /\ KnownBeyond(e)
    BY <2>1
  <2> QED
    BY <1>1, <2>2
<1>3. \A s \in PendingSlots : pending'[s].valid => pending'[s] = pending[s]
  BY DEF ProcessSubframe, CleanPending, NoEntry
<1>4. LateMacksOvertaken'
  BY <1>2, <1>3, OvertakenAfter
<1> QED
  BY <1>4 DEF ProcessSubframe, KeyKnownOnlyAfterMack, Nothing

(* Steps that touch neither the chain nor the queue.                       *)
LEMMA UntouchedLate ==
    LateMacksOvertaken /\ UNCHANGED <<teslaVars, pending>> => LateMacksOvertaken'
  BY DEF LateMacksOvertaken, KnownBeyond, KnownSlots, teslaVars

LEMMA InitLateInv == EngineInit => LateInv
  BY InitEngineInv
  DEF EngineInit, LateInv, LateMacksOvertaken, KeyKnownOnlyAfterMack, NoEntry, Nothing

LEMMA NextLateInv == LateInv /\ [EngineNext]_engineVars => LateInv'
<1> SUFFICES ASSUME LateInv, [EngineNext]_engineVars
             PROVE  LateMacksOvertaken' /\ KeyKnownOnlyAfterMack'
  BY NextEngineInv DEF LateInv
<1>1. CASE Restart
  BY <1>1 DEF Restart, LateMacksOvertaken, KeyKnownOnlyAfterMack, NoEntry, Nothing
<1>2. CASE LoadMaterial
  BY <1>2, UntouchedLate DEF LoadMaterial, LateInv, KeyKnownOnlyAfterMack, Nothing
<1>3. CASE \E p \in Prns, e \in NavEpochs, found \in [NavKinds -> NavContents \cup {NoNav}] :
              FeedNavigationPage(p, e, found)
  BY <1>3, UntouchedLate DEF FeedNavigationPage, LateInv, KeyKnownOnlyAfterMack, Nothing
<1>4. CASE ReceiveSubframe
  BY <1>4, ProcessSubframeLate DEF ReceiveSubframe
<1>5. CASE ProcessMack
  <2>1. in_hand.subframe \in Subframes
    BY <1>5 DEF LateInv, EngineInv, HandGenuine, ProcessMack
  <2>2. CASE done' = Nothing /\ UNCHANGED <<teslaVars, pending, authenticated_objects>>
    BY <2>2, UntouchedLate DEF LateInv, KeyKnownOnlyAfterMack, Nothing
  <2>3. CASE in_hand.subframe.mack # NoMack /\ UseMack(in_hand.subframe, in_hand.reason)
    BY <2>1, <2>3, UseMackLate
  <2> QED
    BY <1>5, <2>2, <2>3 DEF ProcessMack
<1>6. CASE UNCHANGED engineVars
  BY <1>6, UntouchedLate DEF engineVars, LateInv, KeyKnownOnlyAfterMack
<1> QED
  BY <1>1, <1>2, <1>3, <1>4, <1>5, <1>6 DEF EngineNext

(* A MACK that reached the receiver when the key of its tags was known is  *)
(* never verified, however many keys were stored and evicted since.        *)
THEOREM EngineKeyKnownOnlyAfterMack == EngineSpec => []KeyKnownOnlyAfterMack
<1>1. LateInv => KeyKnownOnlyAfterMack
  BY DEF LateInv
<1> QED
  BY <1>1, InitLateInv, NextLateInv, PTL DEF EngineSpec

-----------------------------------------------------------------------------
(***************************************************************************)
(* What is reported of a subframe whose DSM failed.                        *)
(***************************************************************************)
DsmFailures == {"InvalidFrameFormat", "MerkleVerificationFailed",
                "SignatureVerificationFailed", "UnsupportedMessage"}
WaitingReasons == {"WaitingForKey", "WaitingForMoreFrames"}

(* The reason remembered with a subframe is none or a failure of its DSM.  *)
HandReason == ~Idle => in_hand.reason \in DsmFailures \cup {"None"}

LEMMA HandReasonInit == EngineInit => HandReason
  BY DEF EngineInit, HandReason, Idle

LEMMA HandReasonNext == HandReason /\ [EngineNext]_engineVars => HandReason'
<1> SUFFICES ASSUME HandReason, [EngineNext]_engineVars PROVE HandReason'
  OBVIOUS
<1>1. CASE UNCHANGED in_hand
  BY <1>1 DEF HandReason, Idle
<1>2. CASE in_hand' = NoSubframe
  BY <1>2 DEF HandReason, Idle
<1>3. ASSUME NEW sf \in Subframes, ProcessSubframe(sf)
      PROVE  HandReason'
  <2>1. \/ UNCHANGED in_hand
        \/ \E reason \in DsmFailures \cup {"None"} :
                in_hand' = [subframe |-> sf, reason |-> reason]
    BY <1>3 DEF ProcessSubframe, Continue, DsmFailures
  <2> QED
    BY <1>1, <2>1 DEF HandReason
<1>4. CASE ReceiveSubframe
  BY <1>3, <1>4 DEF ReceiveSubframe
<1> QED
  BY <1>1, <1>2, <1>4 DEF EngineNext, Restart, LoadMaterial, FeedNavigationPage, ProcessMack,
                          engineVars

(* A failure takes the place of waiting.                                   *)
LEMMA FailureReplacesWaiting ==
    ASSUME NEW failure \in DsmFailures, NEW reason
    PROVE  ResultReason(failure, reason) \notin WaitingReasons
  BY DEF ResultReason, DsmFailures, WaitingReasons

(* Whatever becomes of its MACK, a subframe whose DSM failed is not        *)
(* reported as merely waiting.                                             *)
THEOREM EngineDsmFailureReported == EngineSpec => DsmFailureReported
<1> DEFINE Step == ~Idle /\ in_hand.reason # "None" /\ result'.state # "Yes" =>
                      result'.reason \notin {"WaitingForKey", "WaitingForMoreFrames"}
<1>1. HandReason /\ EngineNext => Step
  <2> SUFFICES ASSUME HandReason, EngineNext, ~Idle, in_hand.reason # "None",
                      result'.state # "Yes"
               PROVE  result'.reason \notin WaitingReasons
    BY DEF WaitingReasons
  <2> DEFINE sf == in_hand.subframe
  <2> DEFINE failure == in_hand.reason
  <2>1. ProcessMack
    BY DEF EngineNext, Restart, LoadMaterial, FeedNavigationPage, ReceiveSubframe, ProcessSubframe
  <2>2. failure \in DsmFailures
    BY DEF HandReason
  <2>3. CASE result' = Unknown("InvalidFrameFormat")
    BY <2>3 DEF Unknown, Result, WaitingReasons
  <2>4. ASSUME NEW reason, result' = Unknown(ResultReason(failure, reason))
        PROVE  result'.reason \notin WaitingReasons
    BY <2>2, <2>4, FailureReplacesWaiting DEF Unknown, Result
  <2>5. ASSUME NEW queue, NEW ks, VerifyQueued(queue, sf.epoch, ks, failure)
        PROVE  result'.reason \notin WaitingReasons
    <3>1. PICK reason : \/ result' = Result("Yes", "None")
                        \/ result' = Unknown(ResultReason(failure, reason))
      BY <2>5 DEF VerifyQueued
    <3> QED
      BY <2>4, <3>1 DEF Result
  <2>6. ASSUME NEW disclosed, DisclosedKeyStatus(disclosed) # "VerifiedNew",
               result' = Unknown(ReasonOfStatus(DisclosedKeyStatus(disclosed), disclosed, failure))
        PROVE  result'.reason \notin WaitingReasons
    <3> DEFINE status == DisclosedKeyStatus(disclosed)
    <3>1. status \in {"WaitingForKey", "Invalid", "IgnoredSameOrOlder", "VerificationFailed"}
      BY <2>6 DEF DisclosedKeyStatus
    <3> HIDE DEF status, failure
    <3>2. CASE status \in {"WaitingForKey", "IgnoredSameOrOlder"}
      <4>1. ReasonOfStatus(status, disclosed, failure) = ResultReason(failure, "WaitingForKey")
        BY <3>2 DEF ReasonOfStatus
      <4> QED
        BY <2>4, <2>6, <4>1 DEF status
    <3>3. CASE status \in {"Invalid", "VerificationFailed"}
      <4>1. ReasonOfStatus(status, disclosed, failure)
                \in {"TeslaChainVerificationFailed", "InvalidFrameFormat", "InvalidTime"}
        BY <3>3 DEF ReasonOfStatus
      <4>2. result'.reason = ReasonOfStatus(status, disclosed, failure)
        BY <2>6 DEF status, Unknown, Result
      <4> QED
        BY <4>1, <4>2 DEF WaitingReasons
    <3> QED
      BY <3>1, <3>2, <3>3
  <2>7. CASE UseMack(sf, failure)
    BY <2>5, <2>6, <2>7 DEF UseMack
  <2> QED
    BY <2>1, <2>3, <2>4, <2>7 DEF ProcessMack
<1>2. HandReason /\ [EngineNext]_engineVars => [Step]_engineVars
  BY <1>1
<1> QED
  BY <1>2, HandReasonInit, HandReasonNext, PTL DEF EngineSpec, DsmFailureReported

-----------------------------------------------------------------------------
(***************************************************************************)
(* The table of queued MACKs.                                              *)
(***************************************************************************)
(* Every nonempty set of numbers has a least one.                          *)
LEMMA LeastOf ==
    ASSUME NEW S \in SUBSET Nat, S # {}
    PROVE  \E m \in S : \A n \in S : m <= n
<1>1. IsWellFoundedOn(OpToRel(<, Nat), Nat)
  BY NatLessThanWellFounded
<1>2. PICK m \in S : \A n \in S : ~ (<<n, m>> \in OpToRel(<, Nat))
  BY <1>1, WFMin
<1>3. \A n \in S : ~(n < m)
  BY <1>2 DEF OpToRel
<1> QED
  BY <1>3

(* A new MACK takes a free slot while there is one, the first of the       *)
(* oldest otherwise.                                                       *)
LEMMA SlotChosen ==
    ASSUME NEW queue, QueueGenuine(queue)
    PROVE  LET slot == SlotForMack(queue) IN
           /\ slot \in PendingSlots
           /\ (\E s \in PendingSlots : ~queue[s].valid) => ~queue[slot].valid
           /\ (\A s \in PendingSlots : queue[s].valid) =>
                 \A s \in PendingSlots : queue[slot].epoch <= queue[s].epoch
<1> DEFINE slot == SlotForMack(queue)
<1>1. PendingSlots \subseteq Nat /\ 0 \in PendingSlots
  BY BoundsAssumption DEF PendingSlots
<1>2. CASE \A s \in PendingSlots : queue[s].valid
  <2> DEFINE epochs == {queue[s].epoch : s \in PendingSlots}
  <2>1. \A s \in PendingSlots : queue[s].epoch \in Nat
    BY <1>2, QueuedEpoch
  <2>2. epochs \in SUBSET Nat /\ epochs # {}
    BY <1>1, <2>1
  <2>3. PICK e \in epochs : \A f \in epochs : e <= f
    BY <2>2, LeastOf
  <2> DEFINE oldest == {s \in PendingSlots : queue[s].epoch = e}
  <2>4. oldest \in SUBSET Nat /\ oldest # {}
    BY <1>1, <2>3
  <2>5. PICK o \in oldest : \A s \in oldest : o <= s
    BY <2>4, LeastOf
  <2>6. ASSUME NEW t \in PendingSlots
        PROVE  \/ queue[o].epoch < queue[t].epoch
               \/ queue[o].epoch = queue[t].epoch /\ o <= t
    BY <2>1, <2>2, <2>3, <2>5
  <2> DEFINE First(s) == \A t \in PendingSlots :
                \/ queue[s].epoch < queue[t].epoch
                \/ queue[s].epoch = queue[t].epoch /\ s <= t
  <2>7. o \in PendingSlots /\ First(o)
    BY <2>5, <2>6
  <2>8. slot = CHOOSE s \in PendingSlots : First(s)
    BY <1>2 DEF SlotForMack
  <2> HIDE DEF slot, First
  <2>9. slot \in PendingSlots /\ First(slot)
    BY <2>7, <2>8
  <2> QED
    BY <1>2, <2>1, <2>9 DEF First, slot
<1>3. CASE \E s \in PendingSlots : ~queue[s].valid
  <2> DEFINE free == {s \in PendingSlots : ~queue[s].valid}
  <2>1. free \in SUBSET Nat /\ free # {}
    BY <1>1, <1>3
  <2>2. PICK o \in free : \A s \in free : o <= s
    BY <2>1, LeastOf
  <2> DEFINE First(s) == ~queue[s].valid /\ \A t \in PendingSlots : t < s => queue[t].valid
  <2>3. o \in PendingSlots /\ First(o)
    BY <1>1, <2>1, <2>2
  <2>4. slot = CHOOSE s \in PendingSlots : First(s)
    BY <1>3 DEF SlotForMack
  <2> HIDE DEF slot, First
  <2>5. slot \in PendingSlots /\ First(slot)
    BY <2>3, <2>4
  <2> QED
    BY <1>3, <2>5 DEF First, slot
<1> QED
  BY <1>2, <1>3

(* Queueing a MACK changes that slot only.                                 *)
LEMMA MackAdded ==
    ASSUME NEW queue, QueueGenuine(queue), NEW entry
    PROVE  LET slot == SlotForMack(queue)
               added == AddPendingMack(queue, entry)
           IN  added[slot] = entry /\ \A s \in PendingSlots : s # slot => added[s] = queue[s]
<1> DEFINE slot == SlotForMack(queue)
<1>1. slot \in PendingSlots
  BY SlotChosen
<1> HIDE DEF slot
<1>2. queue = [s \in PendingSlots |-> queue[s]]
  BY DEF QueueGenuine
<1>3. LET added == [queue EXCEPT ![slot] = entry] IN
      added[slot] = entry /\ \A s \in PendingSlots : s # slot => added[s] = queue[s]
  BY <1>1, <1>2
<1> QED
  BY <1>3 DEF AddPendingMack, slot

(* A MACK gives way to another only in a full table, and then it is one of *)
(* the oldest.                                                             *)
THEOREM EngineOldestOverwritten == EngineSpec => OldestOverwritten
<1> DEFINE Oldest == \A s \in Waiting :
                pending'[s].valid /\ pending'[s] # pending[s] =>
                    \A t \in Waiting : pending[s].epoch <= pending[t].epoch
<1>1. ASSUME EngineInv, EngineNext PROVE Oldest
  <2>1. CASE UNCHANGED pending
    BY <2>1
  <2>2. CASE \A s \in PendingSlots : pending'[s] = NoEntry \/ pending'[s] = pending[s]
    BY <2>2 DEF NoEntry, Waiting
  <2>3. ASSUME NEW entry, \A s \in PendingSlots :
                   pending'[s] = NoEntry \/ pending'[s] = AddPendingMack(pending, entry)[s]
        PROVE  Oldest
    <3> DEFINE queue == AddPendingMack(pending, entry)
    <3> DEFINE slot == SlotForMack(pending)
    <3>1. QueueGenuine(pending)
      BY <1>1 DEF EngineInv
    <3>2. \A s \in PendingSlots : s # slot => queue[s] = pending[s]
      BY <3>1, MackAdded
    <3>3. /\ (\E s \in PendingSlots : ~pending[s].valid) => ~pending[slot].valid
          /\ (\A s \in PendingSlots : pending[s].valid) =>
                 \A s \in PendingSlots : pending[slot].epoch <= pending[s].epoch
      BY <3>1, SlotChosen
    <3> HIDE DEF slot, queue
    <3> SUFFICES ASSUME NEW s \in Waiting, pending'[s].valid, pending'[s] # pending[s],
                        NEW t \in Waiting
                 PROVE  pending[s].epoch <= pending[t].epoch
      OBVIOUS
    <3>4. s \in PendingSlots /\ pending[s].valid /\ t \in PendingSlots
      BY DEF Waiting
    <3>5. pending'[s] # NoEntry
      BY DEF NoEntry
    <3>6. s = slot
      BY <2>3, <3>2, <3>4, <3>5 DEF queue
    <3> QED
      BY <3>3, <3>4, <3>6
  <2>4. CASE ReceiveSubframe
    <3>1. PICK epoch : pending' = CleanPending(pending, epoch)
      BY <2>4 DEF ReceiveSubframe, ProcessSubframe
    <3> QED
      BY <2>2, <3>1 DEF CleanPending
  <2>5. CASE ProcessMack
    <3>1. ASSUME NEW sf, NEW reason, UseMack(sf, reason) PROVE Oldest
      <4>1. PICK entry : \A s \in PendingSlots :
                   pending'[s] = NoEntry \/ pending'[s] = AddPendingMack(pending, entry)[s]
        BY <3>1 DEF UseMack, VerifyQueued
      <4> QED
        BY <2>3, <4>1
    <3> QED
      BY <2>1, <2>5, <3>1 DEF ProcessMack
  <2>6. CASE Restart
    BY <2>2, <2>6 DEF Restart
  <2> QED
    BY <1>1, <2>1, <2>4, <2>5, <2>6 DEF EngineNext, LoadMaterial, FeedNavigationPage
<1>2. EngineInv /\ [EngineNext]_engineVars => [Oldest]_engineVars
  BY <1>1
<1> QED
  BY <1>2, InitEngineInv, NextEngineInv, PTL DEF EngineSpec, OldestOverwritten

-----------------------------------------------------------------------------
(***************************************************************************)
(* The step in which the key of a queued MACK becomes known.               *)
(***************************************************************************)
(* The key of the subframe after e, with which the tags of subframe e were *)
(* made (other than slow MAC tags), is in the table ks.                    *)
NextKeyIn(ks, e) ==
    initialized /\ e >= root /\ \E t \in Slots : ks[t].valid /\ ks[t].index = (e - root) + 1

(* The next key verifies the tags that are not slow MAC.                   *)
LEMMA NextKeyIsForTag ==
    ASSUME root \in Int, NEW e \in Int, NEW ks, NEW adkd, adkd # "SlowMac"
    PROVE  HasKeyForTag(ks, e, adkd) <=> NextKeyIn(ks, e)
<1>1. KeyDelay(adkd) = 1
  BY DEF KeyDelay
<1>2. DisclosureIndex(e) = IF ~initialized \/ e < root THEN -1 ELSE e - root
  BY DEF DisclosureIndex
<1>3. HasKeyForTag(ks, e, adkd) <=>
        \E t \in Slots : /\ ks[t].valid /\ DisclosureIndex(e) >= 0
                         /\ ks[t].index = DisclosureIndex(e) + 1
  BY <1>1 DEF HasKeyForTag, SlotsForTag
<1>4. CASE initialized /\ e >= root
  <2>1. DisclosureIndex(e) = e - root /\ e - root >= 0
    BY <1>2, <1>4
  <2> QED
    BY <1>3, <1>4, <2>1 DEF NextKeyIn
<1>5. CASE ~(initialized /\ e >= root)
  <2>1. ~(DisclosureIndex(e) >= 0)
    BY <1>2, <1>5
  <2> QED
    BY <1>3, <1>5, <2>1 DEF NextKeyIn
<1> QED
  BY <1>4, <1>5

(* It is that subframe whose MACK discloses it.                            *)
LEMMA NextKeyDisclosed ==
    ASSUME TeslaInv, NEW m, m.epoch \in Nat, VerifyAndStoreDisclosedKey(m), NEW e \in Int,
           ~NextKeyIn(keys, e), NextKeyIn(keys', e)
    PROVE  m.epoch = e + 1 /\ DisclosedKeyStatus(m) = "VerifiedNew"
<1> DEFINE i == DisclosureIndex(m.epoch)
<1>1. PICK t \in Slots : keys'[t].valid /\ keys'[t].index = (e - root) + 1
  BY DEF NextKeyIn
<1>2. initialized /\ e >= root
  BY DEF NextKeyIn
<1>3. keys'[t] # keys[t]
  BY <1>1, <1>2 DEF NextKeyIn
<1>4. DisclosedKeyStatus(m) = "VerifiedNew" /\ StoreVerifiedKey(i, m.key)
  BY <1>3 DEF VerifyAndStoreDisclosedKey
<1>5. i = m.epoch - root /\ root \in Int
  BY <1>4, NewKeyVerified DEF TeslaInv, TeslaTypeOK
<1>6. keys'[t] = [valid |-> TRUE, index |-> i, key |-> m.key]
  BY <1>3, <1>4, StoreFrame DEF TeslaInv, TeslaTypeOK
<1> HIDE DEF i
<1>7. i = (e - root) + 1
  BY <1>1, <1>6
<1> QED
  BY <1>4, <1>5, <1>7

(* Starting the chain from its root does not give the key of any subframe  *)
(* that a MACK can be of.                                                  *)
LEMMA NextKeyNotRoot ==
    ASSUME TeslaInv, NEW sf \in Subframes, NEW reason, HandleDsm(sf.dsm, sf.epoch, reason),
           NEW e \in Int, NextKeyIn(keys, e)'
    PROVE  NextKeyIn(keys, e)
<1>1. CASE UNCHANGED teslaVars
  BY <1>1 DEF teslaVars, NextKeyIn
<1>2. CASE sf.dsm.type = "Kroot" /\ ~initialized /\ InitializeFromKroot(sf.dsm.kroot.content)
  <2>1. initialized' /\ e >= root'
    BY DEF NextKeyIn
  <2>2. ~Reset
    BY <2>1 DEF Reset
  <2>3. /\ root' = sf.dsm.kroot.content.epoch - 1
        /\ \A t \in Slots : keys'[t].valid => keys'[t].index = 0
    BY <1>2, <2>2 DEF InitializeFromKroot, EmptyEntry
  <2>4. sf.dsm \in Dsms
    BY SubframesAssumption
  <2>5. PICK kroot \in Trust!SignedKroots : sf.dsm = KrootDsm(kroot)
    BY <1>2, <2>4 DEF Dsms, NoDsm, BadDsm, PkrDsm, KrootDsm
  <2>6. sf.dsm.kroot.content \in Kroots
    BY <2>5 DEF KrootDsm, Trust!SignedKroots
  <2>7. sf.dsm.kroot.content.epoch \in Nat
    BY <2>6, EpochsAssumption DEF Kroots, Kroot
  <2>8. root' \in Int
    BY <2>3, <2>7
  <2>9. PICK t \in Slots : keys'[t].valid /\ keys'[t].index = (e - root') + 1
    BY DEF NextKeyIn
  <2>10. 0 = (e - root') + 1
    BY <2>3, <2>9
  <2> DEFINE r == root'
  <2>11. r \in Int /\ e >= r /\ 0 = (e - r) + 1
    BY <2>1, <2>8, <2>10
  <2> HIDE DEF r
  <2>12. FALSE
    BY <2>11
  <2> QED
    BY <2>12
<1> QED
  BY <1>1, <1>2 DEF HandleDsm, KeepTrust, HandlePkr, HandleKroot, StartChain

-----------------------------------------------------------------------------
HasSlowTag(entry) == \E i \in 1 .. Len(entry.tags) : entry.tags[i].adkd = "SlowMac"

MacksLeave ==
    \A s \in PendingSlots :
        pending[s].valid /\ ~pending[s].late /\ NextKeyIn(keys, pending[s].epoch) =>
            HasSlowTag(pending[s])

LeaveInv == EngineInv /\ MacksLeave

(* MACKs that leave the queue do not break MacksLeave.                     *)
LEMMA MacksLeaveAfter ==
    ASSUME NEW queue,
           \A s \in PendingSlots : pending'[s].valid => pending'[s] = queue[s],
           \A s \in PendingSlots :
              pending'[s].valid /\ pending'[s] = queue[s] /\ ~queue[s].late =>
                \E e \in Int : e = queue[s].epoch /\ (NextKeyIn(keys, e)' => HasSlowTag(queue[s]))
    PROVE  MacksLeave'
  BY DEF MacksLeave, NextKeyIn, HasSlowTag

(* A MACK stays queued when its key is verified only for its slow MAC tags.*)
LEMMA WaitsForSlowMac ==
    ASSUME root \in Int, NEW ks, NEW entry, entry.epoch \in Int, NextKeyIn(ks, entry.epoch),
           KeptForLater(ks, entry)
    PROVE  HasSlowTag(entry)
<1>1. HasKeyForTag(ks, entry.epoch, "InavCed")
  BY NextKeyIsForTag
<1> DEFINE tags == {entry.tags[i] : i \in 1 .. Len(entry.tags)}
<1> DEFINE found == {t \in tags : HasNavFor(entry, t)}
<1>2. found # {} /\ \A t \in found : ~HasKeyForTag(ks, entry.epoch, t.adkd)
  BY <1>1 DEF KeptForLater, Verdict
<1>3. PICK i \in 1 .. Len(entry.tags) : ~HasKeyForTag(ks, entry.epoch, entry.tags[i].adkd)
  BY <1>2
<1>4. entry.tags[i].adkd = "SlowMac"
  BY <1>3, NextKeyIsForTag
<1> QED
  BY <1>4 DEF HasSlowTag

LEMMA UseMackLeave ==
    ASSUME LeaveInv, NEW sf \in Subframes, sf.mack # NoMack, NEW reason, UseMack(sf, reason)
    PROVE  MacksLeave'
<1> DEFINE mack == ParseMack(sf.mack)
           disclosed == Disclosure(mack, sf.epoch)
           status == DisclosedKeyStatus(disclosed)
           late == HasKeyForTag(keys, sf.epoch, "InavCed")
           entry == Entry(sf.prn, sf.epoch, mack, late)
           queue == AddPendingMack(pending, entry)
<1>1. /\ TeslaInv /\ sf.epoch \in Nat /\ sf.mack \in Macks /\ root \in Int
      /\ QueueGenuine(pending) /\ MacksLeave
  BY SubframesAssumption, EpochsAssumption DEF LeaveInv, EngineInv, TeslaInv, TeslaTypeOK
<1>2. VerifyAndStoreDisclosedKey(disclosed) /\ disclosed.epoch = sf.epoch
  BY DEF UseMack, Disclosure
<1>3. UNCHANGED <<initialized, chain, root>>
  BY <1>2 DEF VerifyAndStoreDisclosedKey
<1>4. /\ entry.epoch = sf.epoch /\ entry.tags = sf.mack.tags
      /\ (~entry.late => ~NextKeyIn(keys, entry.epoch))
  BY <1>1, ParsedMack, NextKeyIsForTag DEF Entry
<1>5. QueueGenuine(queue)
  BY <1>1, <1>4, AddedMackGenuine DEF StemsFrom
<1>6. \A s \in PendingSlots : queue[s] = entry \/ queue[s] = pending[s]
  BY <1>1 DEF AddPendingMack, QueueGenuine
<1>7. \A e \in Int : NextKeyIn(keys, e)' => NextKeyIn(keys', e)
  BY <1>3 DEF NextKeyIn
<1> HIDE DEF entry, queue, disclosed
<1>8. ASSUME NEW s \in PendingSlots, queue[s].valid, ~queue[s].late,
             NextKeyIn(keys', queue[s].epoch), ~HasSlowTag(queue[s])
      PROVE  /\ queue[s].epoch \in Nat /\ sf.epoch = queue[s].epoch + 1
             /\ DisclosedKeyStatus(disclosed) = "VerifiedNew"
  <2> DEFINE e == queue[s].epoch
  <2>1. e \in Nat
    BY <1>5, <1>8, QueuedEpoch
  <2>2. ~NextKeyIn(keys, e)
    <3>1. CASE queue[s] = entry
      BY <1>4, <1>8, <3>1
    <3>2. CASE queue[s] = pending[s]
      BY <1>1, <1>8, <3>2 DEF MacksLeave
    <3> QED
      BY <1>6, <3>1, <3>2
  <2>3. NextKeyIn(keys', e)
    BY <1>8
  <2> HIDE DEF e
  <2>4. sf.epoch = e + 1 /\ DisclosedKeyStatus(disclosed) = "VerifiedNew"
    BY <1>1, <1>2, <2>1, <2>2, <2>3, NextKeyDisclosed
  <2> QED
    BY <2>1, <2>4 DEF e
<1>9. ASSUME NEW s \in PendingSlots, pending'[s].valid, pending'[s] = queue[s], ~queue[s].late,
             NextKeyIn(keys', queue[s].epoch)
      PROVE  HasSlowTag(queue[s])
  <2> SUFFICES ASSUME ~HasSlowTag(queue[s]) PROVE FALSE
    OBVIOUS
  <2>1. queue[s].valid
    BY <1>9
  <2>2. /\ queue[s].epoch \in Nat /\ sf.epoch = queue[s].epoch + 1
        /\ DisclosedKeyStatus(disclosed) = "VerifiedNew"
    BY <1>8, <1>9, <2>1
  <2>3. VerifyQueued(queue, sf.epoch, keys', reason)
    BY <2>2 DEF UseMack, queue, entry, disclosed
  <2>4. s \in Targets(queue, sf.epoch)
    BY <2>1, <2>2 DEF Targets
  <2>5. KeptForLater(keys', queue[s])
    <3>1. ~NoEntry.valid
      BY DEF NoEntry
    <3> QED
      BY <1>9, <2>3, <2>4, <3>1 DEF VerifyQueued
  <2> QED
    BY <1>1, <1>9, <2>2, <2>5, WaitsForSlowMac
<1>10. \A s \in PendingSlots : pending'[s].valid => pending'[s] = queue[s]
  <2>1. ~NoEntry.valid
    BY DEF NoEntry
  <2>2. CASE \E ks : VerifyQueued(queue, sf.epoch, ks, reason)
    BY <2>1, <2>2 DEF VerifyQueued
  <2>3. CASE pending' = queue
    BY <2>3
  <2> QED
    BY <2>2, <2>3 DEF UseMack, queue, entry
<1>11. \A s \in PendingSlots :
          pending'[s].valid /\ pending'[s] = queue[s] /\ ~queue[s].late =>
            \E e \in Int : e = queue[s].epoch /\ (NextKeyIn(keys, e)' => HasSlowTag(queue[s]))
  <2> SUFFICES ASSUME NEW s \in PendingSlots, pending'[s].valid, pending'[s] = queue[s],
                      ~queue[s].late
               PROVE  \E e \in Int :
                        e = queue[s].epoch /\ (NextKeyIn(keys, e)' => HasSlowTag(queue[s]))
    OBVIOUS
  <2>1. queue[s].valid
    OBVIOUS
  <2>2. queue[s].epoch \in Int
    BY <1>5, <2>1, QueuedEpoch
  <2>3. NextKeyIn(keys', queue[s].epoch) => HasSlowTag(queue[s])
    BY <1>9
  <2>4. \A e \in Int : e = queue[s].epoch => (NextKeyIn(keys, e)' => HasSlowTag(queue[s]))
    BY <1>7, <2>3
  <2> QED
    BY <2>2, <2>4
<1> QED
  BY <1>10, <1>11, MacksLeaveAfter

LEMMA ProcessSubframeLeave ==
    ASSUME LeaveInv, NEW sf \in Subframes, ProcessSubframe(sf)
    PROVE  MacksLeave'
<1>1. \A e \in Int : NextKeyIn(keys, e)' => NextKeyIn(keys, e)
  <2>1. CASE KeepTrust
    BY <2>1 DEF KeepTrust, teslaVars, NextKeyIn
  <2>2. CASE \E reason : HandleDsm(sf.dsm, sf.epoch, reason)
    BY <2>2, NextKeyNotRoot DEF LeaveInv, EngineInv
  <2> QED
    BY <2>1, <2>2 DEF ProcessSubframe
<1>2. \A s \in PendingSlots : pending'[s].valid => pending'[s] = pending[s]
  BY DEF ProcessSubframe, CleanPending, NoEntry
<1>3. \A s \in PendingSlots :
          pending'[s].valid /\ pending'[s] = pending[s] /\ ~pending[s].late =>
            pending[s].epoch \in Int
            /\ (NextKeyIn(keys, pending[s].epoch) => HasSlowTag(pending[s]))
  BY QueuedEpoch DEF LeaveInv, EngineInv, MacksLeave
<1>4. \A s \in PendingSlots :
          pending'[s].valid /\ pending'[s] = pending[s] /\ ~pending[s].late =>
            \E e \in Int : e = pending[s].epoch /\ (NextKeyIn(keys, e)' => HasSlowTag(pending[s]))
  BY <1>1, <1>3
<1> QED
  BY <1>2, <1>4, MacksLeaveAfter

(* MacksLeave is about the chain and the queue alone.                      *)
LEMMA UntouchedLeave ==
    MacksLeave /\ UNCHANGED <<teslaVars, pending>> => MacksLeave'
  BY DEF MacksLeave, NextKeyIn, HasSlowTag, teslaVars

LEMMA InitLeaveInv == EngineInit => LeaveInv
  BY InitEngineInv DEF EngineInit, LeaveInv, MacksLeave, NoEntry

LEMMA NextLeaveInv == LeaveInv /\ [EngineNext]_engineVars => LeaveInv'
<1> SUFFICES ASSUME LeaveInv, [EngineNext]_engineVars PROVE MacksLeave'
  BY NextEngineInv DEF LeaveInv
<1>1. CASE UNCHANGED <<teslaVars, pending>>
  BY <1>1, UntouchedLeave DEF LeaveInv
<1>2. CASE Restart
  BY <1>2 DEF Restart, MacksLeave, NoEntry
<1>3. CASE ReceiveSubframe
  BY <1>3, ProcessSubframeLeave DEF ReceiveSubframe
<1>4. CASE ProcessMack
  <2>1. in_hand.subframe \in Subframes
    BY <1>4 DEF LeaveInv, EngineInv, HandGenuine, ProcessMack
  <2> QED
    BY <1>1, <1>4, <2>1, UseMackLeave DEF ProcessMack
<1> QED
  BY <1>1, <1>2, <1>3, <1>4 DEF EngineNext, LoadMaterial, FeedNavigationPage, engineVars

(* A MACK that was queued before its key was known was verified when the   *)
(* key came, and left the table then, unless slow MAC tags keep it.        *)
THEOREM EngineVerifiedMacksLeave == EngineSpec => []VerifiedMacksLeave
<1>1. ASSUME LeaveInv PROVE VerifiedMacksLeave
  <2>1. ASSUME NEW s \in Waiting, ~pending[s].late,
               HasKeyForTag(keys, pending[s].epoch, "InavCed")
        PROVE  HasSlowTag(pending[s])
    <3>1. s \in PendingSlots /\ pending[s].valid
      BY DEF Waiting
    <3>2. pending[s].epoch \in Int /\ root \in Int
      BY <1>1, <3>1, QueuedEpoch DEF LeaveInv, EngineInv, TeslaInv, TeslaTypeOK
    <3>3. NextKeyIn(keys, pending[s].epoch)
      BY <2>1, <3>2, NextKeyIsForTag
    <3> QED
      BY <1>1, <2>1, <3>1, <3>3 DEF LeaveInv, MacksLeave
  <2> QED
    BY <2>1 DEF VerifiedMacksLeave, HasSlowTag
<1> QED
  BY <1>1, InitLeaveInv, NextLeaveInv, PTL DEF EngineSpec

-----------------------------------------------------------------------------
(***************************************************************************)
(* No usable tag is passed over.                                           *)
(***************************************************************************)
(* The key for a tag made in subframe e is that of the next subframe.      *)
LEMMA KeyForTagIsNext ==
    ASSUME root \in Int, NEW ks,
           \A s \in Slots : ks[s].valid => ks[s].key = ChainKey(chain, root + ks[s].index),
           NEW e \in Int, NextKeyIn(ks, e), NEW adkd, adkd # "SlowMac"
    PROVE  HasKeyForTag(ks, e, adkd) /\ GetKeyForTag(ks, e, adkd) = ChainKey(chain, e + 1)
<1>1. HasKeyForTag(ks, e, adkd)
  BY NextKeyIsForTag
<1> DEFINE slot == CHOOSE s \in SlotsForTag(ks, e, adkd) : TRUE
<1>2. slot \in SlotsForTag(ks, e, adkd)
  BY <1>1 DEF HasKeyForTag
<1>3. GetKeyForTag(ks, e, adkd) = ks[slot].key
  BY DEF GetKeyForTag
<1> HIDE DEF slot
<1>4. /\ slot \in Slots /\ ks[slot].valid /\ DisclosureIndex(e) >= 0
      /\ ks[slot].index = DisclosureIndex(e) + 1
  BY <1>2 DEF SlotsForTag, KeyDelay
<1>5. DisclosureIndex(e) = e - root
  BY DEF DisclosureIndex, NextKeyIn
<1>6. root + ks[slot].index = e + 1
  BY <1>4, <1>5
<1> QED
  BY <1>1, <1>3, <1>4, <1>6

(* The tags of a MACK before the i-th are fewer than i.                    *)
LEMMA FewBefore ==
    ASSUME NEW S, NEW i \in Nat \ {0}, S \subseteq Nat \ {0}
    PROVE  Cardinality({j \in S : j < i}) \in Nat /\ Cardinality({j \in S : j < i}) < i
<1> DEFINE T == {j \in S : j < i}
<1>1. ASSUME NEW j \in T PROVE j \in 1 .. (i - 1)
  <2>1. j \in Nat \ {0} /\ j < i
    BY <1>1
  <2> QED
    BY <2>1
<1>2. IsFiniteSet(1 .. (i - 1)) /\ Cardinality(1 .. (i - 1)) = i - 1
  BY FS_Interval
<1> HIDE DEF T
<1>3. IsFiniteSet(T) /\ Cardinality(T) <= i - 1
  BY <1>1, <1>2, FS_Subset
<1>4. Cardinality(T) \in Nat
  BY <1>3, FS_CardinalityType
<1>5. Cardinality(T) < i
  BY <1>3, <1>4
<1> QED
  BY <1>4, <1>5 DEF T

(* A tag over the data it belongs to gives an authenticated object.        *)
LEMMA UsableTagAuthenticates ==
    ASSUME TeslaTypeOK, NEW ks,
           \A s \in Slots : ks[s].valid => ks[s].key = ChainKey(chain, root + ks[s].index),
           NEW entry, entry.epoch \in Int, NextKeyIn(ks, entry.epoch),
           NEW i \in 1 .. Len(entry.tags), i \in Nat \ {0}, i <= MaxSuccess,
           \A j \in 1 .. Len(entry.tags) : j \in Nat \ {0},
           entry.tags[i].adkd # "SlowMac",
           entry.macseq = ChainKey(chain, entry.epoch + 1),
           entry.tags[i].key = ChainKey(chain, entry.epoch + 1),
           entry.tags[i].nav \in NavContents,
           entry.tags[i].nav = FindForTag(entry, entry.tags[i]),
           MacFunction[chain] = MacFunction[TrustedChain], MacFunction[chain] # "Reserved"
    PROVE  NavObject(entry.tags[i].prnd, entry.tags[i].adkd, entry.tags[i].nav)
               \in AuthenticatedBy(ks, entry)
<1> DEFINE key == ChainKey(chain, entry.epoch + 1)
<1>1. root \in Int /\ chain \in Chains
  BY DEF TeslaTypeOK, NextKeyIn
<1>2. ASSUME NEW adkd, adkd # "SlowMac"
      PROVE  HasKeyForTag(ks, entry.epoch, adkd) /\ GetKeyForTag(ks, entry.epoch, adkd) = key
  BY <1>1, <1>2, KeyForTagIsNext
<1>3. key.chain = chain
  BY DEF ChainKey
<1>4. MacMatches(key, key)
  BY <1>1, <1>3 DEF MacMatches
<1>5. HasNavFor(entry, entry.tags[i])
  <2>1. entry.tags[i].nav # NoNav
    BY NavAssumption
  <2> QED
    BY <2>1 DEF HasNavFor
<1>6. TagMatches(ks, entry, entry.tags[i])
  BY <1>2, <1>4, <1>5 DEF TagMatches
<1> HIDE DEF key
<1>7. i \in MatchingTags(ks, entry)
  BY <1>6 DEF MatchingTags
<1>8. Verdict(ks, entry) = "Yes"
  <2>1. HasKeyForTag(ks, entry.epoch, "InavCed") /\ GetKeyForTag(ks, entry.epoch, "InavCed") = key
    BY <1>2
  <2>2. MacMatches(entry.macseq, GetKeyForTag(ks, entry.epoch, "InavCed"))
    BY <1>4, <2>1 DEF key
  <2> QED
    BY <1>7, <2>1, <2>2 DEF Verdict
<1>9. i \in Successes(ks, entry)
  <2> DEFINE M == MatchingTags(ks, entry)
  <2>1. M \subseteq Nat \ {0}
    BY DEF MatchingTags
  <2> HIDE DEF M
  <2> DEFINE before == {j \in M : j < i}
  <2>2. Cardinality(before) \in Nat /\ Cardinality(before) < i
    BY <2>1, FewBefore
  <2> HIDE DEF before
  <2>3. Cardinality(before) < MaxSuccess
    BY <2>2, BoundsAssumption
  <2> QED
    BY <1>7, <2>3 DEF Successes, before, M
<1> QED
  BY <1>8, <1>9 DEF AuthenticatedBy

(* The tag of a waiting MACK authenticates when its key becomes known.     *)
LEMMA UsableTagStep ==
    ASSUME EngineInv, [EngineNext]_engineVars, NEW s \in Waiting,
           NEW i \in 1 .. Len(pending[s].tags),
           \E t \in PendingSlots : ~pending[t].valid,
           pending[s].tags[i].adkd # "SlowMac", i <= MaxSuccess,
           ~HasKeyForTag(keys, pending[s].epoch, pending[s].tags[i].adkd),
           HasKeyForTag(keys', pending[s].epoch, pending[s].tags[i].adkd),
           pending[s].macseq = ChainKey(chain, pending[s].epoch + 1),
           pending[s].tags[i].key = ChainKey(chain, pending[s].epoch + 1),
           pending[s].tags[i].nav = FindForTag(pending[s], pending[s].tags[i]),
           MacFunction[chain] = MacFunction[TrustedChain], MacFunction[chain] # "Reserved"
    PROVE  NavObject(pending[s].tags[i].prnd, pending[s].tags[i].adkd, pending[s].tags[i].nav)
               \in authenticated_objects'
<1> DEFINE entry == pending[s]
<1> DEFINE e == entry.epoch
<1> DEFINE object == NavObject(entry.tags[i].prnd, entry.tags[i].adkd, entry.tags[i].nav)
<1>1. /\ s \in PendingSlots /\ entry.valid /\ QueueGenuine(pending)
      /\ TeslaInv /\ TeslaTypeOK /\ root \in Int /\ HandGenuine
  BY DEF Waiting, EngineInv, TeslaInv, TeslaTypeOK
<1>2. PICK sf \in Subframes : StemsFrom(entry, sf)
  BY <1>1 DEF QueueGenuine
<1>3. /\ e \in Nat /\ entry.tags \in Seq(Tags)
      /\ \A j \in 1 .. Len(entry.tags) : j \in Nat \ {0} /\ entry.tags[j].nav \in NavContents
  <2>1. sf.mack \in Macks /\ sf.epoch \in Nat
    BY <1>2, SubframesAssumption, EpochsAssumption DEF StemsFrom
  <2>2. entry.tags \in Seq(Tags)
    BY <1>2, <2>1 DEF StemsFrom, Macks
  <2>3. Len(entry.tags) \in Nat /\ \A j \in 1 .. Len(entry.tags) : entry.tags[j] \in Tags
    BY <2>2
  <2> QED
    BY <1>2, <2>1, <2>2, <2>3 DEF StemsFrom, Tags
<1>4. ~NextKeyIn(keys, e) /\ NextKeyIn(keys', e)
  BY <1>1, <1>3, NextKeyIsForTag
<1> HIDE DEF e
<1>5. initialized /\ keys' # keys
  BY <1>4 DEF NextKeyIn
<1>6. CASE Restart
  <2>1. \A t \in Slots : ~keys'[t].valid
    BY <1>6 DEF Restart, Reset, EmptyEntry
  <2> QED
    BY <1>4, <2>1 DEF NextKeyIn
<1>7. CASE ReceiveSubframe
  BY <1>5, <1>7 DEF ReceiveSubframe, ProcessSubframe, KeepTrust, HandleDsm, HandlePkr, HandleKroot,
                    StartChain, teslaVars
<1>8. ASSUME NEW r \in Subframes, r.mack # NoMack, NEW reason, UseMack(r, reason)
      PROVE  object \in authenticated_objects'
  <2> DEFINE mack == ParseMack(r.mack)
  <2> DEFINE disclosed == Disclosure(mack, r.epoch)
  <2> DEFINE new == Entry(r.prn, r.epoch, mack, HasKeyForTag(keys, r.epoch, "InavCed"))
  <2> DEFINE queue == AddPendingMack(pending, new)
  <2>1. r.epoch \in Nat /\ r.mack \in Macks
    BY <1>8, SubframesAssumption, EpochsAssumption
  <2>2. VerifyAndStoreDisclosedKey(disclosed) /\ disclosed.epoch = r.epoch
    BY <1>8 DEF UseMack, Disclosure
  <2>3. disclosed.key \in KeyValues
    BY <2>1, ParsedMack DEF Disclosure
  <2> HIDE DEF disclosed
  <2>4. r.epoch = e + 1 /\ DisclosedKeyStatus(disclosed) = "VerifiedNew"
    <3>1. e \in Int /\ disclosed.epoch \in Nat
      BY <1>3, <2>1, <2>2 DEF e
    <3> QED
      BY <1>1, <1>4, <2>2, <3>1, NextKeyDisclosed
  <2>5. VerifyQueued(queue, r.epoch, keys', reason)
    BY <1>8, <2>4 DEF UseMack, disclosed
  <2>6. queue[s] = entry
    <3>1. ~pending[SlotForMack(pending)].valid
      BY <1>1, SlotChosen
    <3>2. s # SlotForMack(pending)
      BY <1>1, <3>1
    <3> QED
      BY <1>1, <3>2, MackAdded
  <2> HIDE DEF queue
  <2>7. s \in Targets(queue, r.epoch)
    <3>1. r.epoch - 1 = e
      BY <1>3, <2>4 DEF e
    <3> QED
      BY <1>1, <2>6, <3>1 DEF Targets, e
  <2>8. TeslaInv' /\ chain' = chain /\ root' = root
    BY <1>1, <2>1, <2>2, <2>3, DiscloseTeslaInv DEF VerifyAndStoreDisclosedKey
  <2>9. \A t \in Slots : keys'[t].valid => keys'[t].key = ChainKey(chain, root + keys'[t].index)
    BY <2>8 DEF TeslaInv, KeySoundness, KnownSlots, ChainKey
  <2>10. object \in AuthenticatedBy(keys', entry)
    <3>1. \A j \in 1 .. Len(entry.tags) : j \in Nat \ {0}
      BY <1>3
    <3>2. /\ entry.epoch \in Int /\ NextKeyIn(keys', entry.epoch)
          /\ i \in Nat \ {0} /\ entry.tags[i].nav \in NavContents
      BY <1>3, <1>4 DEF e
    <3> QED
      BY <1>1, <2>9, <3>1, <3>2, UsableTagAuthenticates
  <2>11. object \in Authenticated(keys', queue, Targets(queue, r.epoch))
    BY <2>6, <2>7, <2>10 DEF Authenticated
  <2> QED
    BY <2>5, <2>11 DEF VerifyQueued
<1>9. CASE ProcessMack
  <2>1. in_hand.subframe \in Subframes
    BY <1>1, <1>9 DEF HandGenuine, ProcessMack
  <2> QED
    BY <1>5, <1>8, <1>9, <2>1 DEF ProcessMack, teslaVars
<1> QED
  BY <1>5, <1>6, <1>7, <1>9 DEF EngineNext, LoadMaterial, FeedNavigationPage, engineVars, teslaVars

(* In the step in which the key of a queued MACK becomes known, each of    *)
(* its tags that was made with that key for the data in the store          *)
(* authenticates the data, unless the full table gave up the MACK.         *)
THEOREM EngineUsableTagsAuthenticate == EngineSpec => UsableTagsAuthenticate
<1>1. EngineInv /\ [EngineNext]_engineVars =>
        [\A s \in Waiting : \A i \in 1 .. Len(pending[s].tags) :
          LET entry == pending[s]
              tag == entry.tags[i]
              key == ChainKey(chain, entry.epoch + 1)
          IN  /\ \E t \in PendingSlots : ~pending[t].valid
              /\ tag.adkd # "SlowMac" /\ i <= MaxSuccess
              /\ ~HasKeyForTag(keys, entry.epoch, tag.adkd)
              /\ HasKeyForTag(keys', entry.epoch, tag.adkd)
              /\ entry.macseq = key /\ tag.key = key /\ tag.nav = FindForTag(entry, tag)
              /\ MacFunction[chain] = MacFunction[TrustedChain]
              /\ MacFunction[chain] # "Reserved"
              => NavObject(tag.prnd, tag.adkd, tag.nav) \in authenticated_objects']_engineVars
  BY UsableTagStep
<1> QED
  BY <1>1, InitEngineInv, NextEngineInv, PTL DEF EngineSpec, UsableTagsAuthenticate

-----------------------------------------------------------------------------
(***************************************************************************)
(* The types of the engine's state.  Besides EngineInv they need that the  *)
(* queued MACKs carry tags, which the objects are made of.                 *)
(***************************************************************************)
TypeInv == EngineInv /\ EngineTypeOK

(* Steps of the trust store keep its type.                                 *)
LEMMA TrustStepTyped ==
    ASSUME Trust!TrustTypeOK, [Trust!TrustNext]_trustStore
    PROVE  Trust!TrustTypeOK'
<1>1. ASSUME NEW pkr \in Trust!PublicKeys, NEW time \in {0} \cup Epochs,
             Trust!StorePkr(pkr, time), UNCHANGED <<has_root, kroot_list>>
      PROVE  Trust!TrustTypeOK'
  <2>1. PICK s \in Trust!PkrSlots :
          pkr_list' = [pkr_list EXCEPT ![s] = [valid |-> TRUE, time |-> time, pkr |-> pkr]]
    BY <1>1 DEF Trust!StorePkr
  <2>2. [valid |-> TRUE, time |-> time, pkr |-> pkr] \in Trust!PkrEntries
    BY DEF Trust!PkrEntries
  <2> QED
    BY <1>1, <2>1, <2>2 DEF Trust!TrustTypeOK
<1>2. CASE Trust!SetMerkleRoot
  BY <1>2 DEF Trust!SetMerkleRoot, Trust!TrustTypeOK
<1>3. CASE Trust!LoadKey
  <2>1. PICK k \in LoadedKeys : Trust!AddTrustedPublicKey(k)
    BY <1>3 DEF Trust!LoadKey
  <2>2. k \in Trust!PublicKeys
    BY MaterialAssumption DEF Trust!PublicKeys
  <2> QED
    BY <1>1, <2>1, <2>2 DEF Trust!AddTrustedPublicKey
<1>4. CASE Trust!ReceivePkr
  <2>1. PICK pkr \in Trust!Pkrs, t \in Epochs : Trust!AddPkr(pkr, t)
    BY <1>4 DEF Trust!ReceivePkr
  <2>2. CASE UNCHANGED pkr_list
    BY <2>1, <2>2 DEF Trust!AddPkr, Trust!TrustTypeOK
  <2>3. CASE Trust!VerifyPkr(pkr) /\ Trust!StorePkr(pkr, t)
    <3>1. pkr \in Trust!PublicKeys
      BY <2>3 DEF Trust!VerifyPkr, Trust!Pkrs, Trust!PublicKeys
    <3> QED
      BY <1>1, <2>1, <2>3, <3>1 DEF Trust!AddPkr
  <2> QED
    BY <2>1, <2>2, <2>3 DEF Trust!AddPkr
<1>5. CASE Trust!ReceiveKroot
  <2>1. PICK kroot \in Trust!SignedKroots, t \in Epochs : Trust!AddKroot(kroot, t)
    BY <1>5 DEF Trust!ReceiveKroot
  <2>2. CASE UNCHANGED kroot_list
    BY <2>1, <2>2 DEF Trust!AddKroot, Trust!TrustTypeOK
  <2>3. CASE \E s \in Trust!KrootSlots :
               kroot_list' = [kroot_list EXCEPT ![s] =
                               [valid |-> TRUE, time |-> t, kroot |-> kroot]]
    <3>1. [valid |-> TRUE, time |-> t, kroot |-> kroot] \in Trust!KrootEntries
      BY DEF Trust!KrootEntries
    <3> QED
      BY <2>1, <2>3, <3>1 DEF Trust!AddKroot, Trust!TrustTypeOK
  <2> QED
    BY <2>1, <2>2, <2>3 DEF Trust!AddKroot
<1>6. CASE Trust!Reset
  BY <1>6 DEF Trust!Reset, Trust!TrustTypeOK, Trust!PkrEntries, Trust!KrootEntries
<1>7. CASE UNCHANGED trustStore
  BY <1>7 DEF trustStore, Trust!TrustTypeOK
<1> QED
  BY <1>2, <1>3, <1>4, <1>5, <1>6, <1>7 DEF Trust!TrustNext

(* What a run over typed MACKs authenticates is typed.                     *)
LEMMA AuthenticatedTyped ==
    ASSUME NEW ks, NEW queue, \A s \in PendingSlots : queue[s] \in Entries, NEW epoch
    PROVE  Authenticated(ks, queue, Targets(queue, epoch)) \subseteq Objects
<1> SUFFICES ASSUME NEW o \in Authenticated(ks, queue, Targets(queue, epoch))
             PROVE  o \in Objects
  OBVIOUS
<1>1. PICK s \in Targets(queue, epoch) : o \in AuthenticatedBy(ks, queue[s])
  BY DEF Authenticated
<1>2. s \in PendingSlots /\ queue[s].valid
  BY <1>1 DEF Targets
<1>3. queue[s].tags \in Seq(Tags)
  <2>1. queue[s] \in Entries /\ queue[s] # NoEntry
    BY <1>2 DEF NoEntry
  <2>2. queue[s] \in [valid : {TRUE}, prn : Prns, epoch : Epochs, macseq : KeyValues,
                      tags : Seq(Tags), late : BOOLEAN]
    BY <2>1 DEF Entries
  <2> QED
    BY <2>2
<1>4. PICK i \in 1 .. Len(queue[s].tags) :
          o = NavObject(queue[s].tags[i].prnd, queue[s].tags[i].adkd, queue[s].tags[i].nav)
  BY <1>1 DEF AuthenticatedBy, Successes, MatchingTags
<1>5. queue[s].tags[i] \in Tags
  BY <1>3, <1>4
<1> QED
  BY <1>4, <1>5 DEF NavObject, Objects, Tags

(* A MACK that is parsed has the type of a queue entry.                    *)
LEMMA MackTyped ==
    ASSUME NEW sf \in Subframes, sf.mack # NoMack, NEW late \in BOOLEAN
    PROVE  Entry(sf.prn, sf.epoch, ParseMack(sf.mack), late) \in Entries
<1>1. sf.prn \in Prns /\ sf.epoch \in Epochs /\ sf.mack \in Macks
  BY SubframesAssumption
<1>2. ParseMack(sf.mack).macseq \in KeyValues
  BY <1>1 DEF ParseMack, Macks, KeyValues, Junk, ChainKey
<1>3. ParseMack(sf.mack).tags \in Seq(Tags)
  BY <1>1 DEF ParseMack, Macks
<1> QED
  BY <1>1, <1>2, <1>3 DEF Entry, Entries

(* Verifying the queue keeps the types.                                    *)
LEMMA VerifyQueuedTyped ==
    ASSUME NEW ks, NEW queue \in [PendingSlots -> Entries], NEW epoch, NEW reason,
           authenticated_objects \subseteq Objects, VerifyQueued(queue, epoch, ks, reason)
    PROVE  /\ pending' \in [PendingSlots -> Entries]
           /\ authenticated_objects' \subseteq Objects
           /\ result'.state \in {"Unknown", "Yes"}
           /\ done'.output \subseteq done'.objects
           /\ done'.objects \subseteq authenticated_objects'
<1> DEFINE objects == Authenticated(ks, queue, Targets(queue, epoch))
<1>1. objects \subseteq Objects
  BY AuthenticatedTyped
<1>2. /\ authenticated_objects' = authenticated_objects \cup objects
      /\ done'.objects = objects /\ done'.output = NewOutput(objects)
  BY DEF VerifyQueued
<1>3. pending' \in [PendingSlots -> Entries]
  BY DEF VerifyQueued, Entries
<1>4. result'.state \in {"Unknown", "Yes"}
  BY DEF VerifyQueued, Result, Unknown
<1>5. NewOutput(objects) \subseteq objects
  BY DEF NewOutput
<1> HIDE DEF objects
<1> QED
  BY <1>1, <1>2, <1>3, <1>4, <1>5

LEMMA ProcessMackTyped == TypeInv /\ ProcessMack => EngineTypeOK'
<1> SUFFICES ASSUME TypeInv, ProcessMack PROVE EngineTypeOK'
  OBVIOUS
<1> DEFINE sf == in_hand.subframe
           late == HasKeyForTag(keys, sf.epoch, "InavCed")
           entry == Entry(sf.prn, sf.epoch, ParseMack(sf.mack), late)
           queue == AddPendingMack(pending, entry)
<1>1. TeslaTypeOK'
  BY NextEngineInv DEF TypeInv, EngineNext, EngineInv, TeslaInv
<1>2. Trust!TrustTypeOK'
  BY DEF TypeInv, EngineTypeOK, ProcessMack, trustStore, Trust!TrustTypeOK
<1>3. /\ nav' \in [Prns \X NavKinds \X NavEpochs -> NavContents \cup {NoNav}]
      /\ now' \in NavEpochs \cup {0}
  BY DEF TypeInv, EngineTypeOK, ProcessMack
<1>4. in_hand' = NoSubframe
  BY DEF ProcessMack
<1> DEFINE Typed ==
             /\ pending' \in [PendingSlots -> Entries]
             /\ authenticated_objects' \subseteq Objects
             /\ result'.state \in {"Unknown", "Yes"}
             /\ done'.output \subseteq done'.objects
             /\ done'.objects \subseteq authenticated_objects'
<1>5. ASSUME UNCHANGED <<pending, authenticated_objects>>, done' = Nothing,
             result'.state = "Unknown"
      PROVE  Typed
  BY <1>5 DEF TypeInv, EngineTypeOK, Nothing
<1>6. ASSUME sf.mack # NoMack, UseMack(sf, in_hand.reason)
      PROVE  Typed
  <2>1. sf \in Subframes
    BY DEF TypeInv, EngineInv, HandGenuine, ProcessMack
  <2>2. late \in BOOLEAN
    BY DEF HasKeyForTag
  <2>3. entry \in Entries
    BY <1>6, <2>1, <2>2, MackTyped
  <2>4. queue \in [PendingSlots -> Entries] /\ authenticated_objects \subseteq Objects
    BY <2>3 DEF TypeInv, EngineTypeOK, AddPendingMack
  <2>5. \/ VerifyQueued(queue, sf.epoch, keys', in_hand.reason)
        \/ /\ pending' = queue /\ UNCHANGED authenticated_objects /\ done' = Nothing
           /\ \E reason : result' = Unknown(reason)
    BY <1>6, ZenonT(30) DEF UseMack
  <2> HIDE DEF queue
  <2>6. CASE VerifyQueued(queue, sf.epoch, keys', in_hand.reason)
    BY <2>4, <2>6, VerifyQueuedTyped, ZenonT(30)
  <2>7. CASE /\ pending' = queue /\ UNCHANGED authenticated_objects /\ done' = Nothing
             /\ \E reason : result' = Unknown(reason)
    BY <2>4, <2>7 DEF Nothing, Unknown, Result
  <2> QED
    BY <2>5, <2>6, <2>7
<1>7. ASSUME NEW reason, result' = Unknown(reason) PROVE result'.state = "Unknown"
  BY <1>7 DEF Unknown, Result
<1> HIDE DEF Typed
<1>8. Typed
  <2>1. CASE UNCHANGED <<teslaVars, pending, authenticated_objects>> /\ done' = Nothing
             /\ \E reason : result' = Unknown(reason)
    BY <1>5, <1>7, <2>1
  <2>2. CASE sf.mack # NoMack /\ UseMack(sf, in_hand.reason)
    BY <1>6, <2>2
  <2>3. \/ UseMack(sf, in_hand.reason) /\ sf.mack # NoMack
        \/ /\ UNCHANGED <<teslaVars, pending, authenticated_objects>> /\ done' = Nothing
           /\ \E reason : result' = Unknown(reason)
    BY ZenonT(30) DEF ProcessMack
  <2> QED
    BY <2>1, <2>2, <2>3
<1> QED
  BY <1>1, <1>2, <1>3, <1>4, <1>8 DEF EngineTypeOK, Typed

LEMMA CleanNavTyped ==
    ASSUME nav \in [Prns \X NavKinds \X NavEpochs -> NavContents \cup {NoNav}],
           NEW epoch, NEW lifetime
    PROVE  CleanNav(epoch, lifetime) \in [Prns \X NavKinds \X NavEpochs -> NavContents \cup {NoNav}]
  BY DEF CleanNav

LEMMA ProcessSubframeTyped ==
    ASSUME TypeInv, NEW sf \in Subframes, ProcessSubframe(sf), Tick(sf.epoch),
           EngineInv', Trust!TrustTypeOK'
    PROVE  EngineTypeOK'
<1>1. TeslaTypeOK'
  BY DEF EngineInv, TeslaInv
<1>2. nav' \in [Prns \X NavKinds \X NavEpochs -> NavContents \cup {NoNav}]
  BY CleanNavTyped DEF TypeInv, EngineTypeOK, ProcessSubframe
<1>3. pending' \in [PendingSlots -> Entries]
  BY DEF TypeInv, EngineTypeOK, ProcessSubframe, CleanPending, Entries
<1>4. now' \in NavEpochs \cup {0}
  BY SubframesAssumption DEF TypeInv, EngineTypeOK, Tick, NavEpochs
<1>5. in_hand' = NoSubframe \/ in_hand'.subframe \in Subframes
  BY DEF ProcessSubframe, Continue, Idle
<1>6. result'.state \in {"Unknown", "Yes"}
  BY DEF TypeInv, EngineTypeOK, ProcessSubframe, Unknown, Result
<1>7. /\ authenticated_objects' \subseteq Objects
      /\ done'.output \subseteq done'.objects /\ done'.objects \subseteq authenticated_objects'
  BY DEF TypeInv, EngineTypeOK, ProcessSubframe, Nothing
<1> QED
  BY <1>1, <1>2, <1>3, <1>4, <1>5, <1>6, <1>7 DEF EngineTypeOK

LEMMA FeedTyped ==
    ASSUME TypeInv, NEW p \in Prns, NEW e \in NavEpochs,
           NEW found \in [NavKinds -> NavContents \cup {NoNav}], FeedNavigationPage(p, e, found),
           EngineInv', Trust!TrustTypeOK'
    PROVE  EngineTypeOK'
<1>1. TeslaTypeOK'
  BY DEF EngineInv, TeslaInv
<1>2. nav' \in [Prns \X NavKinds \X NavEpochs -> NavContents \cup {NoNav}]
  <2>1. PICK lifetime \in {NavLifetime - 1, NavLifetime} :
          nav' = [k \in DOMAIN nav |->
                    IF k[1] = p /\ k[3] = e THEN found[k[2]] ELSE CleanNav(e, lifetime)[k]]
    BY DEF FeedNavigationPage
  <2>2. DOMAIN nav = Prns \X NavKinds \X NavEpochs
    BY DEF TypeInv, EngineTypeOK
  <2>3. CleanNav(e, lifetime) \in [Prns \X NavKinds \X NavEpochs -> NavContents \cup {NoNav}]
    BY CleanNavTyped DEF TypeInv, EngineTypeOK
  <2>4. \A k \in Prns \X NavKinds \X NavEpochs : k[2] \in NavKinds
    OBVIOUS
  <2> QED
    BY <2>1, <2>2, <2>3, <2>4
<1>3. now' \in NavEpochs \cup {0}
  BY DEF TypeInv, EngineTypeOK, FeedNavigationPage, Tick
<1> QED
  BY <1>1, <1>2, <1>3 DEF TypeInv, EngineTypeOK, FeedNavigationPage, Nothing

LEMMA InitTyped == EngineInit => TypeInv
<1> SUFFICES ASSUME EngineInit PROVE TypeInv
  OBVIOUS
<1>1. EngineInv
  BY InitEngineInv
<1>2. Trust!TrustTypeOK
  BY DEF EngineInit, Trust!TrustInit, Trust!TrustTypeOK, Trust!PkrEntries, Trust!KrootEntries
<1>3. /\ pending \in [PendingSlots -> Entries]
      /\ nav \in [Prns \X NavKinds \X NavEpochs -> NavContents \cup {NoNav}]
  BY DEF EngineInit, Entries
<1> QED
  BY <1>1, <1>2, <1>3
  DEF EngineInit, TypeInv, EngineInv, TeslaInv, EngineTypeOK, Unknown, Result, Nothing

LEMMA RestartTyped ==
    ASSUME TypeInv, Restart, EngineInv', Trust!TrustTypeOK'
    PROVE  EngineTypeOK'
<1>1. TeslaTypeOK'
  BY DEF EngineInv, TeslaInv
<1>2. /\ pending' \in [PendingSlots -> Entries]
      /\ nav' \in [Prns \X NavKinds \X NavEpochs -> NavContents \cup {NoNav}]
  BY DEF Restart, Entries, TypeInv, EngineTypeOK
<1> QED
  BY <1>1, <1>2 DEF Restart, EngineTypeOK, Unknown, Result, Nothing

LEMMA NextTyped == TypeInv /\ [EngineNext]_engineVars => TypeInv'
<1> SUFFICES ASSUME TypeInv, [EngineNext]_engineVars PROVE TypeInv'
  OBVIOUS
<1>1. EngineInv'
  BY NextEngineInv DEF TypeInv
<1>2. Trust!TrustTypeOK'
  BY NextTrust, TrustStepTyped DEF TypeInv, EngineTypeOK
<1>3. CASE Restart
  BY <1>1, <1>2, <1>3, RestartTyped DEF TypeInv
<1>4. CASE LoadMaterial
  <2>1. TeslaTypeOK' /\ done'.output = {} /\ done'.objects = {}
    BY <1>1, <1>4 DEF LoadMaterial, EngineInv, TeslaInv, Nothing
  <2>2. UNCHANGED <<pending, nav, authenticated_objects, in_hand, result, now>>
    BY <1>4 DEF LoadMaterial
  <2> QED
    BY <1>1, <1>2, <2>1, <2>2 DEF TypeInv, EngineTypeOK
<1>5. CASE \E p \in Prns, e \in NavEpochs, found \in [NavKinds -> NavContents \cup {NoNav}] :
              FeedNavigationPage(p, e, found)
  BY <1>1, <1>2, <1>5, FeedTyped DEF TypeInv
<1>6. CASE ReceiveSubframe
  BY <1>1, <1>2, <1>6, ProcessSubframeTyped DEF ReceiveSubframe, TypeInv
<1>7. CASE ProcessMack
  BY <1>1, <1>7, ProcessMackTyped DEF TypeInv
<1>8. CASE UNCHANGED engineVars
  BY <1>1, <1>2, <1>8 DEF engineVars, TypeInv, EngineTypeOK, EngineInv, TeslaInv
<1> QED
  BY <1>3, <1>4, <1>5, <1>6, <1>7, <1>8 DEF EngineNext

(* The engine's state has its types in every reachable state: in           *)
(* particular it never puts out what it has not called authentic, and      *)
(* every queued MACK it verifies was cut into typed tags.                  *)
THEOREM EngineTypeCorrect == EngineSpec => []EngineTypeOK
<1>1. TypeInv => EngineTypeOK
  BY DEF TypeInv
<1> QED
  BY <1>1, InitTyped, NextTyped, PTL DEF EngineSpec
=============================================================================

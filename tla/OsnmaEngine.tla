---------------------------- MODULE OsnmaEngine -----------------------------
(***************************************************************************)
(* The authentication engine: class OsnmaEngine with the MAC verifier.     *)
(*                                                                         *)
(* A satellite's MACK carries tags (MACs over navigation data, made with a *)
(* key that is still secret) and the TESLA key of its own subframe.  The   *)
(* engine queues every MACK; when a newly verified key arrives it checks   *)
(* the queued MACKs of the subframe before that key against the navigation *)
(* data it has, once, and hands out what they authenticate.                *)
(*                                                                         *)
(* It owns a TESLA chain (TeslaChain, extended) and a trust store          *)
(* (TrustStore, instantiated).  The DSM assembler and decoder appear as    *)
(* what a subframe makes them return, the navigation candidate store as    *)
(* what it returns for a satellite, kind of data and subframe: both have   *)
(* modules of their own, and any of their results is possible here.        *)
(*                                                                         *)
(* ProcessSubframe runs to its end before anything else is called.  It is  *)
(* written as two actions, cut where its DSM part ends: `in_hand` is the   *)
(* subframe between the two, and nothing but ProcessMack is enabled then.  *)
(***************************************************************************)
EXTENDS TeslaChain, Sequences, FiniteSets

CONSTANTS
    Prns,               \* satellites
    Adkds,              \* kinds of tags in use
    SlowMacDelay,       \* GetNominalDelaySubframes of an ADKD 12 tag (11)
    NavContents,        \* what the navigation words of a subframe can say
    NoNav,              \* no eligible navigation data in the store
    Decodable,          \* contents the I/NAV decoder accepts
    MacFunction,        \* mac_function of each chain
    MaxPending,         \* MAX_PENDING_MACKS
    PendingLifetime,    \* PENDING_MACK_LIFETIME_S, in subframes
    NavLifetime,        \* COMPLETE_LIFETIME_S, in subframes
    MaxSuccess,         \* MAX_SUCCESS_RECORDS
    Transmitted,        \* what each satellite's navigation words really said
    Subframes,          \* the subframes that can reach the receiver
    MaxLateness,        \* by how many subframes the input may be late
    PkIds, Pairs, NoPair, MerkleLeaves, LoadedKeys, MaxPkr, MaxKroot

ASSUME AdkdsAssumption == Adkds \subseteq {"InavCed", "InavTiming", "SlowMac"}
ASSUME NavAssumption == NoNav \notin NavContents /\ Decodable \subseteq NavContents
ASSUME BoundsAssumption ==
    /\ SlowMacDelay \in Nat \ {0} /\ MaxPending \in Nat \ {0} /\ MaxSuccess \in Nat \ {0}
    /\ PendingLifetime \in Nat /\ NavLifetime \in Nat \ {0} /\ MaxLateness \in Nat
ASSUME MacAssumption == MacFunction \in [Chains -> {"HmacSha256", "CmacAes", "Reserved"}]
ASSUME MaterialAssumption == LoadedKeys \subseteq [id : PkIds, pair : Pairs]

VARIABLES
    has_root, pkr_list, kroot_list,     \* trust_store_
    pending,                \* pending_macks_
    nav,                    \* nav_candidate_store_: what FindForAdkd finds
    authenticated_objects,  \* keys of authenticated_objects_
    in_hand,                \* subframe between the two halves of ProcessSubframe
    result,                 \* what ProcessSubframe returned last
    done,                   \* history: what the last action authenticated
    now                     \* newest subframe of the input

Trust == INSTANCE TrustStore WITH Contents <- Kroots, Times <- Epochs

trustStore == <<has_root, pkr_list, kroot_list>>
engineVars == <<teslaVars, trustStore, pending, nav, authenticated_objects,
                in_hand, result, done, now>>

-----------------------------------------------------------------------------
(***************************************************************************)
(* Data.  A tag names what it authenticates, and carries the key and the   *)
(* contents it was made with: a MAC matches when both are those of the     *)
(* receiver (and the MAC function too).  macseq is the key MACSEQ was made *)
(* with.  Slots of the MAC look-up table that do not fit their tag are     *)
(* skipped by the verifier; they are left out of tags.  tags[1] is Tag0.   *)
(***************************************************************************)
NavKind(adkd) == IF adkd = "InavTiming" THEN "timing" ELSE "ced"
NavKinds == {NavKind(a) : a \in Adkds}
NavEpochs == {e - 1 : e \in Epochs} \cup Epochs

Tags == [adkd : Adkds, prnd : Prns, key : KeyValues, nav : NavContents]
Macks == [chain : Chains, key : ReceivableKeys, macseq : KeyValues, tags : Seq(Tags)]
NoMack == [chain |-> NoChain]

NoDsm == [type |-> "None"]
BadDsm == [type |-> "Undecodable"]
PkrDsm(pkr) == [type |-> "Pkr", pkr |-> pkr]
KrootDsm(kroot) == [type |-> "Kroot", kroot |-> kroot]

(* What reaches ProcessSubframe: dsm is what the assembler and the decoder *)
(* make of its HKROOT field, mack is NoMack when the field is all zero.    *)
Dsms == {NoDsm, BadDsm} \cup {PkrDsm(pkr) : pkr \in Trust!Pkrs}
            \cup {KrootDsm(kroot) : kroot \in Trust!SignedKroots}
ASSUME SubframesAssumption ==
    \A sf \in Subframes :
        /\ sf.prn \in Prns /\ sf.epoch \in Epochs /\ sf.hkroot \in BOOLEAN
        /\ sf.dsm \in Dsms /\ sf.mack \in Macks \cup {NoMack}

(* The premise of TESLA.  While a key is secret, only the satellites can   *)
(* make tags with it: a tag made with a key that the chain discloses after *)
(* the subframe the MACK is stamped with is for data really transmitted in *)
(* the subframe before it.  Of other tags nothing is assumed.              *)
ASSUME SecrecyAssumption ==
    \A sf \in Subframes : sf.mack # NoMack =>
        \A i \in 1 .. Len(sf.mack.tags) :
            LET tag == sf.mack.tags[i] IN
            tag.key.chain \in Chains /\ tag.key.epoch > sf.epoch =>
                tag.nav = Transmitted[tag.prnd, NavKind(tag.adkd), sf.epoch - 1]

PendingSlots == 0 .. (MaxPending - 1)
NoEntry == [valid |-> FALSE]
Entry(prn, epoch, mack, late) ==
    [valid |-> TRUE, prn |-> prn, epoch |-> epoch, macseq |-> mack.macseq,
     tags |-> mack.tags, late |-> late]

NavObject(prnd, adkd, content) == [prnd |-> prnd, adkd |-> adkd, content |-> content]

Waiting == {s \in PendingSlots : pending[s].valid}
NoSubframe == [prn |-> 0]
Idle == in_hand = NoSubframe

Result(state, reason) == [state |-> state, reason |-> reason]
Unknown(reason) == Result("Unknown", reason)
Nothing == [objects |-> {}, output |-> {}, late |-> FALSE]

TrustedChain == Trust!GetTrustedKroot.content.chain

-----------------------------------------------------------------------------
(* Keys for tags: GetNominalDelaySubframes, ComputeKeyIndexForTag.  ks is  *)
(* the key table to look in.                                               *)
KeyOfSameSubframe(adkd) == IF adkd = "SlowMac" THEN SlowMacDelay ELSE 0
KeyDelay(adkd) == IF adkd = "SlowMac" THEN SlowMacDelay ELSE 1

SlotsForTag(ks, epoch, adkd) ==
    {s \in Slots : /\ ks[s].valid
                   /\ DisclosureIndex(epoch) >= 0
                   /\ ks[s].index = DisclosureIndex(epoch) + KeyDelay(adkd)}
HasKeyForTag(ks, epoch, adkd) == SlotsForTag(ks, epoch, adkd) # {}
GetKeyForTag(ks, epoch, adkd) == ks[CHOOSE s \in SlotsForTag(ks, epoch, adkd) : TRUE].key

(* NavDataLookupTime: tags authenticate the data of the subframe before.   *)
FindForTag(entry, tag) == nav[tag.prnd, NavKind(tag.adkd), entry.epoch - 1]
HasNavFor(entry, tag) == FindForTag(entry, tag) # NoNav

(* A MAC over (content, key) as the receiver computes it with the MAC      *)
(* function of the trusted KROOT equals the received one.                  *)
MacMatches(received, held) ==
    received = held /\ held.chain \in Chains /\ MacFunction[held.chain] = MacFunction[TrustedChain]

TagMatches(ks, entry, tag) ==
    /\ HasNavFor(entry, tag)
    /\ HasKeyForTag(ks, entry.epoch, tag.adkd)
    /\ MacMatches(tag.key, GetKeyForTag(ks, entry.epoch, tag.adkd))
    /\ tag.nav = FindForTag(entry, tag)

-----------------------------------------------------------------------------
(***************************************************************************)
(* OsnmaMacVerifier::Verify.  MACSEQ first; then every tag, of which the   *)
(* first MaxSuccess that match are recorded (AddSuccess); then the reason  *)
(* why none did.  The MAC input can be built for any eligible data.        *)
(***************************************************************************)
MatchingTags(ks, entry) ==
    {i \in 1 .. Len(entry.tags) : TagMatches(ks, entry, entry.tags[i])}
Successes(ks, entry) ==
    {i \in MatchingTags(ks, entry) :
        Cardinality({j \in MatchingTags(ks, entry) : j < i}) < MaxSuccess}

Verdict(ks, entry) ==
    LET tags == {entry.tags[i] : i \in 1 .. Len(entry.tags)}
        found == {t \in tags : HasNavFor(entry, t)}
    IN  IF ~HasKeyForTag(ks, entry.epoch, "InavCed") THEN "WaitingForKey"
        ELSE IF MacFunction[TrustedChain] = "Reserved" THEN "UnsupportedMessage"
        ELSE IF ~MacMatches(entry.macseq, GetKeyForTag(ks, entry.epoch, "InavCed"))
             THEN "MacseqFailed"
        ELSE IF MatchingTags(ks, entry) # {} THEN "Yes"
        ELSE IF found = {} THEN "MissingNavData"
        ELSE IF \A t \in found : ~HasKeyForTag(ks, entry.epoch, t.adkd) THEN "WaitingForKey"
        ELSE "MackVerificationFailed"

(***************************************************************************)
(* ProcessMacksForDisclosedKey: the queued MACKs of the subframe before    *)
(* that of the new key, verified in the order of the table.  Each leaves   *)
(* the table unless its verdict is WaitingForKey.                          *)
(***************************************************************************)
Targets(queue, key_epoch) ==
    {s \in PendingSlots : queue[s].valid /\ queue[s].epoch = key_epoch - 1}

KeptWhenMissingNav(ks, entry) == Verdict(ks, entry) \in {"WaitingForKey", "MissingNavData"}
KeptForLater(ks, entry) == Verdict(ks, entry) = "WaitingForKey"

RunReason(ks, queue, targets) ==
    LET verdicts == {Verdict(ks, queue[s]) : s \in targets}
        terminal == {"MackVerificationFailed", "UnsupportedMessage"}
        last == CHOOSE s \in targets :
                    /\ Verdict(ks, queue[s]) \in terminal
                    /\ \A t \in targets : Verdict(ks, queue[t]) \in terminal => t <= s
    IN  IF targets = {} THEN "WaitingForMoreFrames"
        ELSE IF "WaitingForKey" \in verdicts THEN "WaitingForKey"
        ELSE IF "MissingNavData" \in verdicts THEN "MissingNavData"
        ELSE IF verdicts \cap terminal # {} THEN Verdict(ks, queue[last])
        ELSE "WaitingForKey"

(* RegisterMacSuccesses: the objects a MACK authenticates; one that was    *)
(* never authenticated before is decoded and put out.                      *)
AuthenticatedBy(ks, entry) ==
    IF Verdict(ks, entry) # "Yes" THEN {}
    ELSE {NavObject(entry.tags[i].prnd, entry.tags[i].adkd, entry.tags[i].nav) :
            i \in Successes(ks, entry)}

FirstMackOnly(ks, queue, targets) ==
    UNION {AuthenticatedBy(ks, queue[s]) : s \in {t \in targets : \A u \in targets : t <= u}}
Authenticated(ks, queue, targets) ==
    UNION {AuthenticatedBy(ks, queue[s]) : s \in targets}

AllSoFar(objects) == {o \in objects \cup authenticated_objects : o.content \in Decodable}
NewOutput(objects) == {o \in objects \ authenticated_objects : o.content \in Decodable}

-----------------------------------------------------------------------------
(***************************************************************************)
(* The table of queued MACKs.                                              *)
(***************************************************************************)
(* CleanupPendingMacks: older than the lifetime, or of a later subframe    *)
(* than the one just received.                                             *)
IsExpiredMack(entry, epoch) ==
    epoch < entry.epoch \/ epoch - entry.epoch > PendingLifetime

CleanPending(queue, epoch) ==
    [s \in PendingSlots |->
        IF queue[s].valid /\ IsExpiredMack(queue[s], epoch) THEN NoEntry ELSE queue[s]]

FirstSlotIfFull(queue) ==
    IF \A s \in PendingSlots : queue[s].valid THEN 0
    ELSE CHOOSE s \in PendingSlots :
            ~queue[s].valid /\ \A t \in PendingSlots : t < s => queue[t].valid
(* AddPendingMack: the first free slot, or the first of the oldest.        *)
SlotForMack(queue) ==
    IF \A s \in PendingSlots : queue[s].valid
    THEN CHOOSE s \in PendingSlots : \A t \in PendingSlots :
            \/ queue[s].epoch < queue[t].epoch
            \/ queue[s].epoch = queue[t].epoch /\ s <= t
    ELSE CHOOSE s \in PendingSlots :
            ~queue[s].valid /\ \A t \in PendingSlots : t < s => queue[t].valid

AddPendingMack(queue, entry) == [queue EXCEPT ![SlotForMack(queue)] = entry]

(* The navigation store drops what is older than its lifetime.             *)
CleanNav(epoch, lifetime) ==
    [k \in DOMAIN nav |-> IF epoch - k[3] > lifetime THEN NoNav ELSE nav[k]]

-----------------------------------------------------------------------------
(***************************************************************************)
(* The DSM part.  A failure is remembered (the reason) but never ends the  *)
(* processing of the subframe.                                             *)
(***************************************************************************)
KeepTrust == UNCHANGED <<teslaVars, trustStore>>

StoreUnverified(pkr, epoch, reason) ==
    Trust!StorePkr(pkr, epoch) /\ reason = "None" /\ UNCHANGED <<has_root, kroot_list>>
HandlePkr(pkr, epoch, reason) ==
    /\ Trust!AddPkr(pkr, epoch)
    /\ reason = IF Trust!VerifyPkr(pkr) THEN "None" ELSE "MerkleVerificationFailed"

RestartChain(content, reason) ==
    InitializeFromKroot(content) /\ reason = IF content.usable THEN "None" ELSE "UnsupportedMessage"
(* A verified KROOT starts the chain, unless it is started already.        *)
StartChain(content, reason) ==
    \/ initialized /\ reason = "None" /\ UNCHANGED teslaVars
    \/ /\ ~initialized
       /\ InitializeFromKroot(content)
       /\ reason = IF content.usable THEN "None" ELSE "UnsupportedMessage"

HandleKroot(kroot, epoch, reason) ==
    /\ Trust!AddKroot(kroot, epoch)
    /\ \/ /\ ~Trust!KrootIsVerified(kroot)
          /\ reason = "SignatureVerificationFailed"
          /\ UNCHANGED teslaVars
       \/ /\ Trust!KrootIsVerified(kroot)
          /\ StartChain(kroot.content, reason)

HandleDsm(dsm, epoch, reason) ==
    \/ dsm.type = "None" /\ reason = "None" /\ KeepTrust
    \/ dsm.type = "Undecodable" /\ reason = "InvalidFrameFormat" /\ KeepTrust
    \/ dsm.type = "Pkr" /\ HandlePkr(dsm.pkr, epoch, reason) /\ UNCHANGED teslaVars
    \/ dsm.type = "Kroot" /\ HandleKroot(dsm.kroot, epoch, reason)

(* Both fields all zero: the satellite does not transmit OSNMA.            *)
IsOsnmaNotTransmitted(sf) == ~sf.hkroot /\ sf.mack = NoMack

AbortOnDsmFailure(sf, reason) ==
    in_hand' = IF reason = "None" THEN [subframe |-> sf, reason |-> reason] ELSE NoSubframe
Continue(sf, reason) == in_hand' = [subframe |-> sf, reason |-> reason]

ProcessSubframe(sf) ==
    /\ Idle
    /\ nav' = CleanNav(sf.epoch, NavLifetime)
    /\ pending' = CleanPending(pending, sf.epoch)
    /\ \/ /\ IsOsnmaNotTransmitted(sf)
          /\ result' = Unknown("NoOsnmaData")
          /\ KeepTrust
          /\ UNCHANGED in_hand
       \/ /\ ~IsOsnmaNotTransmitted(sf)
          /\ \E reason \in {"None", "InvalidFrameFormat", "MerkleVerificationFailed",
                             "SignatureVerificationFailed", "UnsupportedMessage"} :
                HandleDsm(sf.dsm, sf.epoch, reason) /\ Continue(sf, reason)
          /\ UNCHANGED result
    /\ done' = Nothing
    /\ UNCHANGED authenticated_objects

-----------------------------------------------------------------------------
(***************************************************************************)
(* The MACK part of ProcessSubframe.                                       *)
(***************************************************************************)
(* ParseMack cuts the MACK with the sizes of the trusted KROOT: a MACK of  *)
(* a chain with other sizes still parses, into bits that mean nothing.     *)
ParseMack(mack) ==
    IF KeySize[mack.chain] = KeySize[TrustedChain] THEN mack
    ELSE [mack EXCEPT !.key = Junk, !.macseq = Junk]

Disclosure(mack, epoch) ==
    [epoch |-> epoch, key |-> mack.key, key_size |-> KeySize[TrustedChain]]

(* A DSM failure is reported when the MACK gives nothing better to report. *)
ResultReason(dsm_reason, reason) ==
    IF dsm_reason # "None" /\ reason \in {"WaitingForKey", "WaitingForMoreFrames"}
    THEN dsm_reason ELSE reason

(* The MACK is queued, then its key is verified, then the MACKs that the   *)
(* new key concerns are verified (ks and queue: both tables by then).      *)
VerifyQueued(queue, epoch, ks, dsm_reason) ==
    LET targets == Targets(queue, epoch)
        objects == Authenticated(ks, queue, targets)
        verified == {s \in targets : Verdict(ks, queue[s]) = "Yes"}
    IN  /\ pending' = [s \in PendingSlots |->
                          IF s \in targets /\ ~KeptForLater(ks, queue[s])
                          THEN NoEntry ELSE queue[s]]
        /\ authenticated_objects' = authenticated_objects \cup objects
        /\ done' = [objects |-> objects, output |-> NewOutput(objects),
                    late |-> \E s \in verified : queue[s].late]
        /\ result' = IF verified # {} THEN Result("Yes", "None")
                     ELSE Unknown(ResultReason(dsm_reason, RunReason(ks, queue, targets)))

ReasonOfKeyAlone(status, disclosed, dsm_reason) ==
    IF status \in {"WaitingForKey", "IgnoredSameOrOlder"} THEN "WaitingForKey" ELSE "InvalidTime"
(* Why the disclosed key of this subframe verified no MACK.                *)
ReasonOfStatus(status, disclosed, dsm_reason) ==
    CASE status \in {"WaitingForKey", "IgnoredSameOrOlder"} ->
            ResultReason(dsm_reason, "WaitingForKey")
      [] status = "VerificationFailed" -> "TeslaChainVerificationFailed"
      [] status = "Invalid" -> IF disclosed.key_size # KeySize[chain]
                               THEN "InvalidFrameFormat" ELSE "InvalidTime"

UseMack(sf, dsm_reason) ==
    LET mack == ParseMack(sf.mack)
        disclosed == Disclosure(mack, sf.epoch)
        status == DisclosedKeyStatus(disclosed)
        late == HasKeyForTag(keys, sf.epoch, "InavCed")
        entry == Entry(sf.prn, sf.epoch, mack, late)
    IN  /\ VerifyAndStoreDisclosedKey(disclosed)
        /\ \E queue \in {AddPendingMack(pending, entry)}, ks \in {keys'} :
            \/ status = "VerifiedNew" /\ VerifyQueued(queue, sf.epoch, ks, dsm_reason)
            \/ /\ status # "VerifiedNew"
               /\ pending' = queue
               /\ result' = Unknown(ReasonOfStatus(status, disclosed, dsm_reason))
               /\ done' = Nothing
               /\ UNCHANGED authenticated_objects

ProcessMack ==
    /\ ~Idle
    /\ LET sf == in_hand.subframe IN
        \/ /\ sf.mack = NoMack
           /\ result' = Unknown("InvalidFrameFormat")
           /\ done' = Nothing
           /\ UNCHANGED <<teslaVars, pending, authenticated_objects>>
        \/ /\ sf.mack # NoMack /\ ~Trust!HasTrustedKroot
           /\ result' = Unknown(ResultReason(in_hand.reason, "WaitingForKey"))
           /\ done' = Nothing
           /\ UNCHANGED <<teslaVars, pending, authenticated_objects>>
        \/ /\ sf.mack # NoMack /\ Trust!HasTrustedKroot
           /\ UseMack(sf, in_hand.reason)
    /\ in_hand' = NoSubframe
    /\ UNCHANGED <<trustStore, nav, now>>

-----------------------------------------------------------------------------
(***************************************************************************)
(* The callers.  The authenticator feeds every page to the store and every *)
(* complete subframe to ProcessSubframe; a subframe can be lost, or handed *)
(* over twice, or (up to MaxLateness subframes) late.                      *)
(***************************************************************************)
OnTime(epoch) == epoch >= now - MaxLateness
Tick(epoch) == now' = IF epoch > now THEN epoch ELSE now

(* Pages of satellite p in subframe epoch: afterwards the store has found  *)
(* for it and that subframe.  Old data expires, at a limit that depends on *)
(* the page's place in its subframe.                                       *)
FeedNavigationPage(p, epoch, found) ==
    /\ Idle /\ OnTime(epoch)
    /\ \E lifetime \in {NavLifetime - 1, NavLifetime} :
        nav' = [k \in DOMAIN nav |->
                  IF k[1] = p /\ k[3] = epoch THEN found[k[2]]
                  ELSE CleanNav(epoch, lifetime)[k]]
    /\ Tick(epoch)
    /\ done' = Nothing
    /\ UNCHANGED <<teslaVars, trustStore, pending, authenticated_objects, in_hand, result>>

ReceiveSubframe ==
    \E sf \in Subframes : OnTime(sf.epoch) /\ ProcessSubframe(sf) /\ Tick(sf.epoch)

LoadMaterial ==
    /\ Idle
    /\ Trust!SetMerkleRoot \/ Trust!LoadKey
    /\ done' = Nothing
    /\ UNCHANGED <<teslaVars, pending, nav, authenticated_objects, in_hand, result, now>>

EngineInit ==
    /\ TeslaInit
    /\ Trust!TrustInit
    /\ pending = [s \in PendingSlots |-> NoEntry]
    /\ nav = [k \in Prns \X NavKinds \X NavEpochs |-> NoNav]
    /\ authenticated_objects = {}
    /\ in_hand = NoSubframe
    /\ result = Unknown("None")
    /\ done = Nothing
    /\ now = 0

Restart ==
    /\ Idle
    /\ Reset
    /\ Trust!Reset
    /\ pending' = [s \in PendingSlots |-> NoEntry]
    /\ nav' = [k \in DOMAIN nav |-> NoNav]
    /\ authenticated_objects' = {}
    /\ in_hand' = NoSubframe
    /\ result' = Unknown("None")
    /\ done' = Nothing
    /\ now' = 0

EngineNext ==
    \/ Restart
    \/ LoadMaterial
    \/ \E p \in Prns, e \in NavEpochs, found \in [NavKinds -> NavContents \cup {NoNav}] :
            FeedNavigationPage(p, e, found)
    \/ ReceiveSubframe
    \/ ProcessMack

EngineSpec == EngineInit /\ [][EngineNext]_engineVars

-----------------------------------------------------------------------------
(* The engine uses its parts as their specifications say: every step of it *)
(* is a step of the TESLA chain's or leaves the chain alone (TeslaSpec),   *)
(* and the same for the trust store.                                       *)
TrustStoreSpec == Trust!TrustSpec

Entries == {NoEntry} \cup
    [valid : {TRUE}, prn : Prns, epoch : Epochs, macseq : KeyValues,
     tags : Seq(Tags), late : BOOLEAN]
Objects == [prnd : Prns, adkd : Adkds, content : NavContents]

EngineTypeOK ==
    /\ TeslaTypeOK
    /\ Trust!TrustTypeOK
    /\ pending \in [PendingSlots -> Entries]
    /\ nav \in [Prns \X NavKinds \X NavEpochs -> NavContents \cup {NoNav}]
    /\ authenticated_objects \subseteq Objects
    /\ in_hand = NoSubframe \/ in_hand.subframe \in Subframes
    /\ result.state \in {"Unknown", "Yes"}
    /\ done.output \subseteq done.objects /\ done.objects \subseteq authenticated_objects
    /\ now \in NavEpochs \cup {0}

(* What the receiver calls authentic, the satellite did transmit.          *)
AuthenticSound ==
    \A o \in authenticated_objects :
        \E e \in NavEpochs : Transmitted[o.prnd, NavKind(o.adkd), e] = o.content

(* The TESLA rule on the receiver's side: tags only count when their MACK  *)
(* was queued before the receiver knew the key they were made with.  A     *)
(* MACK that comes late, or again, after its key is never verified.        *)
KeyKnownOnlyAfterMack == ~done.late

(* A MACK that was queued in time does not linger once its key is known:   *)
(* it was verified and is gone, unless slow MAC tags keep it.              *)
VerifiedMacksLeave ==
    \A s \in Waiting :
        ~pending[s].late /\ HasKeyForTag(keys, pending[s].epoch, "InavCed") =>
            \E i \in 1 .. Len(pending[s].tags) : pending[s].tags[i].adkd = "SlowMac"

(* No usable tag is passed over: when the key of a queued MACK becomes     *)
(* known, every tag of it (of its first MaxSuccess) that was made with     *)
(* that key for the data the store holds authenticates the data in the     *)
(* same step, whatever other MACKs wait.  (A full table may give up the    *)
(* MACK for the one just received.)                                        *)
UsableTagsAuthenticate ==
    [][\A s \in Waiting : \A i \in 1 .. Len(pending[s].tags) :
          LET entry == pending[s]
              tag == entry.tags[i]
              key == ChainKey(chain, entry.epoch + 1)
          IN  /\ \E t \in PendingSlots : ~pending[t].valid
              /\ tag.adkd # "SlowMac" /\ i <= MaxSuccess
              /\ ~HasKeyForTag(keys, entry.epoch, tag.adkd)
              /\ HasKeyForTag(keys', entry.epoch, tag.adkd)
              /\ entry.macseq = key /\ tag.key = key /\ tag.nav = FindForTag(entry, tag)
              /\ MacFunction[chain] = MacFunction[TrustedChain]
              /\ MacFunction[chain] # "Reserved"
              => NavObject(tag.prnd, tag.adkd, tag.nav) \in authenticated_objects']_engineVars

(* A full table gives up a MACK only for a newer one, the oldest first.    *)
OldestOverwritten ==
    [][\A s \in Waiting :
          pending'[s].valid /\ pending'[s] # pending[s] =>
              \A t \in Waiting : pending[s].epoch <= pending[t].epoch]_engineVars

(* One step of several failing: the rest of a subframe whose DSM failed is *)
(* processed all the same, and unless its MACK authenticates something the *)
(* failure is not passed off as waiting (result_reason, on five ways out). *)
DsmFailureReported ==
    [][~Idle /\ in_hand.reason # "None" /\ result'.state # "Yes" =>
          result'.reason \notin {"WaitingForKey", "WaitingForMoreFrames"}]_engineVars

(* "Pending MACK expired before successful processing" (osnma_engine.cpp   *)
(* 771): a MACK whose key can still come is given up before its lifetime   *)
(* of 900 s only when the table is full.                                   *)
ExpiredOnlyWhenOld ==
    [][Idle => \A s \in Waiting :
          pending'[s] = NoEntry /\ now' # 0 => now' - pending[s].epoch > PendingLifetime]_engineVars
=============================================================================

----------------------------- MODULE TeslaChain -----------------------------
(***************************************************************************)
(* The TESLA key chain of the receiver: class OsnmaTeslaChain.             *)
(*                                                                         *)
(* The satellites disclose, in every 30 s subframe, one key of a one-way   *)
(* chain.  The receiver starts from the root key of a signature-verified   *)
(* DSM-KROOT, accepts a disclosed key when hashing it down the chain gives *)
(* a key it already holds, and keeps the accepted keys in a table of       *)
(* MAX_STORED_KEYS entries.                                                *)
(*                                                                         *)
(* Time is counted in subframes: every epoch the class is given is a       *)
(* multiple of 30 s (SubframeEpochFromTime rounds page times down, KROOT   *)
(* times are whole hours), so (time - root) / 30 is exact.                 *)
(***************************************************************************)
EXTENDS Integers

CONSTANTS
    Chains,         \* TESLA chains: hash function, alpha and sizes of a KROOT
    NoChain,        \* no chain: the parameters before initialisation
    MaxStoredKeys,  \* MAX_STORED_KEYS, entries of keys_
    KeySize,        \* key_size_bytes of each chain
    Epochs          \* subframe epochs that messages carry

ASSUME ChainsAssumption == NoChain \notin Chains
ASSUME MaxStoredKeysAssumption == MaxStoredKeys \in Nat \ {0}
ASSUME KeySizeAssumption == KeySize \in [Chains -> Nat \ {0}]
ASSUME EpochsAssumption == Epochs \subseteq Nat \ {0}

VARIABLES
    initialized,    \* initialized_
    chain,          \* hash_function_, alpha_, key_size_bits_, mac_lookup_table_
    root,           \* root_wn_, root_tow_s_: the subframe of the key of index 0
    keys            \* keys_: the table of verified keys

teslaVars == <<initialized, chain, root, keys>>

-----------------------------------------------------------------------------
(***************************************************************************)
(* Keys.  ChainKey(c, e) is the key that chain c discloses in subframe e.  *)
(* Any other bit string (a key damaged on the way, the digest of one) is   *)
(* Junk.                                                                   *)
(***************************************************************************)
ChainKey(c, e) == [chain |-> c, epoch |-> e]
Junk == ChainKey(NoChain, 0)
KeyValues == [chain : Chains \cup {NoChain}, epoch : Int]

Slots == 0 .. (MaxStoredKeys - 1)
EmptyEntry == [valid |-> FALSE, index |-> -1, key |-> Junk]
KeyEntries == [valid : BOOLEAN, index : Nat \cup {-1}, key : KeyValues]

KnownSlots == {s \in Slots : keys[s].valid}
SlotsOf(i) == {s \in KnownSlots : keys[s].index = i}
HasKey(i) == SlotsOf(i) # {}
GetKey(i) == keys[CHOOSE s \in SlotsOf(i) : TRUE].key

(* ComputeDisclosureIndex: the chain index of the key of subframe e. *)
DisclosureIndex(e) ==
    IF ~initialized \/ e < root THEN -1 ELSE e - root

(***************************************************************************)
(* What the loop over TransformOneStep computes.  One step hashes key,     *)
(* time of the previous index and alpha, so it leads from the chain's key  *)
(* at an index to the chain's key at the index below it, and from anything *)
(* else (other index, other chain, damaged) to bits that are no key.       *)
(***************************************************************************)
HashDown(k, from, to) ==
    IF k = ChainKey(chain, root + from) THEN ChainKey(chain, root + to) ELSE Junk

TrustAnyKey(i, k) == i > 0
HashOnceTooFew(i, k) ==
    /\ i > 0
    /\ \E s \in KnownSlots :
          keys[s].index < i /\ HashDown(k, i, keys[s].index + 1) = keys[s].key

VerifyAgainstKnownKey(i, k) ==
    /\ i > 0
    /\ \E s \in KnownSlots :
          keys[s].index < i /\ HashDown(k, i, keys[s].index) = keys[s].key

(***************************************************************************)
(* Storing a key: the first free entry, or the entry of the smallest index *)
(* when the table is full.  A key already stored is left as it is.         *)
(***************************************************************************)
FirstFreeSlot(s) ==
    ~keys[s].valid /\ \A t \in Slots : t < s => keys[t].valid

EvictNewestSlot(s) == \A t \in Slots : keys[t].valid /\ keys[t].index <= keys[s].index
OldestSlot(s) ==
    \A t \in Slots : keys[t].valid /\ keys[s].index <= keys[t].index

StoreVerifiedKey(i, k) ==
    \/ HasKey(i) /\ UNCHANGED keys
    \/ /\ ~HasKey(i)
       /\ \E s \in Slots :
             /\ FirstFreeSlot(s) \/ OldestSlot(s)
             /\ keys' = [keys EXCEPT ![s] = [valid |-> TRUE, index |-> i, key |-> k]]

-----------------------------------------------------------------------------
(***************************************************************************)
(* A verified KROOT: the chain, the subframe e its GST points to, the root *)
(* key (of subframe e - 1), and whether the chain can use its layout (key  *)
(* size, hash function, time).                                             *)
(***************************************************************************)
Kroot(c, e, usable) ==
    [chain |-> c, epoch |-> e, key |-> ChainKey(c, e - 1), usable |-> usable]
Kroots == {Kroot(c, e, u) : c \in Chains, e \in Epochs, u \in BOOLEAN}

Reset ==
    /\ initialized' = FALSE
    /\ chain' = NoChain
    /\ root' = -1
    /\ keys' = [s \in Slots |-> EmptyEntry]

(* InitializeFromKroot clears everything first, so a KROOT it cannot use   *)
(* leaves the chain uninitialised.                                         *)
InitializeFromKroot(kroot) ==
    \/ ~kroot.usable /\ Reset
    \/ /\ kroot.usable
       /\ initialized' = TRUE
       /\ chain' = kroot.chain
       /\ root' = kroot.epoch - 1
       /\ keys' = [s \in Slots |->
                     IF s = 0 THEN [valid |-> TRUE, index |-> 0, key |-> kroot.key]
                              ELSE EmptyEntry]

(***************************************************************************)
(* VerifyAndStoreDisclosedKeyDetailed(mack).  Of a MACK it reads the       *)
(* subframe epoch, the disclosed key and the key size its parser was given *)
(* (that of the trusted KROOT, which may be of another chain).             *)
(***************************************************************************)

IgnoreNothing(i) == FALSE
IgnoreOnlyOlder(i) == \E s \in KnownSlots : i < keys[s].index
IsSameOrOlder(i) == \E s \in KnownSlots : i <= keys[s].index

DisclosedKeyStatus(m) ==
    LET i == DisclosureIndex(m.epoch) IN
    IF ~initialized THEN "WaitingForKey"
    ELSE IF m.key_size # KeySize[chain] \/ i <= 0 THEN "Invalid"
    ELSE IF IsSameOrOlder(i) THEN "IgnoredSameOrOlder"
    ELSE IF ~VerifyAgainstKnownKey(i, m.key) THEN "VerificationFailed"
    ELSE "VerifiedNew"

VerifyAndStoreDisclosedKey(m) ==
    /\ \/ /\ DisclosedKeyStatus(m) = "VerifiedNew"
          /\ StoreVerifiedKey(DisclosureIndex(m.epoch), m.key)
       \/ /\ DisclosedKeyStatus(m) # "VerifiedNew"
          /\ UNCHANGED keys
    /\ UNCHANGED <<initialized, chain, root>>

(***************************************************************************)
(* The engine initialises the chain from a verified KROOT only while it is *)
(* not initialised, hands it the key of every MACK it parses, and resets   *)
(* it when the application starts over.                                    *)
(***************************************************************************)
TeslaInit ==
    /\ initialized = FALSE
    /\ chain = NoChain
    /\ root = -1
    /\ keys = [s \in Slots |-> EmptyEntry]

InitializeOnce == ~initialized /\ \E kroot \in Kroots : InitializeFromKroot(kroot)

(* The keys that can reach the receiver in subframe e: a key of a chain,   *)
(* with the time of this or of another subframe, or a damaged one.         *)
ReceivableKeys == {ChainKey(c, e) : c \in Chains, e \in Epochs} \cup {Junk}

Disclose ==
    \E e \in Epochs, k \in ReceivableKeys, c \in Chains :
        VerifyAndStoreDisclosedKey([epoch |-> e, key |-> k, key_size |-> KeySize[c]])

TeslaNext == InitializeOnce \/ Disclose \/ Reset

TeslaSpec == TeslaInit /\ [][TeslaNext]_teslaVars

-----------------------------------------------------------------------------
TeslaTypeOK ==
    /\ initialized \in BOOLEAN
    /\ chain \in Chains \cup {NoChain}
    /\ root \in Int
    /\ keys \in [Slots -> KeyEntries]
    /\ initialized => chain \in Chains /\ root \in Nat
    /\ \A s \in Slots : keys[s].valid <=> keys[s].index \in Nat

(* Every key the receiver trusts is the chain's own key for its index: no  *)
(* damaged key, no key of another chain and no key of another subframe     *)
(* passes VerifyAgainstKnownKey, whichever keys are still held and however *)
(* many subframes were lost in between.                                    *)
KeySoundness ==
    \A s \in KnownSlots : keys[s].key = ChainKey(chain, root + keys[s].index)

(* Losing subframes, evicting the root or rejecting damaged keys never     *)
(* cuts the receiver off: the chain's own key of any later subframe is     *)
(* still accepted.                                                         *)
NeverCutOff ==
    initialized =>
        \A e \in Epochs :
            LET m == [epoch |-> e, key |-> ChainKey(chain, e), key_size |-> KeySize[chain]]
            IN  (\A s \in KnownSlots : keys[s].index < e - root) =>
                    DisclosedKeyStatus(m) = "VerifiedNew"

(* Keys become known in chain order only: a key stored by a step is newer  *)
(* than every key held before it.  (The engine relies on it: a MACK is     *)
(* verified in the step that stores its key.)                              *)
ForwardOnly ==
    [][\A s \in Slots :
          keys'[s].valid /\ keys'[s] # keys[s] =>
              \A t \in KnownSlots : keys[t].index < keys'[s].index]_teslaVars

(* A full table gives up its oldest key only: what is lost is older than   *)
(* everything kept.                                                        *)
EvictionDropsOldest ==
    [][\A s \in KnownSlots :
          keys'[s] # keys[s] =>
              \A t \in Slots : keys'[t].valid => keys[s].index < keys'[t].index]_teslaVars
=============================================================================

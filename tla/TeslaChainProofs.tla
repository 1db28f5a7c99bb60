-------------------------- MODULE TeslaChainProofs --------------------------
(* Proofs about TeslaChain, for every set of chains, every table size and  *)
(* every set of subframes.                                                 *)
EXTENDS TeslaChain, TLAPS

(* Storing a key for a chain index keeps the table well-typed.             *)
LEMMA StoreTyped ==
    ASSUME keys \in [Slots -> KeyEntries],
           \A s \in Slots : keys[s].valid <=> keys[s].index \in Nat,
           NEW i \in Nat, NEW k \in KeyValues, StoreVerifiedKey(i, k)
    PROVE  /\ keys' \in [Slots -> KeyEntries]
           /\ \A s \in Slots : keys'[s].valid <=> keys'[s].index \in Nat
<1>1. CASE UNCHANGED keys
  BY <1>1
<1>2. CASE \E s \in Slots :
              keys' = [keys EXCEPT ![s] = [valid |-> TRUE, index |-> i, key |-> k]]
  <2>1. PICK s \in Slots :
              keys' = [keys EXCEPT ![s] = [valid |-> TRUE, index |-> i, key |-> k]]
    BY <1>2
  <2>2. [valid |-> TRUE, index |-> i, key |-> k] \in KeyEntries
    BY DEF KeyEntries
  <2> QED
    BY <2>1, <2>2
<1> QED
  BY <1>1, <1>2 DEF StoreVerifiedKey

(* A key is stored into one entry at most, which then holds that key.      *)
LEMMA StoreFrame ==
    ASSUME keys \in [Slots -> KeyEntries], NEW i, NEW k, StoreVerifiedKey(i, k)
    PROVE  \A s \in Slots :
              \/ keys'[s] = keys[s]
              \/ keys'[s] = [valid |-> TRUE, index |-> i, key |-> k]
  BY DEF StoreVerifiedKey

(* A disclosed key is stored only after it verified against a known key.   *)
LEMMA NewKeyVerified ==
    ASSUME root \in Int, NEW m, m.epoch \in Int,
           DisclosedKeyStatus(m) = "VerifiedNew"
    PROVE  /\ initialized
           /\ DisclosureIndex(m.epoch) = m.epoch - root
           /\ DisclosureIndex(m.epoch) \in Nat \ {0}
           /\ ~ IsSameOrOlder(DisclosureIndex(m.epoch))
           /\ VerifyAgainstKnownKey(DisclosureIndex(m.epoch), m.key)
<1> DEFINE i == DisclosureIndex(m.epoch)
<1> HIDE DEF i
<1>1. DisclosedKeyStatus(m) =
        IF ~initialized THEN "WaitingForKey"
        ELSE IF m.key_size # KeySize[chain] \/ i <= 0 THEN "Invalid"
        ELSE IF IsSameOrOlder(i) THEN "IgnoredSameOrOlder"
        ELSE IF ~VerifyAgainstKnownKey(i, m.key) THEN "VerificationFailed"
        ELSE "VerifiedNew"
  BY DEF DisclosedKeyStatus, i
<1>2. initialized /\ ~(i <= 0) /\ ~IsSameOrOlder(i) /\ VerifyAgainstKnownKey(i, m.key)
  BY <1>1
<1>3. i \in Int /\ (i = -1 \/ i = m.epoch - root)
  BY DEF i, DisclosureIndex
<1> QED
  BY <1>2, <1>3 DEF i

-----------------------------------------------------------------------------
(***************************************************************************)
(* The inductive invariant: the types, every held key genuine, and an      *)
(* empty table while the chain is not initialised.                         *)
(***************************************************************************)
NoKeysBeforeRoot == ~initialized => KnownSlots = {}
TeslaInv == TeslaTypeOK /\ KeySoundness /\ NoKeysBeforeRoot

LEMMA EmptyEntryTyped ==
    EmptyEntry \in KeyEntries /\ ~EmptyEntry.valid /\ EmptyEntry.index \notin Nat
<1>1. Junk \in KeyValues
  BY DEF Junk, ChainKey, KeyValues
<1> QED
  BY <1>1 DEF EmptyEntry, KeyEntries

(* The state Reset leaves, which is also the initial state.                *)
LEMMA ResetTeslaInv == Reset => TeslaInv'
<1> SUFFICES ASSUME Reset PROVE TeslaInv'
  OBVIOUS
<1>1. TeslaTypeOK'
  <2>1. \A s \in Slots : keys'[s] = EmptyEntry
    BY DEF Reset
  <2>2. \A s \in Slots : keys'[s].valid <=> keys'[s].index \in Nat
    BY <2>1, EmptyEntryTyped
  <2>3. keys' \in [Slots -> KeyEntries]
    BY EmptyEntryTyped DEF Reset
  <2>4. initialized' \in BOOLEAN /\ (initialized' => chain' \in Chains /\ root' \in Nat)
    BY DEF Reset
  <2>5. chain' \in Chains \cup {NoChain} /\ root' \in Int
    BY DEF Reset
  <2> QED
    BY <2>2, <2>3, <2>4, <2>5 DEF TeslaTypeOK
<1>2. KnownSlots' = {}
  BY EmptyEntryTyped DEF Reset, KnownSlots
<1> QED
  BY <1>1, <1>2 DEF TeslaInv, KeySoundness, NoKeysBeforeRoot

LEMMA InitTeslaInv == TeslaInit => TeslaInv
<1> SUFFICES ASSUME TeslaInit PROVE TeslaInv
  OBVIOUS
<1>1. TeslaTypeOK
  <2>1. \A s \in Slots : keys[s] = EmptyEntry
    BY DEF TeslaInit
  <2>2. \A s \in Slots : keys[s].valid <=> keys[s].index \in Nat
    BY <2>1, EmptyEntryTyped
  <2>3. keys \in [Slots -> KeyEntries]
    BY EmptyEntryTyped DEF TeslaInit
  <2>4. initialized \in BOOLEAN /\ (initialized => chain \in Chains /\ root \in Nat)
    BY DEF TeslaInit
  <2>5. chain \in Chains \cup {NoChain} /\ root \in Int
    BY DEF TeslaInit
  <2> QED
    BY <2>2, <2>3, <2>4, <2>5 DEF TeslaTypeOK
<1>2. KnownSlots = {}
  BY EmptyEntryTyped DEF TeslaInit, KnownSlots
<1> QED
  BY <1>1, <1>2 DEF TeslaInv, KeySoundness, NoKeysBeforeRoot

(* Starting a chain from a verified KROOT: the only key is the root key,   *)
(* which the KROOT's signature vouches for.                                *)
LEMMA InitializeTeslaInv ==
    ASSUME TeslaInv, NEW kroot \in Kroots, InitializeFromKroot(kroot)
    PROVE  TeslaInv'
<1>1. PICK c \in Chains, e \in Epochs, u \in BOOLEAN : kroot = Kroot(c, e, u)
  BY DEF Kroots
<1>2. /\ kroot.chain = c /\ kroot.epoch = e /\ kroot.usable = u
      /\ kroot.key = ChainKey(c, e - 1)
  BY <1>1 DEF Kroot
<1>3. e - 1 \in Nat
  BY EpochsAssumption
<1>4. ChainKey(c, e - 1) \in KeyValues
  BY <1>3 DEF ChainKey, KeyValues
<1>5. CASE ~kroot.usable /\ Reset
  BY <1>5, ResetTeslaInv
<1>6. CASE kroot.usable /\ ~(~kroot.usable /\ Reset)
  <2>1. /\ initialized' = TRUE
        /\ chain' = c
        /\ root' = e - 1
        /\ keys' = [s \in Slots |->
                     IF s = 0 THEN [valid |-> TRUE, index |-> 0, key |-> ChainKey(c, e - 1)]
                              ELSE EmptyEntry]
    BY <1>2, <1>6 DEF InitializeFromKroot
  <2>2. TeslaTypeOK'
    BY <1>3, <1>4, <2>1, EmptyEntryTyped DEF TeslaTypeOK, KeyEntries
  <2>3. KeySoundness'
    BY <1>3, <2>1, EmptyEntryTyped DEF KeySoundness, KnownSlots, ChainKey
  <2> QED
    BY <2>1, <2>2, <2>3 DEF TeslaInv, NoKeysBeforeRoot
<1> QED
  BY <1>5, <1>6 DEF InitializeFromKroot

(* A disclosed key that hashes down to a genuine key is itself genuine.    *)
LEMMA VerifiedKeyIsGenuine ==
    ASSUME TeslaInv, initialized, NEW i \in Nat \ {0}, NEW k,
           VerifyAgainstKnownKey(i, k)
    PROVE  k = ChainKey(chain, root + i)
<1>1. PICK s \in KnownSlots : HashDown(k, i, keys[s].index) = keys[s].key
  BY DEF VerifyAgainstKnownKey
<1>2. keys[s].key = ChainKey(chain, root + keys[s].index)
  BY <1>1 DEF TeslaInv, KeySoundness
<1>3. chain # NoChain
  BY ChainsAssumption DEF TeslaInv, TeslaTypeOK
<1>4. keys[s].key # Junk
  BY <1>2, <1>3 DEF ChainKey, Junk
<1> QED
  BY <1>1, <1>4 DEF HashDown

LEMMA DiscloseTeslaInv ==
    ASSUME TeslaInv, NEW m, m.epoch \in Nat, m.key \in KeyValues,
           VerifyAndStoreDisclosedKey(m)
    PROVE  TeslaInv'
<1> DEFINE i == DisclosureIndex(m.epoch)
<1>1. UNCHANGED <<initialized, chain, root>>
  BY DEF VerifyAndStoreDisclosedKey
<1>2. CASE UNCHANGED keys
  BY <1>1, <1>2 DEF TeslaInv, TeslaTypeOK, KeySoundness, NoKeysBeforeRoot, KnownSlots, ChainKey
<1>3. CASE /\ DisclosedKeyStatus(m) = "VerifiedNew"
           /\ StoreVerifiedKey(i, m.key)
  <2>1. initialized /\ i \in Nat \ {0} /\ VerifyAgainstKnownKey(i, m.key)
    BY <1>3, NewKeyVerified DEF TeslaInv, TeslaTypeOK
  <2>2. m.key = ChainKey(chain, root + i)
    BY <2>1, VerifiedKeyIsGenuine
  <2> HIDE DEF i
  <2>3. /\ keys' \in [Slots -> KeyEntries]
        /\ \A s \in Slots : keys'[s].valid <=> keys'[s].index \in Nat
    BY <1>3, <2>1, StoreTyped DEF TeslaInv, TeslaTypeOK
  <2>4. TeslaTypeOK'
    BY <1>1, <2>3 DEF TeslaInv, TeslaTypeOK
  <2>5. \A s \in Slots :
           \/ keys'[s] = keys[s]
           \/ keys'[s] = [valid |-> TRUE, index |-> i, key |-> m.key]
    BY <1>3, StoreFrame DEF TeslaInv, TeslaTypeOK
  <2>6. KeySoundness'
    BY <1>1, <2>2, <2>5 DEF TeslaInv, KeySoundness, KnownSlots, ChainKey
  <2> QED
    BY <1>1, <2>1, <2>4, <2>6 DEF TeslaInv, NoKeysBeforeRoot
<1> QED
  BY <1>2, <1>3 DEF VerifyAndStoreDisclosedKey

LEMMA NextTeslaInv == TeslaInv /\ [TeslaNext]_teslaVars => TeslaInv'
<1> SUFFICES ASSUME TeslaInv, [TeslaNext]_teslaVars PROVE TeslaInv'
  OBVIOUS
<1>1. CASE InitializeOnce
  BY <1>1, InitializeTeslaInv DEF InitializeOnce
<1>2. CASE Disclose
  <2>1. PICK e \in Epochs, k \in ReceivableKeys, c \in Chains :
          VerifyAndStoreDisclosedKey([epoch |-> e, key |-> k, key_size |-> KeySize[c]])
    BY <1>2 DEF Disclose
  <2>2. e \in Nat /\ k \in KeyValues
    BY EpochsAssumption DEF ReceivableKeys, KeyValues, ChainKey, Junk
  <2> QED
    BY <2>1, <2>2, DiscloseTeslaInv
<1>3. CASE UNCHANGED teslaVars
  BY <1>3 DEF teslaVars, TeslaInv, TeslaTypeOK, KeySoundness, NoKeysBeforeRoot, KnownSlots, ChainKey
<1>4. CASE Reset
  BY <1>4, ResetTeslaInv
<1> QED
  BY <1>1, <1>2, <1>3, <1>4 DEF TeslaNext

(* The state of the chain is well-typed in every reachable state.          *)
THEOREM TeslaTypeCorrect == TeslaSpec => []TeslaTypeOK
<1>1. TeslaInv => TeslaTypeOK
  BY DEF TeslaInv
<1> QED
  BY <1>1, InitTeslaInv, NextTeslaInv, PTL DEF TeslaSpec

(* Every key the receiver ever trusts is the genuine key of its index.     *)
THEOREM TeslaKeySoundness == TeslaSpec => []KeySoundness
<1>1. TeslaInv => KeySoundness
  BY DEF TeslaInv
<1> QED
  BY <1>1, InitTeslaInv, NextTeslaInv, PTL DEF TeslaSpec

(* Keys become known in chain order only.                                  *)
THEOREM TeslaForwardOnly == TeslaSpec => ForwardOnly
<1> DEFINE Advances ==
      \A s \in Slots :
          keys'[s].valid /\ keys'[s] # keys[s] =>
              \A t \in KnownSlots : keys[t].index < keys'[s].index
<1>1. ASSUME TeslaInv, TeslaNext PROVE Advances
  <2>1. CASE InitializeOnce
    BY <1>1, <2>1 DEF InitializeOnce, TeslaInv, NoKeysBeforeRoot
  <2>2. CASE Disclose
    <3>1. PICK e \in Epochs, k \in ReceivableKeys, c \in Chains :
            VerifyAndStoreDisclosedKey([epoch |-> e, key |-> k, key_size |-> KeySize[c]])
      BY <2>2 DEF Disclose
    <3> DEFINE m == [epoch |-> e, key |-> k, key_size |-> KeySize[c]]
               i == DisclosureIndex(m.epoch)
    <3>2. m.epoch \in Int /\ m.key = k
      BY EpochsAssumption
    <3> HIDE DEF m
    <3>3. CASE UNCHANGED keys
      BY <3>3
    <3>4. CASE /\ DisclosedKeyStatus(m) = "VerifiedNew"
               /\ StoreVerifiedKey(i, m.key)
      <4>1. i \in Nat \ {0} /\ ~IsSameOrOlder(i)
        BY <1>1, <3>2, <3>4, NewKeyVerified DEF TeslaInv, TeslaTypeOK
      <4> HIDE DEF i
      <4>2. \A t \in KnownSlots : keys[t].index \in Nat /\ keys[t].index < i
        BY <1>1, <4>1 DEF IsSameOrOlder, TeslaInv, TeslaTypeOK, KnownSlots
      <4>3. \A s \in Slots :
              keys'[s] = keys[s] \/ keys'[s] = [valid |-> TRUE, index |-> i, key |-> m.key]
        BY <1>1, <3>4, StoreFrame DEF TeslaInv, TeslaTypeOK
      <4> QED
        BY <4>2, <4>3
    <3> QED
      BY <3>1, <3>3, <3>4 DEF VerifyAndStoreDisclosedKey, m
  <2>3. CASE Reset
    BY <2>3, EmptyEntryTyped DEF Reset
  <2> QED
    BY <1>1, <2>1, <2>2, <2>3 DEF TeslaNext
<1>2. TeslaInv /\ [TeslaNext]_teslaVars => [Advances]_teslaVars
  BY <1>1
<1> QED
  BY <1>2, InitTeslaInv, NextTeslaInv, PTL DEF TeslaSpec, ForwardOnly

-----------------------------------------------------------------------------
(***************************************************************************)
(* The table of keys: its indices are distinct, and it never runs empty    *)
(* once the chain is initialised.                                          *)
(***************************************************************************)
IndicesDistinct ==
    \A s, t \in KnownSlots : keys[s].index = keys[t].index => s = t
SomeKeyKnown == initialized => KnownSlots # {}
TableInv == TeslaInv /\ IndicesDistinct /\ SomeKeyKnown

LEMMA ResetTableInv == Reset => TableInv'
<1> SUFFICES ASSUME Reset PROVE TableInv'
  OBVIOUS
<1>1. KnownSlots' = {} /\ ~initialized'
  BY EmptyEntryTyped DEF Reset, KnownSlots
<1> QED
  BY <1>1, ResetTeslaInv DEF TableInv, IndicesDistinct, SomeKeyKnown

LEMMA InitTableInv == TeslaInit => TableInv
<1> SUFFICES ASSUME TeslaInit PROVE TableInv
  OBVIOUS
<1>1. KnownSlots = {} /\ ~initialized
  BY EmptyEntryTyped DEF TeslaInit, KnownSlots
<1> QED
  BY <1>1, InitTeslaInv DEF TableInv, IndicesDistinct, SomeKeyKnown

LEMMA InitializeTableInv ==
    ASSUME TableInv, NEW kroot \in Kroots, InitializeFromKroot(kroot)
    PROVE  TableInv'
<1>1. CASE Reset
  BY <1>1, ResetTableInv
<1>2. CASE /\ kroot.usable
           /\ keys' = [s \in Slots |->
                         IF s = 0 THEN [valid |-> TRUE, index |-> 0, key |-> kroot.key]
                                  ELSE EmptyEntry]
  <2>1. KnownSlots' = {0}
    BY <1>2, EmptyEntryTyped, MaxStoredKeysAssumption DEF KnownSlots, Slots
  <2> QED
    BY <2>1, InitializeTeslaInv DEF TableInv, IndicesDistinct, SomeKeyKnown
<1> QED
  BY <1>1, <1>2 DEF InitializeFromKroot

(* What a new key does to the table: it fills a free entry, or replaces    *)
(* the oldest of a full table; all keys held before are older than it.     *)
LEMMA NewKeyStored ==
    ASSUME TableInv, NEW m, m.epoch \in Int,
           DisclosedKeyStatus(m) = "VerifiedNew",
           StoreVerifiedKey(DisclosureIndex(m.epoch), m.key)
    PROVE  \E s \in Slots :
              /\ ~keys[s].valid \/ OldestSlot(s)
              /\ \A t \in KnownSlots : keys[t].index < DisclosureIndex(m.epoch)
              /\ DisclosureIndex(m.epoch) \in Nat
              /\ keys' = [keys EXCEPT ![s] = [valid |-> TRUE,
                            index |-> DisclosureIndex(m.epoch), key |-> m.key]]
<1> DEFINE i == DisclosureIndex(m.epoch)
<1>1. initialized /\ i \in Nat \ {0} /\ ~IsSameOrOlder(i)
  BY NewKeyVerified DEF TableInv, TeslaInv, TeslaTypeOK
<1> HIDE DEF i
<1>2. \A t \in KnownSlots : keys[t].index \in Nat /\ keys[t].index < i
  BY <1>1 DEF IsSameOrOlder, TableInv, TeslaInv, TeslaTypeOK, KnownSlots
<1>3. ~HasKey(i)
  BY <1>2 DEF HasKey, SlotsOf
<1>4. StoreVerifiedKey(i, m.key)
  BY DEF i
<1> QED
  BY <1>1, <1>2, <1>3, <1>4 DEF StoreVerifiedKey, FirstFreeSlot, i

LEMMA DiscloseTableInv ==
    ASSUME TableInv, NEW m, m.epoch \in Nat, m.key \in KeyValues,
           VerifyAndStoreDisclosedKey(m)
    PROVE  TableInv'
<1>1. TeslaInv' /\ UNCHANGED <<initialized, chain, root>>
  BY DiscloseTeslaInv DEF TableInv, VerifyAndStoreDisclosedKey
<1>2. CASE UNCHANGED keys
  BY <1>1, <1>2 DEF TableInv, IndicesDistinct, SomeKeyKnown, KnownSlots
<1>3. CASE /\ DisclosedKeyStatus(m) = "VerifiedNew"
           /\ StoreVerifiedKey(DisclosureIndex(m.epoch), m.key)
  <2> DEFINE i == DisclosureIndex(m.epoch)
  <2>1. m.epoch \in Int
    OBVIOUS
  <2>2. PICK s \in Slots :
              /\ \A t \in KnownSlots : keys[t].index < i
              /\ i \in Nat
              /\ keys' = [keys EXCEPT ![s] = [valid |-> TRUE, index |-> i, key |-> m.key]]
    BY <1>3, <2>1, NewKeyStored
  <2> HIDE DEF i
  <2>3. /\ keys \in [Slots -> KeyEntries]
        /\ \A t \in KnownSlots : keys[t].index \in Nat
    BY DEF TableInv, TeslaInv, TeslaTypeOK, KnownSlots
  <2>4. /\ keys'[s] = [valid |-> TRUE, index |-> i, key |-> m.key]
        /\ \A t \in Slots : t # s => keys'[t] = keys[t]
    BY <2>2, <2>3
  <2>5. /\ s \in KnownSlots'
        /\ \A t \in KnownSlots' : t # s => t \in KnownSlots /\ keys'[t] = keys[t]
    BY <2>4 DEF KnownSlots
  <2>6. IndicesDistinct'
    <3> SUFFICES ASSUME NEW t \in KnownSlots', NEW u \in KnownSlots',
                        keys'[t].index = keys'[u].index
                 PROVE  t = u
      BY DEF IndicesDistinct
    <3>1. CASE t = s \/ u = s
      BY <2>2, <2>3, <2>4, <2>5, <3>1
    <3>2. CASE t # s /\ u # s
      BY <2>5, <3>2 DEF TableInv, IndicesDistinct
    <3> QED
      BY <3>1, <3>2
  <2> QED
    BY <1>1, <2>5, <2>6 DEF TableInv, SomeKeyKnown
<1> QED
  BY <1>2, <1>3 DEF VerifyAndStoreDisclosedKey

LEMMA NextTableInv == TableInv /\ [TeslaNext]_teslaVars => TableInv'
<1> SUFFICES ASSUME TableInv, [TeslaNext]_teslaVars PROVE TableInv'
  OBVIOUS
<1>1. CASE InitializeOnce
  BY <1>1, InitializeTableInv DEF InitializeOnce
<1>2. CASE Disclose
  <2>1. PICK e \in Epochs, k \in ReceivableKeys, c \in Chains :
          VerifyAndStoreDisclosedKey([epoch |-> e, key |-> k, key_size |-> KeySize[c]])
    BY <1>2 DEF Disclose
  <2>2. e \in Nat /\ k \in KeyValues
    BY EpochsAssumption DEF ReceivableKeys, KeyValues, ChainKey, Junk
  <2> QED
    BY <2>1, <2>2, DiscloseTableInv
<1>3. CASE Reset
  BY <1>3, ResetTableInv
<1>4. CASE UNCHANGED teslaVars
  <2>1. TeslaInv'
    BY <1>4, NextTeslaInv DEF TableInv
  <2> QED
    BY <1>4, <2>1 DEF teslaVars, TableInv, IndicesDistinct, SomeKeyKnown, KnownSlots
<1> QED
  BY <1>1, <1>2, <1>3, <1>4 DEF TeslaNext

(* No loss, no damage and no eviction cuts the receiver off: the genuine   *)
(* key of any later subframe verifies against whatever is still held.      *)
THEOREM TeslaNeverCutOff == TeslaSpec => []NeverCutOff
<1>1. ASSUME TableInv PROVE NeverCutOff
  <2> SUFFICES ASSUME initialized, NEW e \in Epochs,
                      \A s \in KnownSlots : keys[s].index < e - root
               PROVE  DisclosedKeyStatus([epoch |-> e, key |-> ChainKey(chain, e),
                                          key_size |-> KeySize[chain]]) = "VerifiedNew"
    BY DEF NeverCutOff
  <2> DEFINE m == [epoch |-> e, key |-> ChainKey(chain, e), key_size |-> KeySize[chain]]
             i == DisclosureIndex(m.epoch)
  <2>1. e \in Nat /\ root \in Nat
    BY <1>1, EpochsAssumption DEF TableInv, TeslaInv, TeslaTypeOK
  <2>2. PICK s \in KnownSlots : keys[s].index \in Nat
    BY <1>1 DEF TableInv, SomeKeyKnown, TeslaInv, TeslaTypeOK, KnownSlots
  <2>3. keys[s].index < e - root
    OBVIOUS
  <2>4. i = e - root /\ i > 0
    BY <2>1, <2>2, <2>3 DEF DisclosureIndex
  <2>5. ~IsSameOrOlder(i)
    BY <1>1, <2>1, <2>4 DEF IsSameOrOlder, TableInv, TeslaInv, TeslaTypeOK, KnownSlots
  <2>6. keys[s].key = ChainKey(chain, root + keys[s].index)
    BY <1>1 DEF TableInv, TeslaInv, KeySoundness
  <2>7. root + i = e
    BY <2>1, <2>4
  <2>8. HashDown(ChainKey(chain, e), i, keys[s].index) = keys[s].key
    BY <2>6, <2>7 DEF HashDown
  <2>9. VerifyAgainstKnownKey(i, ChainKey(chain, e))
    BY <2>3, <2>4, <2>8 DEF VerifyAgainstKnownKey
  <2>10. m.key_size = KeySize[chain] /\ m.key = ChainKey(chain, e)
    OBVIOUS
  <2>11. ~(i <= 0)
    BY <2>1, <2>4
  <2> HIDE DEF i, m
  <2> QED
    BY <2>5, <2>9, <2>10, <2>11 DEF DisclosedKeyStatus, i, m
<1> QED
  BY <1>1, InitTableInv, NextTableInv, PTL DEF TeslaSpec

(* A full table gives up its oldest key only.                              *)
THEOREM TeslaEvictionDropsOldest == TeslaSpec => EvictionDropsOldest
<1> DEFINE DropsOldest ==
      \A s \in KnownSlots :
          keys'[s] # keys[s] =>
              \A t \in Slots : keys'[t].valid => keys[s].index < keys'[t].index
<1>1. ASSUME TableInv, TeslaNext PROVE DropsOldest
  <2>1. CASE InitializeOnce
    BY <1>1, <2>1 DEF InitializeOnce, TableInv, TeslaInv, NoKeysBeforeRoot
  <2>2. CASE Reset
    BY <2>2, EmptyEntryTyped DEF Reset
  <2>3. CASE Disclose
    <3>1. PICK e \in Epochs, k \in ReceivableKeys, c \in Chains :
            VerifyAndStoreDisclosedKey([epoch |-> e, key |-> k, key_size |-> KeySize[c]])
      BY <2>3 DEF Disclose
    <3> DEFINE m == [epoch |-> e, key |-> k, key_size |-> KeySize[c]]
               i == DisclosureIndex(m.epoch)
    <3>2. m.epoch \in Int
      BY EpochsAssumption
    <3> HIDE DEF m
    <3>3. CASE UNCHANGED keys
      BY <3>3
    <3>4. CASE /\ DisclosedKeyStatus(m) = "VerifiedNew"
               /\ StoreVerifiedKey(i, m.key)
      <4>1. PICK n \in Slots :
              /\ ~keys[n].valid \/ OldestSlot(n)
              /\ \A t \in KnownSlots : keys[t].index < i
              /\ i \in Nat
              /\ keys' = [keys EXCEPT ![n] = [valid |-> TRUE, index |-> i, key |-> m.key]]
        BY <1>1, <3>2, <3>4, NewKeyStored
      <4> HIDE DEF i
      <4>2. /\ keys \in [Slots -> KeyEntries]
            /\ \A t \in KnownSlots : keys[t].index \in Nat
        BY <1>1 DEF TableInv, TeslaInv, TeslaTypeOK, KnownSlots
      <4>3. /\ keys'[n] = [valid |-> TRUE, index |-> i, key |-> m.key]
            /\ \A t \in Slots : t # n => keys'[t] = keys[t]
        BY <4>1, <4>2
      <4> SUFFICES ASSUME NEW s \in KnownSlots, keys'[s] # keys[s],
                          NEW t \in Slots, keys'[t].valid
                   PROVE  keys[s].index < keys'[t].index
        OBVIOUS
      <4>4. s = n /\ OldestSlot(n)
        BY <4>1, <4>3 DEF KnownSlots
      <4>5. CASE t = n
        BY <4>1, <4>3, <4>5
      <4>6. CASE t # n
        <5>1. t \in KnownSlots /\ keys'[t] = keys[t]
          BY <4>3, <4>6 DEF KnownSlots
        <5>2. keys[s].index <= keys[t].index /\ keys[s].index # keys[t].index
          BY <1>1, <4>4, <4>6, <5>1 DEF OldestSlot, TableInv, IndicesDistinct
        <5> QED
          BY <4>2, <5>1, <5>2
      <4> QED
        BY <4>5, <4>6
    <3> QED
      BY <3>1, <3>3, <3>4 DEF VerifyAndStoreDisclosedKey, m
  <2> QED
    BY <1>1, <2>1, <2>2, <2>3 DEF TeslaNext
<1>2. TableInv /\ [TeslaNext]_teslaVars => [DropsOldest]_teslaVars
  BY <1>1
<1> QED
  BY <1>2, InitTableInv, NextTableInv, PTL DEF TeslaSpec, EvictionDropsOldest
=============================================================================

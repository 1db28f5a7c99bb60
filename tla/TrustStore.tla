----------------------------- MODULE TrustStore -----------------------------
(***************************************************************************)
(* The chain of trust above the TESLA chain: class OsnmaTrustStore.        *)
(*                                                                         *)
(* A Merkle root vouches for the public keys that DSM-PKR messages bring,  *)
(* a public key for the KROOTs it signed, and the newest verified KROOT is *)
(* the one the engine works with.  Both lists have a fixed number of       *)
(* entries and are never purged: a full list reuses its entry 0.           *)
(*                                                                         *)
(* Cryptography is symbolic.  A public key is its id and the key pair it   *)
(* belongs to; a DSM-PKR passes the Merkle check when its leaf (id, type,  *)
(* key) is one of the tree's, and a KROOT passes the signature check of    *)
(* the public key whose private half signed exactly this content.          *)
(***************************************************************************)
EXTENDS Integers

CONSTANTS
    PkIds,          \* public key ids
    Pairs,          \* ECDSA key pairs
    NoPair,         \* no key pair: an alert's key, a damaged signature
    MerkleLeaves,   \* the public keys of the Merkle tree
    LoadedKeys,     \* public keys the application loads as trusted
    Contents,       \* what a KROOT says (chain, time, root key)
    MaxPkr,         \* MAX_PKR
    MaxKroot,       \* MAX_KROOT
    Times           \* subframes in which messages arrive

PublicKeys == [id : PkIds, pair : Pairs]

ASSUME PairsAssumption == NoPair \notin Pairs
ASSUME LeavesAssumption == MerkleLeaves \subseteq PublicKeys
ASSUME LoadedAssumption == LoadedKeys \subseteq PublicKeys
ASSUME ListsAssumption == MaxPkr \in Nat \ {0} /\ MaxKroot \in Nat \ {0}
ASSUME TimesAssumption == Times \subseteq Nat \ {0}

VARIABLES
    has_root,   \* has_root_ of the Merkle verifier
    pkr_list,   \* pkr_list_
    kroot_list  \* kroot_list_

trustVars == <<has_root, pkr_list, kroot_list>>

-----------------------------------------------------------------------------
PkrSlots == 0 .. (MaxPkr - 1)
KrootSlots == 0 .. (MaxKroot - 1)

(* A DSM-PKR as received: any id and key pair, or an alert (no key).       *)
Pkrs == [id : PkIds, pair : Pairs \cup {NoPair}]
(* A KROOT as received: the id of the key it names, the pair that signed   *)
(* it (NoPair when it was damaged) and what it says.                       *)
SignedKroots == [pkid : PkIds, signer : Pairs \cup {NoPair}, content : Contents]

RootIsEnough(pkr) == has_root
VerifyPkr(pkr) == has_root /\ pkr.pair # NoPair /\ pkr \in MerkleLeaves
VerifyKroot(kroot, public_key) == kroot.signer = public_key.pair

(* The first free entry, or entry 0 of a list without one.                 *)
IsFreeSlot(list, slots, s) ==
    IF \A t \in slots : list[t].valid
    THEN s = 0
    ELSE ~list[s].valid /\ \A t \in slots : t < s => list[t].valid

(* Of the entries that satisfy the test, the newest; of equally new ones,  *)
(* the first.  (FindLatestVerifiedPkr, FindVerifiedPkrById and             *)
(* FindLatestVerifiedKroot are this loop with different tests.)            *)
NewestOf(list, candidates, s) ==
    /\ s \in candidates
    /\ \A t \in candidates :
          list[t].time < list[s].time \/ (list[t].time = list[s].time /\ s <= t)

FirstPkrById(id, s) ==
    /\ pkr_list[s].valid /\ pkr_list[s].pkr.id = id
    /\ \A t \in PkrSlots : t < s /\ pkr_list[t].valid => pkr_list[t].pkr.id # id
FirstKroot(s) ==
    kroot_list[s].valid /\ \A t \in KrootSlots : t < s => ~kroot_list[t].valid

FindVerifiedPkrById(id, s) ==
    NewestOf(pkr_list, {t \in PkrSlots : pkr_list[t].valid /\ pkr_list[t].pkr.id = id}, s)
FindLatestVerifiedKroot(s) ==
    NewestOf(kroot_list, {t \in KrootSlots : kroot_list[t].valid}, s)

HasTrustedKroot == \E s \in KrootSlots : FindLatestVerifiedKroot(s)
GetTrustedKroot == kroot_list[CHOOSE s \in KrootSlots : FindLatestVerifiedKroot(s)].kroot

-----------------------------------------------------------------------------
StorePkr(pkr, time) ==
    \E s \in PkrSlots :
        /\ IsFreeSlot(pkr_list, PkrSlots, s)
        /\ pkr_list' = [pkr_list EXCEPT ![s] = [valid |-> TRUE, time |-> time, pkr |-> pkr]]

SetMerkleRoot == has_root' = TRUE /\ UNCHANGED <<pkr_list, kroot_list>>

(* The engine stamps a loaded key with time 0, older than any received.    *)
AddTrustedPublicKey(public_key) ==
    StorePkr(public_key, 0) /\ UNCHANGED <<has_root, kroot_list>>

StoreAnyKey(pkr, time) ==
    /\ \/ pkr.pair # NoPair /\ StorePkr(pkr, time)
       \/ pkr.pair = NoPair /\ UNCHANGED pkr_list
    /\ UNCHANGED <<has_root, kroot_list>>

(* AddPkr, AddKroot: a copy that fails its check leaves the store alone.   *)
AddPkr(pkr, time) ==
    /\ \/ VerifyPkr(pkr) /\ StorePkr(pkr, time)
       \/ ~VerifyPkr(pkr) /\ UNCHANGED pkr_list
    /\ UNCHANGED <<has_root, kroot_list>>

KrootIsVerified(kroot) ==
    \E s \in PkrSlots :
        FindVerifiedPkrById(kroot.pkid, s) /\ VerifyKroot(kroot, pkr_list[s].pkr)

AddKroot(kroot, time) ==
    /\ \/ /\ KrootIsVerified(kroot)
          /\ \E s \in KrootSlots :
                /\ IsFreeSlot(kroot_list, KrootSlots, s)
                /\ kroot_list' = [kroot_list EXCEPT ![s] =
                                    [valid |-> TRUE, time |-> time, kroot |-> kroot]]
       \/ ~KrootIsVerified(kroot) /\ UNCHANGED kroot_list
    /\ UNCHANGED <<has_root, pkr_list>>

-----------------------------------------------------------------------------
EmptySlot == [valid |-> FALSE, time |-> 0]

TrustInit ==
    /\ has_root = FALSE
    /\ pkr_list = [s \in PkrSlots |-> EmptySlot]
    /\ kroot_list = [s \in KrootSlots |-> EmptySlot]

Reset ==
    /\ has_root' = FALSE
    /\ pkr_list' = [s \in PkrSlots |-> EmptySlot]
    /\ kroot_list' = [s \in KrootSlots |-> EmptySlot]

(* The application loads its material, the engine hands over the messages  *)
(* it decodes.                                                             *)
LoadKey == \E k \in LoadedKeys : AddTrustedPublicKey(k)
ReceivePkr == \E pkr \in Pkrs, t \in Times : AddPkr(pkr, t)
ReceiveKroot == \E kroot \in SignedKroots, t \in Times : AddKroot(kroot, t)

TrustNext == SetMerkleRoot \/ LoadKey \/ ReceivePkr \/ ReceiveKroot \/ Reset

TrustSpec == TrustInit /\ [][TrustNext]_trustVars

-----------------------------------------------------------------------------
PkrEntries == {EmptySlot} \cup [valid : {TRUE}, time : {0} \cup Times, pkr : PublicKeys]
KrootEntries == {EmptySlot} \cup [valid : {TRUE}, time : Times, kroot : SignedKroots]

TrustTypeOK ==
    /\ has_root \in BOOLEAN
    /\ pkr_list \in [PkrSlots -> PkrEntries]
    /\ kroot_list \in [KrootSlots -> KrootEntries]

(* The chain of trust is never broken: every KROOT in the store carries a  *)
(* signature made by a key that the application loaded or the Merkle tree  *)
(* contains under the very id the KROOT names, although the list of public *)
(* keys may since have given that key's entry to another one.              *)
KrootsAreAuthentic ==
    \A s \in KrootSlots : kroot_list[s].valid =>
        [id |-> kroot_list[s].kroot.pkid, pair |-> kroot_list[s].kroot.signer]
            \in MerkleLeaves \cup LoadedKeys
=============================================================================

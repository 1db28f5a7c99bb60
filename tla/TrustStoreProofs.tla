-------------------------- MODULE TrustStoreProofs ---------------------------
(* Proofs about TrustStore and TrustRenewal, for lists of any length and   *)
(* any set of keys.                                                        *)
EXTENDS TrustRenewal, WellFoundedInduction, TLAPS

(***************************************************************************)
(* The inductive invariant: the types, and every public key in the list is *)
(* a loaded key or a leaf of the Merkle tree.  (KrootsAreAuthentic alone   *)
(* is not inductive: a KROOT is checked with a key of the list.)           *)
(***************************************************************************)
PublicKeysAreAuthentic ==
    \A s \in PkrSlots : pkr_list[s].valid => pkr_list[s].pkr \in MerkleLeaves \cup LoadedKeys

TrustInv == TrustTypeOK /\ PublicKeysAreAuthentic /\ KrootsAreAuthentic

LEMMA EmptyLists ==
    ASSUME pkr_list = [s \in PkrSlots |-> EmptySlot],
           kroot_list = [s \in KrootSlots |-> EmptySlot], has_root \in BOOLEAN
    PROVE  TrustInv
  BY DEF TrustInv, TrustTypeOK, PublicKeysAreAuthentic, KrootsAreAuthentic,
         EmptySlot, PkrEntries, KrootEntries

LEMMA InitTrustInv == TrustInit => TrustInv
  BY EmptyLists DEF TrustInit

LEMMA ResetTrustInv == Reset => TrustInv'
<1> SUFFICES ASSUME Reset PROVE TrustInv'
  OBVIOUS
<1>1. has_root' \in BOOLEAN
  BY DEF Reset
<1>2. /\ pkr_list' = [s \in PkrSlots |-> EmptySlot]
      /\ kroot_list' = [s \in KrootSlots |-> EmptySlot]
  BY DEF Reset
<1>3. TrustTypeOK'
  BY <1>1, <1>2 DEF TrustTypeOK, PkrEntries, KrootEntries
<1>4. PublicKeysAreAuthentic' /\ KrootsAreAuthentic'
  BY <1>2 DEF PublicKeysAreAuthentic, KrootsAreAuthentic, EmptySlot
<1> QED
  BY <1>3, <1>4 DEF TrustInv

(* Storing an authentic public key keeps the invariant.                    *)
LEMMA StorePkrInv ==
    ASSUME TrustInv, NEW pkr \in MerkleLeaves \cup LoadedKeys, NEW time \in {0} \cup Times,
           StorePkr(pkr, time), UNCHANGED <<has_root, kroot_list>>
    PROVE  TrustInv'
<1>1. PICK s \in PkrSlots :
        pkr_list' = [pkr_list EXCEPT ![s] = [valid |-> TRUE, time |-> time, pkr |-> pkr]]
  BY DEF StorePkr
<1>2. pkr \in PublicKeys
  BY LeavesAssumption, LoadedAssumption
<1>3. [valid |-> TRUE, time |-> time, pkr |-> pkr] \in PkrEntries
  BY <1>2 DEF PkrEntries
<1>4. TrustTypeOK'
  BY <1>1, <1>3 DEF TrustInv, TrustTypeOK
<1>5. PublicKeysAreAuthentic'
  BY <1>1 DEF TrustInv, TrustTypeOK, PublicKeysAreAuthentic
<1> QED
  BY <1>4, <1>5 DEF TrustInv, KrootsAreAuthentic

(* A KROOT that verifies was signed by an authentic key of the id it names.*)
LEMMA VerifiedKrootIsAuthentic ==
    ASSUME TrustInv, NEW kroot \in SignedKroots, KrootIsVerified(kroot)
    PROVE  [id |-> kroot.pkid, pair |-> kroot.signer] \in MerkleLeaves \cup LoadedKeys
<1>1. PICK s \in PkrSlots :
        /\ pkr_list[s].valid /\ pkr_list[s].pkr.id = kroot.pkid
        /\ kroot.signer = pkr_list[s].pkr.pair
  BY DEF KrootIsVerified, FindVerifiedPkrById, NewestOf, VerifyKroot
<1>2. pkr_list[s].pkr \in MerkleLeaves \cup LoadedKeys
  BY <1>1 DEF TrustInv, PublicKeysAreAuthentic
<1>3. pkr_list[s].pkr \in PublicKeys
  BY <1>2, LeavesAssumption, LoadedAssumption
<1>4. pkr_list[s].pkr = [id |-> kroot.pkid, pair |-> kroot.signer]
  BY <1>1, <1>3 DEF PublicKeys
<1> QED
  BY <1>2, <1>4

LEMMA AddKrootInv ==
    ASSUME TrustInv, NEW kroot \in SignedKroots, NEW time \in Times, AddKroot(kroot, time)
    PROVE  TrustInv'
<1>1. CASE UNCHANGED kroot_list
  BY <1>1 DEF AddKroot, TrustInv, TrustTypeOK, PublicKeysAreAuthentic, KrootsAreAuthentic
<1>2. CASE /\ KrootIsVerified(kroot)
           /\ \E s \in KrootSlots :
                kroot_list' = [kroot_list EXCEPT ![s] =
                                [valid |-> TRUE, time |-> time, kroot |-> kroot]]
  <2>1. PICK s \in KrootSlots :
          kroot_list' = [kroot_list EXCEPT ![s] =
                          [valid |-> TRUE, time |-> time, kroot |-> kroot]]
    BY <1>2
  <2>2. [valid |-> TRUE, time |-> time, kroot |-> kroot] \in KrootEntries
    BY DEF KrootEntries
  <2>3. TrustTypeOK'
    BY <2>1, <2>2 DEF AddKroot, TrustInv, TrustTypeOK
  <2>4. KrootsAreAuthentic'
    BY <1>2, <2>1, VerifiedKrootIsAuthentic DEF TrustInv, TrustTypeOK, KrootsAreAuthentic
  <2> QED
    BY <2>3, <2>4 DEF AddKroot, TrustInv, PublicKeysAreAuthentic
<1> QED
  BY <1>1, <1>2 DEF AddKroot

LEMMA AddPkrInv ==
    ASSUME TrustInv, NEW pkr, NEW time \in Times, AddPkr(pkr, time)
    PROVE  TrustInv'
<1>1. CASE UNCHANGED pkr_list
  BY <1>1 DEF AddPkr, TrustInv, TrustTypeOK, PublicKeysAreAuthentic, KrootsAreAuthentic
<1>2. CASE VerifyPkr(pkr) /\ StorePkr(pkr, time)
  BY <1>2, StorePkrInv DEF AddPkr, VerifyPkr
<1> QED
  BY <1>1, <1>2 DEF AddPkr

LEMMA NextTrustInv == TrustInv /\ [TrustNext]_trustVars => TrustInv'
<1> SUFFICES ASSUME TrustInv, [TrustNext]_trustVars PROVE TrustInv'
  OBVIOUS
<1>1. CASE SetMerkleRoot
  BY <1>1 DEF SetMerkleRoot, TrustInv, TrustTypeOK, PublicKeysAreAuthentic, KrootsAreAuthentic
<1>2. CASE LoadKey
  BY <1>2, StorePkrInv DEF LoadKey, AddTrustedPublicKey
<1>3. CASE ReceivePkr
  BY <1>3, AddPkrInv DEF ReceivePkr
<1>4. CASE ReceiveKroot
  BY <1>4, AddKrootInv DEF ReceiveKroot
<1>5. CASE Reset
  BY <1>5, ResetTrustInv
<1>6. CASE UNCHANGED trustVars
  BY <1>6 DEF trustVars, TrustInv, TrustTypeOK, PublicKeysAreAuthentic, KrootsAreAuthentic
<1> QED
  BY <1>1, <1>2, <1>3, <1>4, <1>5, <1>6 DEF TrustNext

(* The trust store is well-typed in every reachable state.                 *)
THEOREM TrustTypeCorrect == TrustSpec => []TrustTypeOK
<1>1. TrustInv => TrustTypeOK
  BY DEF TrustInv
<1> QED
  BY <1>1, InitTrustInv, NextTrustInv, PTL DEF TrustSpec

(* Every KROOT ever stored was signed by a loaded key or a key of the      *)
(* Merkle tree, under the id the KROOT names.                              *)
THEOREM TrustKrootsAuthentic == TrustSpec => []KrootsAreAuthentic
<1>1. TrustInv => KrootsAreAuthentic
  BY DEF TrustInv
<1> QED
  BY <1>1, InitTrustInv, NextTrustInv, PTL DEF TrustSpec

-----------------------------------------------------------------------------
(***************************************************************************)
(* Renewals.  The history says when the last KROOT was accepted, and for   *)
(* each id when the last key was and which ones in that subframe.  Nothing *)
(* in the store is younger than the clock, the last KROOT is still there,  *)
(* and so is a key of the last renewal of an id until the list gives the   *)
(* last one up; a key of that id is older, or one of those.  This holds    *)
(* only as long as the input keeps the order of the subframes (the clock). *)
(***************************************************************************)
HistoryTypeOK ==
    /\ clock \in Nat /\ accepted \in Nat
    /\ renewed \in [PkIds -> [time : Nat, pairs : SUBSET (Pairs \cup {NoPair})]]

LastKrootKept ==
    /\ accepted <= clock
    /\ \A s \in KrootSlots : kroot_list[s].valid => kroot_list[s].time <= accepted
    /\ accepted # 0 => \E s \in KrootSlots : kroot_list[s].valid /\ kroot_list[s].time = accepted

NewestKeyKept(id) ==
    /\ \A s \in PkrSlots : pkr_list[s].valid /\ pkr_list[s].pkr.id = id =>
          /\ pkr_list[s].time <= renewed[id].time
          /\ pkr_list[s].time = renewed[id].time => pkr_list[s].pkr.pair \in renewed[id].pairs
    /\ \E s \in PkrSlots : /\ pkr_list[s].valid /\ pkr_list[s].pkr.id = id
                           /\ pkr_list[s].time = renewed[id].time

NoYoungerKey ==
    /\ \A id \in PkIds : renewed[id].time <= clock
    /\ \A s \in PkrSlots : pkr_list[s].valid =>
          /\ pkr_list[s].time <= clock
          /\ pkr_list[s].time = clock /\ clock # 0 =>
                renewed[pkr_list[s].pkr.id].time = clock

NewestKeysKept == \A id \in PkIds : renewed[id].time # 0 => NewestKeyKept(id)

RenewalInv == TrustInv /\ HistoryTypeOK /\ LastKrootKept /\ NoYoungerKey /\ NewestKeysKept

LEMMA EntriesTyped ==
    ASSUME TrustTypeOK
    PROVE  /\ \A s \in KrootSlots : kroot_list[s].valid => kroot_list[s].time \in Nat
           /\ \A s \in PkrSlots : pkr_list[s].valid =>
                 pkr_list[s].time \in Nat /\ pkr_list[s].pkr.id \in PkIds
<1>1. ASSUME NEW s \in KrootSlots, kroot_list[s].valid PROVE kroot_list[s].time \in Nat
  <2>1. kroot_list[s] \in KrootEntries /\ kroot_list[s] # EmptySlot
    BY <1>1 DEF TrustTypeOK, EmptySlot
  <2>2. kroot_list[s] \in [valid : {TRUE}, time : Times, kroot : SignedKroots]
    BY <2>1 DEF KrootEntries
  <2>3. kroot_list[s].time \in Times
    BY <2>2
  <2> QED
    BY <2>3, TimesAssumption
<1>2. ASSUME NEW s \in PkrSlots, pkr_list[s].valid
      PROVE  pkr_list[s].time \in Nat /\ pkr_list[s].pkr.id \in PkIds
  <2>1. pkr_list[s] \in PkrEntries /\ pkr_list[s] # EmptySlot
    BY <1>2 DEF TrustTypeOK, EmptySlot
  <2>2. pkr_list[s] \in [valid : {TRUE}, time : {0} \cup Times, pkr : PublicKeys]
    BY <2>1 DEF PkrEntries
  <2>3. pkr_list[s].time \in {0} \cup Times /\ pkr_list[s].pkr \in PublicKeys
    BY <2>2
  <2>4. \A x \in {0} \cup Times : x \in Nat
    BY TimesAssumption
  <2>5. pkr_list[s].pkr.id \in PkIds
    BY <2>3 DEF PublicKeys
  <2> QED
    BY <2>3, <2>4, <2>5
<1> QED
  BY <1>1, <1>2

(* The KROOT the engine works with is the last one accepted.               *)
LEMMA NewestKrootIsLast == RenewalInv => LastVerifiedKrootActive
<1> SUFFICES ASSUME RenewalInv, accepted # 0, NEW s \in KrootSlots, FindLatestVerifiedKroot(s)
             PROVE  kroot_list[s].time = accepted
  BY DEF LastVerifiedKrootActive
<1>1. PICK t \in KrootSlots : kroot_list[t].valid /\ kroot_list[t].time = accepted
  BY DEF RenewalInv, LastKrootKept
<1>2. kroot_list[s].valid
  BY DEF FindLatestVerifiedKroot, NewestOf
<1>3. kroot_list[t].time < kroot_list[s].time \/ kroot_list[t].time = kroot_list[s].time
  BY <1>1 DEF FindLatestVerifiedKroot, NewestOf
<1>4. kroot_list[s].time <= accepted
  BY <1>2 DEF RenewalInv, LastKrootKept
<1>5. kroot_list[s].time \in Nat
  BY <1>2, EntriesTyped DEF RenewalInv, TrustInv
<1> QED
  BY <1>1, <1>3, <1>4, <1>5 DEF RenewalInv, HistoryTypeOK

(* Of the entries of an id there is a newest one.                          *)
LEMMA NewestOfRenewal ==
    ASSUME TrustTypeOK, NEW id \in PkIds, NewestKeyKept(id)
    PROVE  \E s \in PkrSlots : /\ FindVerifiedPkrById(id, s)
                              /\ pkr_list[s].time = renewed[id].time
<1> DEFINE newest == {s \in PkrSlots : /\ pkr_list[s].valid /\ pkr_list[s].pkr.id = id
                                       /\ pkr_list[s].time = renewed[id].time}
<1>1. newest \subseteq Nat /\ newest # {}
  BY ListsAssumption DEF PkrSlots, NewestKeyKept
<1>2. PICK s \in newest : \A t \in newest : ~ (<<t, s>> \in OpToRel(<, Nat))
  <2>1. IsWellFoundedOn(OpToRel(<, Nat), Nat)
    BY NatLessThanWellFounded
  <2> HIDE DEF newest
  <2> QED
    BY <1>1, <2>1, WFMin
<1>3. \A t \in newest : s <= t
  <2> HIDE DEF newest
  <2>1. s \in Nat
    BY <1>1
  <2>2. \A t \in newest : t \in Nat /\ ~(t < s)
    BY <1>1, <1>2, <2>1 DEF OpToRel
  <2> QED
    BY <2>1, <2>2
<1>4. ASSUME NEW t \in PkrSlots, pkr_list[t].valid, pkr_list[t].pkr.id = id
      PROVE  \/ pkr_list[t].time < pkr_list[s].time
             \/ pkr_list[t].time = pkr_list[s].time /\ s <= t
  <2>1. pkr_list[t].time \in Nat /\ pkr_list[s].time \in Nat
    BY <1>4, EntriesTyped
  <2>2. pkr_list[t].time <= pkr_list[s].time
    BY <1>4 DEF NewestKeyKept
  <2> QED
    BY <1>3, <1>4, <2>1, <2>2
<1> QED
  BY <1>4 DEF FindVerifiedPkrById, NewestOf

(* The key that KROOTs are checked with is one of the last accepted for    *)
(* its id, until the list gives the last of those up.                      *)
LEMMA NewestKeyIsLast == RenewalInv => RenewedKeyTakesOver
<1> SUFFICES ASSUME RenewalInv, NEW id \in PkIds, renewed[id].time # 0
             PROVE  \E s \in PkrSlots : /\ FindVerifiedPkrById(id, s)
                                       /\ pkr_list[s].pkr.pair \in renewed[id].pairs
  BY DEF RenewedKeyTakesOver
<1>1. TrustTypeOK /\ NewestKeyKept(id)
  BY DEF RenewalInv, TrustInv, NewestKeysKept
<1>2. PICK s \in PkrSlots : FindVerifiedPkrById(id, s) /\ pkr_list[s].time = renewed[id].time
  BY <1>1, NewestOfRenewal
<1>3. pkr_list[s].valid /\ pkr_list[s].pkr.id = id
  BY <1>2 DEF FindVerifiedPkrById, NewestOf
<1> QED
  BY <1>1, <1>2, <1>3 DEF NewestKeyKept

(* A renewal is not given up while another entry has a key of it.          *)
LEMMA OtherEntryLeft ==
    ASSUME NEW s \in PkrSlots, IsFreeSlot(pkr_list, PkrSlots, s),
           NEW r \in PkrSlots, r # s, NEW id \in PkIds,
           pkr_list[r].pkr.id = id, pkr_list[r].time = renewed[id].time
    PROVE  ~GivesUp(id) /\ StillRenewed[id] = renewed[id]
<1>1. ~GivesUp(id)
  <2> SUFFICES ASSUME GivesUp(id) PROVE FALSE
    OBVIOUS
  <2>1. s = 0
    BY DEF GivesUp, IsFreeSlot
  <2>2. r \in {q \in PkrSlots : pkr_list[q].pkr.id = id /\ pkr_list[q].time = renewed[id].time}
    OBVIOUS
  <2> QED
    BY <2>1, <2>2 DEF GivesUp
<1> QED
  BY <1>1 DEF StillRenewed

(* Storing a key keeps what is known of the renewal of an id, unless the   *)
(* key renews that id or takes the place of the last one left of it.       *)
LEMMA StoredRenewalKept ==
    ASSUME RenewalInv, NEW pkr, NEW u \in Nat, NEW s \in PkrSlots,
           IsFreeSlot(pkr_list, PkrSlots, s),
           pkr_list' = [pkr_list EXCEPT ![s] = [valid |-> TRUE, time |-> u, pkr |-> pkr]],
           NEW id \in PkIds, id # pkr.id \/ u = 0,
           renewed'[id] = StillRenewed[id], renewed'[id].time # 0
    PROVE  NewestKeyKept(id)'
<1>1. ~GivesUp(id) /\ renewed'[id] = renewed[id] /\ renewed[id].time # 0
  BY DEF StillRenewed, NoRenewal
<1>2. NewestKeyKept(id) /\ renewed[id].time \in Nat
  BY <1>1 DEF RenewalInv, NewestKeysKept, HistoryTypeOK
<1>3. \A r \in PkrSlots : pkr_list'[r] =
         IF r = s THEN [valid |-> TRUE, time |-> u, pkr |-> pkr] ELSE pkr_list[r]
  BY DEF RenewalInv, TrustInv, TrustTypeOK
<1>4. \E r \in PkrSlots : /\ r # s /\ pkr_list[r].valid /\ pkr_list[r].pkr.id = id
                          /\ pkr_list[r].time = renewed[id].time
  <2>1. PICK r \in PkrSlots : /\ pkr_list[r].valid /\ pkr_list[r].pkr.id = id
                              /\ pkr_list[r].time = renewed[id].time
    BY <1>2 DEF NewestKeyKept
  <2>2. CASE r # s
    BY <2>1, <2>2
  <2>3. CASE r = s
    <3>1. s = 0 /\ \A t \in PkrSlots : pkr_list[t].valid
      BY <2>1, <2>3 DEF IsFreeSlot
    <3> QED
      BY <1>1, <2>1, <2>3, <3>1 DEF GivesUp
  <2> QED
    BY <2>2, <2>3
<1>5. ASSUME NEW r \in PkrSlots, pkr_list'[r].valid, pkr_list'[r].pkr.id = id
      PROVE  /\ pkr_list'[r].time <= renewed[id].time
             /\ pkr_list'[r].time = renewed[id].time => pkr_list'[r].pkr.pair \in renewed[id].pairs
  <2>1. CASE r = s
    BY <1>1, <1>2, <1>3, <1>5, <2>1
  <2>2. CASE r # s
    BY <1>2, <1>3, <1>5, <2>2 DEF NewestKeyKept
  <2> QED
    BY <2>1, <2>2
<1> QED
  BY <1>1, <1>3, <1>4, <1>5 DEF NewestKeyKept

-----------------------------------------------------------------------------
LEMMA InitRenewalInv == RenewalInit => RenewalInv
<1> SUFFICES ASSUME RenewalInit PROVE RenewalInv
  OBVIOUS
<1>1. TrustInv
  BY InitTrustInv DEF RenewalInit
<1> QED
  BY <1>1 DEF RenewalInit, TrustInit, RenewalInv, HistoryTypeOK, LastKrootKept, NoYoungerKey,
       NewestKeysKept, NotRenewed, NoRenewal, EmptySlot

LEMMA RestartRenewalInv == Restart => RenewalInv'
<1> SUFFICES ASSUME Restart PROVE RenewalInv'
  OBVIOUS
<1>1. TrustInv'
  BY ResetTrustInv DEF Restart
<1>2. HistoryTypeOK'
  BY DEF Restart, HistoryTypeOK, NotRenewed, NoRenewal
<1>3. LastKrootKept' /\ NoYoungerKey' /\ NewestKeysKept'
  BY DEF Restart, Reset, LastKrootKept, NoYoungerKey, NewestKeysKept, NotRenewed, NoRenewal,
         EmptySlot
<1> QED
  BY <1>1, <1>2, <1>3 DEF RenewalInv

(* What is left of a renewal is no more than what there was.               *)
LEMMA StillRenewedTyped ==
    ASSUME HistoryTypeOK
    PROVE  /\ StillRenewed \in [PkIds -> [time : Nat, pairs : SUBSET (Pairs \cup {NoPair})]]
           /\ \A id \in PkIds : StillRenewed[id] = NoRenewal \/ StillRenewed[id] = renewed[id]
<1>1. NoRenewal \in [time : Nat, pairs : SUBSET (Pairs \cup {NoPair})]
  BY DEF NoRenewal
<1> QED
  BY <1>1 DEF HistoryTypeOK, StillRenewed

(* A loaded key is stamped 0: it is never younger than a received one.     *)
LEMMA LoadRenewalInv == RenewalInv /\ Load => RenewalInv'
<1> SUFFICES ASSUME RenewalInv, Load PROVE RenewalInv'
  OBVIOUS
<1>1. TrustInv'
  BY NextTrustInv DEF RenewalInv, Load, TrustNext
<1>2. UNCHANGED <<kroot_list, clock, accepted>>
  BY DEF Load, SetMerkleRoot, LoadKey, AddTrustedPublicKey
<1>3. LastKrootKept'
  BY <1>2 DEF RenewalInv, LastKrootKept
<1>4. CASE SetMerkleRoot /\ UNCHANGED renewed
  <2>1. UNCHANGED <<pkr_list, renewed>>
    BY <1>4 DEF SetMerkleRoot
  <2> QED
    BY <1>1, <1>2, <1>3, <2>1 DEF RenewalInv, HistoryTypeOK, NoYoungerKey, NewestKeysKept,
                                  NewestKeyKept
<1>5. CASE LoadKey /\ renewed' = StillRenewed
  <2>1. PICK k \in LoadedKeys, s \in PkrSlots :
          /\ IsFreeSlot(pkr_list, PkrSlots, s)
          /\ pkr_list' = [pkr_list EXCEPT ![s] = [valid |-> TRUE, time |-> 0, pkr |-> k]]
    BY <1>5 DEF LoadKey, AddTrustedPublicKey, StorePkr
  <2>2. HistoryTypeOK'
    BY <1>2, <1>5, StillRenewedTyped DEF RenewalInv, HistoryTypeOK
  <2>3. NoYoungerKey'
    <3>1. \A r \in PkrSlots : pkr_list'[r] =
             IF r = s THEN [valid |-> TRUE, time |-> 0, pkr |-> k] ELSE pkr_list[r]
      BY <2>1 DEF RenewalInv, TrustInv, TrustTypeOK
    <3>2. clock \in Nat
      BY DEF RenewalInv, HistoryTypeOK
    <3>3. \A id \in PkIds : renewed'[id].time <= clock
      BY <1>5, <3>2, StillRenewedTyped DEF RenewalInv, NoYoungerKey, NoRenewal
    <3>4. ASSUME NEW r \in PkrSlots, pkr_list'[r].valid
          PROVE  /\ pkr_list'[r].time <= clock
                 /\ pkr_list'[r].time = clock /\ clock # 0 =>
                       renewed'[pkr_list'[r].pkr.id].time = clock
      <4>1. CASE r = s
        BY <3>1, <3>2, <4>1
      <4>2. CASE r # s
        <5>1. pkr_list'[r] = pkr_list[r] /\ pkr_list[r].valid /\ pkr_list[r].pkr.id \in PkIds
          BY <3>1, <3>4, <4>2, EntriesTyped DEF RenewalInv, TrustInv
        <5> QED
          BY <1>5, <2>1, <4>2, <5>1, OtherEntryLeft DEF RenewalInv, NoYoungerKey
      <4> QED
        BY <4>1, <4>2
    <3> QED
      BY <1>2, <3>3, <3>4 DEF NoYoungerKey
  <2>4. NewestKeysKept'
    <3> SUFFICES ASSUME NEW id \in PkIds, renewed'[id].time # 0
                 PROVE  NewestKeyKept(id)'
      BY DEF NewestKeysKept
    <3> QED
      BY <1>5, <2>1, StoredRenewalKept
  <2> QED
    BY <1>1, <1>3, <2>2, <2>3, <2>4 DEF RenewalInv
<1> QED
  BY <1>4, <1>5 DEF Load

LEMMA RenewKeyInv == RenewalInv /\ RenewKey => RenewalInv'
<1> SUFFICES ASSUME RenewalInv, NEW pkr \in Pkrs, NEW t \in Later, AddPkr(pkr, t), clock' = t,
                    renewed' = IF VerifyPkr(pkr)
                               THEN [StillRenewed EXCEPT ![pkr.id] =
                                       [time |-> t, pairs |-> {pkr.pair} \cup
                                           (IF @.time = t THEN @.pairs ELSE {})]]
                               ELSE renewed,
                    UNCHANGED accepted
             PROVE  RenewalInv'
  BY DEF RenewKey
<1>1. t \in Times /\ t \in Nat /\ t # 0 /\ t >= clock
  BY TimesAssumption DEF Later
<1>2. TrustInv'
  BY <1>1, AddPkrInv DEF RenewalInv
<1>3. pkr.id \in PkIds /\ pkr.pair \in Pairs \cup {NoPair}
  BY DEF Pkrs
<1>4. clock \in Nat /\ \A id \in PkIds : /\ renewed[id].time \in Nat
                                         /\ renewed[id].time <= t
  BY <1>1 DEF RenewalInv, HistoryTypeOK, NoYoungerKey
<1>5. LastKrootKept'
  BY <1>1 DEF RenewalInv, HistoryTypeOK, LastKrootKept, AddPkr
<1>6. \A r \in PkrSlots : pkr_list[r].valid => pkr_list[r].time \in Nat /\ pkr_list[r].time <= t
  BY <1>1, <1>4, EntriesTyped DEF RenewalInv, TrustInv, NoYoungerKey
<1>7. CASE ~VerifyPkr(pkr)
  <2>1. UNCHANGED <<pkr_list, renewed>>
    BY <1>7 DEF AddPkr
  <2>2. HistoryTypeOK'
    BY <1>1, <2>1 DEF RenewalInv, HistoryTypeOK
  <2>3. NewestKeysKept'
    <3>1. \A id \in PkIds : renewed[id].time # 0 => NewestKeyKept(id)
      BY DEF RenewalInv, NewestKeysKept
    <3>2. \A id \in PkIds : NewestKeyKept(id)' = NewestKeyKept(id)
      BY <2>1, Zenon DEF NewestKeyKept
    <3> QED
      BY <2>1, <3>1, <3>2, Zenon DEF NewestKeysKept
  <2>4. \A r \in PkrSlots : pkr_list[r].valid /\ pkr_list[r].time = t =>
           renewed[pkr_list[r].pkr.id].time = t
    BY <1>1, <1>4, <1>6 DEF RenewalInv, NoYoungerKey
  <2>5. NoYoungerKey'
    BY <1>1, <1>4, <1>6, <2>1, <2>4 DEF NoYoungerKey
  <2> QED
    BY <1>2, <1>5, <2>2, <2>3, <2>5 DEF RenewalInv
<1>8. CASE VerifyPkr(pkr)
  <2>1. PICK s \in PkrSlots :
          /\ IsFreeSlot(pkr_list, PkrSlots, s)
          /\ pkr_list' = [pkr_list EXCEPT ![s] = [valid |-> TRUE, time |-> t, pkr |-> pkr]]
    BY <1>8 DEF AddPkr, StorePkr
  <2>2. \A r \in PkrSlots : pkr_list'[r] =
             IF r = s THEN [valid |-> TRUE, time |-> t, pkr |-> pkr] ELSE pkr_list[r]
    BY <2>1 DEF RenewalInv, TrustInv, TrustTypeOK
  <2> DEFINE old == StillRenewed[pkr.id]
  <2> DEFINE pairs == {pkr.pair} \cup (IF old.time = t THEN old.pairs ELSE {})
  <2>3. /\ StillRenewed \in [PkIds -> [time : Nat, pairs : SUBSET (Pairs \cup {NoPair})]]
        /\ old = NoRenewal \/ old = renewed[pkr.id]
    BY <1>3, StillRenewedTyped DEF RenewalInv
  <2>4. renewed' = [StillRenewed EXCEPT ![pkr.id] = [time |-> t, pairs |-> pairs]]
    BY <1>8
  <2>5. pairs \in SUBSET (Pairs \cup {NoPair}) /\ pkr.pair \in pairs
    BY <1>3, <2>3
  <2>6. old.time = t => old.pairs \subseteq pairs
    OBVIOUS
  <2> HIDE DEF pairs
  <2>7. HistoryTypeOK'
    <3>1. [time |-> t, pairs |-> pairs] \in [time : Nat, pairs : SUBSET (Pairs \cup {NoPair})]
      BY <1>1, <2>5
    <3>2. renewed' \in [PkIds -> [time : Nat, pairs : SUBSET (Pairs \cup {NoPair})]]
      BY <2>3, <2>4, <3>1
    <3> QED
      BY <1>1, <3>2 DEF RenewalInv, HistoryTypeOK
  <2>8. \A id \in PkIds : renewed'[id] =
             IF id = pkr.id THEN [time |-> t, pairs |-> pairs] ELSE StillRenewed[id]
    BY <2>3, <2>4
  <2>9. NoYoungerKey'
    <3>1. \A id \in PkIds : StillRenewed[id].time <= t
      BY <1>1, <1>4, StillRenewedTyped DEF RenewalInv, NoRenewal
    <3>2. ASSUME NEW r \in PkrSlots, pkr_list'[r].valid
          PROVE  /\ pkr_list'[r].time <= t
                 /\ pkr_list'[r].time = t => renewed'[pkr_list'[r].pkr.id].time = t
      <4>1. CASE r = s
        BY <1>1, <1>3, <2>2, <2>8, <4>1
      <4>2. CASE r # s
        <5>1. /\ pkr_list'[r] = pkr_list[r] /\ pkr_list[r].valid
              /\ pkr_list[r].pkr.id \in PkIds /\ pkr_list[r].time \in Nat
              /\ pkr_list[r].time <= clock
          BY <2>2, <3>2, <4>2, EntriesTyped DEF RenewalInv, TrustInv, NoYoungerKey
        <5>2. ASSUME pkr_list[r].time = t
              PROVE  clock = t /\ renewed[pkr_list[r].pkr.id].time = t
          BY <1>1, <1>4, <5>1, <5>2 DEF RenewalInv, NoYoungerKey
        <5>3. ASSUME pkr_list[r].time = t
              PROVE  StillRenewed[pkr_list[r].pkr.id].time = t
          BY <2>1, <4>2, <5>1, <5>2, <5>3, OtherEntryLeft
        <5> QED
          BY <1>6, <2>8, <5>1, <5>3
      <4> QED
        BY <4>1, <4>2
    <3> QED
      BY <1>1, <2>8, <3>1, <3>2 DEF NoYoungerKey
  <2>10. ASSUME NEW id \in PkIds, renewed'[id].time # 0
         PROVE  NewestKeyKept(id)'
    <3>1. CASE id # pkr.id
      BY <1>1, <2>1, <2>8, <2>10, <3>1, StoredRenewalKept
    <3>2. CASE id = pkr.id
      <4>1. renewed'[id].time = t /\ renewed'[id].pairs = pairs
        BY <2>8, <3>2
      <4>2. ASSUME NEW r \in PkrSlots, pkr_list'[r].valid, pkr_list'[r].pkr.id = id
            PROVE  /\ pkr_list'[r].time <= t
                   /\ pkr_list'[r].time = t => pkr_list'[r].pkr.pair \in pairs
        <5>1. CASE r = s
          BY <1>1, <2>2, <2>5, <5>1
        <5>2. CASE r # s
          <6>1. pkr_list'[r] = pkr_list[r] /\ pkr_list[r].valid /\ pkr_list[r].pkr.id = id
            BY <2>2, <4>2, <5>2
          <6>2. ASSUME pkr_list[r].time = t
                PROVE  pkr_list[r].pkr.pair \in pairs
            <7>1. clock = t /\ renewed[id].time = t
              BY <1>1, <1>4, <6>1, <6>2 DEF RenewalInv, NoYoungerKey
            <7>2. old = renewed[id] /\ old.time = t
              BY <2>1, <3>2, <5>2, <6>1, <6>2, <7>1, OtherEntryLeft
            <7>3. NewestKeyKept(id)
              BY <1>1, <7>1 DEF RenewalInv, NewestKeysKept
            <7>4. pkr_list[r].pkr.pair \in renewed[id].pairs
              BY <6>1, <6>2, <7>1, <7>3 DEF NewestKeyKept
            <7> QED
              BY <2>6, <7>2, <7>4
          <6> QED
            BY <1>6, <6>1, <6>2
        <5> QED
          BY <5>1, <5>2
      <4>3. /\ pkr_list'[s].valid /\ pkr_list'[s].pkr.id = id /\ pkr_list'[s].time = t
        BY <2>2, <3>2
      <4> QED
        BY <4>1, <4>2, <4>3 DEF NewestKeyKept
    <3> QED
      BY <3>1, <3>2
  <2> QED
    BY <1>2, <1>5, <2>7, <2>9, <2>10 DEF RenewalInv, NewestKeysKept
<1> QED
  BY <1>7, <1>8

LEMMA RenewKrootInv == RenewalInv /\ RenewKroot => RenewalInv'
<1> SUFFICES ASSUME RenewalInv, NEW kroot \in SignedKroots, NEW t \in Later,
                    AddKroot(kroot, t), clock' = t,
                    accepted' = IF KrootIsVerified(kroot) THEN t ELSE accepted,
                    UNCHANGED renewed
             PROVE  RenewalInv'
  BY DEF RenewKroot
<1>1. t \in Times /\ t \in Nat /\ t >= clock
  BY TimesAssumption DEF Later
<1>2. TrustInv'
  BY <1>1, AddKrootInv DEF RenewalInv
<1>3. HistoryTypeOK'
  BY <1>1 DEF RenewalInv, HistoryTypeOK
<1>4. NoYoungerKey' /\ NewestKeysKept'
  <2>1. UNCHANGED <<pkr_list, renewed>> /\ clock \in Nat
    BY DEF AddKroot, RenewalInv, HistoryTypeOK
  <2>2. NewestKeysKept'
    BY <2>1 DEF RenewalInv, NewestKeysKept, NewestKeyKept
  <2>3. \A s \in PkrSlots : pkr_list[s].valid => pkr_list[s].time \in Nat
    BY EntriesTyped DEF RenewalInv, TrustInv
  <2>4. \A id \in PkIds : renewed[id].time \in Nat
    BY DEF RenewalInv, HistoryTypeOK
  <2> QED
    BY <1>1, <2>1, <2>2, <2>3, <2>4 DEF RenewalInv, NoYoungerKey
<1>5. clock \in Nat /\ accepted \in Nat /\ accepted <= t
  BY <1>1 DEF RenewalInv, HistoryTypeOK, LastKrootKept
<1>6. LastKrootKept'
  <2>1. CASE ~KrootIsVerified(kroot)
    BY <1>5, <2>1 DEF RenewalInv, LastKrootKept, AddKroot
  <2>2. CASE KrootIsVerified(kroot)
    <3>1. PICK s \in KrootSlots :
            kroot_list' = [kroot_list EXCEPT ![s] =
                            [valid |-> TRUE, time |-> t, kroot |-> kroot]]
      BY <2>2 DEF AddKroot
    <3>2. \A r \in KrootSlots : kroot_list'[r] =
             IF r = s THEN [valid |-> TRUE, time |-> t, kroot |-> kroot] ELSE kroot_list[r]
      BY <3>1 DEF RenewalInv, TrustInv, TrustTypeOK
    <3>3. \A r \in KrootSlots : kroot_list[r].valid =>
             kroot_list[r].time \in Nat /\ kroot_list[r].time <= accepted
      BY EntriesTyped DEF RenewalInv, TrustInv, LastKrootKept
    <3>4. \A r \in KrootSlots : kroot_list'[r].valid => kroot_list'[r].time <= t
      BY <1>1, <1>5, <3>2, <3>3
    <3>5. kroot_list'[s].valid /\ kroot_list'[s].time = t
      BY <3>2
    <3> QED
      BY <1>1, <2>2, <3>4, <3>5 DEF LastKrootKept
  <2> QED
    BY <2>1, <2>2
<1> QED
  BY <1>2, <1>3, <1>4, <1>6 DEF RenewalInv

LEMMA NextRenewalInv ==
    RenewalInv /\ [RenewalNext]_<<trustVars, historyVars>> => RenewalInv'
<1> SUFFICES ASSUME RenewalInv, [RenewalNext]_<<trustVars, historyVars>> PROVE RenewalInv'
  OBVIOUS
<1>1. CASE UNCHANGED <<trustVars, historyVars>>
  BY <1>1 DEF trustVars, historyVars, RenewalInv, TrustInv, TrustTypeOK, PublicKeysAreAuthentic,
       KrootsAreAuthentic, HistoryTypeOK, LastKrootKept, NoYoungerKey, NewestKeysKept,
       NewestKeyKept
<1> QED
  BY <1>1, LoadRenewalInv, RenewKeyInv, RenewKrootInv, RestartRenewalInv DEF RenewalNext

(* The KROOT in force is always of the last subframe in which a KROOT was  *)
(* verified, however often the full list has reused its entry 0.           *)
THEOREM LastKrootInForce == RenewalSpec => []LastVerifiedKrootActive
  BY InitRenewalInv, NextRenewalInv, NewestKrootIsLast, PTL DEF RenewalSpec

(* From the acceptance of a key for an id, KROOTs that name the id are     *)
(* checked with a key of that renewal, until the reuse of entry 0 gives up *)
(* that very key.                                                          *)
THEOREM RenewedKeyInForce == RenewalSpec => []RenewedKeyTakesOver
  BY InitRenewalInv, NextRenewalInv, NewestKeyIsLast, PTL DEF RenewalSpec
=============================================================================

---------------------------- MODULE TrustRenewal ----------------------------
(***************************************************************************)
(* The trust store fed in the order of the subframes, as the readers do:   *)
(* which public key and which KROOT are in force after a renewal.          *)
(***************************************************************************)
EXTENDS TrustStore

VARIABLES
    clock,      \* newest subframe of the input
    renewed,    \* history: the newest pairs accepted for an id, and when;
                \*   none once the list has given the last of them up
    accepted    \* history: subframe of the last accepted KROOT

historyVars == <<clock, renewed, accepted>>

NoRenewal == [time |-> 0, pairs |-> {}]
NotRenewed == [id \in PkIds |-> NoRenewal]

RenewalInit == TrustInit /\ clock = 0 /\ accepted = 0 /\ renewed = NotRenewed

Later == {t \in Times : t >= clock}

(* The next key the list stores takes the place of the only entry that is  *)
(* left of the newest renewal of this id: entry 0 of a full list.          *)
GivesUp(id) ==
    /\ \A s \in PkrSlots : pkr_list[s].valid
    /\ {s \in PkrSlots : pkr_list[s].pkr.id = id /\ pkr_list[s].time = renewed[id].time} = {0}

StillRenewed == [id \in PkIds |-> IF GivesUp(id) THEN NoRenewal ELSE renewed[id]]

Load ==
    /\ \/ SetMerkleRoot /\ UNCHANGED renewed
       \/ LoadKey /\ renewed' = StillRenewed
    /\ UNCHANGED <<clock, accepted>>

RenewKey ==
    \E pkr \in Pkrs, t \in Later :
        /\ AddPkr(pkr, t)
        /\ clock' = t
        /\ renewed' = IF VerifyPkr(pkr)
                      THEN [StillRenewed EXCEPT ![pkr.id] =
                              [time |-> t, pairs |-> {pkr.pair} \cup
                                  (IF @.time = t THEN @.pairs ELSE {})]]
                      ELSE renewed
        /\ UNCHANGED accepted

RenewKroot ==
    \E kroot \in SignedKroots, t \in Later :
        /\ AddKroot(kroot, t)
        /\ clock' = t
        /\ accepted' = IF KrootIsVerified(kroot) THEN t ELSE accepted
        /\ UNCHANGED renewed

Restart == Reset /\ clock' = 0 /\ accepted' = 0 /\ renewed' = NotRenewed

RenewalNext == Load \/ RenewKey \/ RenewKroot \/ Restart

RenewalSpec == RenewalInit /\ [][RenewalNext]_<<trustVars, historyVars>>

-----------------------------------------------------------------------------
(* "Keep the last verified KROOT active" (osnma_trust_store.cpp 142-145):  *)
(* the KROOT the engine works with is of the last subframe in which one    *)
(* was verified, also once the full list reuses entry 0 again and again.   *)
LastVerifiedKrootActive ==
    accepted # 0 =>
        \A s \in KrootSlots : FindLatestVerifiedKroot(s) => kroot_list[s].time = accepted

(* Public key renewal takes effect at once and lasts: from the subframe in *)
(* which a key is accepted for an id, KROOTs that name the id are checked  *)
(* with a key of that renewal, not with an older or a loaded one, until    *)
(* the reuse of entry 0 of a full list gives up that very key.             *)
RenewedKeyTakesOver ==
    \A id \in PkIds : renewed[id].time # 0 =>
        \E s \in PkrSlots :
            FindVerifiedPkrById(id, s) /\ pkr_list[s].pkr.pair \in renewed[id].pairs
=============================================================================

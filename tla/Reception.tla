----------------------------- MODULE Reception ------------------------------
(***************************************************************************)
(* The engine under good reception: the key material is loaded, then the   *)
(* pages of a complete recording are fed, subframe by subframe, as         *)
(* RunJsonMode of osnma_test.cpp does.  In a subframe the satellites are   *)
(* heard in any order; the page that completes the OSNMA subframe of a     *)
(* satellite is fed to the navigation store first.                         *)
(*                                                                         *)
(* The loop over the input runs until the input ends: its next step is     *)
(* always taken (weak fairness).                                           *)
(***************************************************************************)
EXTENDS OsnmaEngine

VARIABLES
    fed,        \* satellites whose pages of subframe `now` were fed
    processed   \* satellites whose subframe `now` was processed

receptionVars == <<engineVars, fed, processed>>

Loaded == \E s \in DOMAIN pkr_list : pkr_list[s].valid

Load == ~Loaded /\ LoadMaterial /\ UNCHANGED <<fed, processed>>

NextSubframe ==
    /\ Loaded /\ Idle /\ processed = Prns
    /\ now + 1 \in Epochs
    /\ now' = now + 1 /\ fed' = {} /\ processed' = {} /\ done' = Nothing
    /\ UNCHANGED <<teslaVars, trustStore, pending, nav, authenticated_objects, in_hand, result>>

FeedPages(p) ==
    /\ p \notin fed /\ now \in Epochs
    /\ FeedNavigationPage(p, now, [kind \in NavKinds |-> Transmitted[p, kind, now]])
    /\ fed' = fed \cup {p} /\ UNCHANGED processed

Process(p) ==
    /\ p \in fed \ processed
    /\ \E sf \in Subframes : sf.prn = p /\ sf.epoch = now /\ ProcessSubframe(sf)
    /\ processed' = processed \cup {p} /\ UNCHANGED <<now, fed>>

Finish == ProcessMack /\ UNCHANGED <<fed, processed>>

ReceptionNext ==
    \/ Load
    \/ NextSubframe
    \/ \E p \in Prns : FeedPages(p) \/ Process(p)
    \/ Finish

ReceptionSpec ==
    /\ EngineInit /\ fed = Prns /\ processed = Prns
    /\ [][ReceptionNext]_receptionVars
    /\ WF_receptionVars(ReceptionNext)

-----------------------------------------------------------------------------
(* The data of all subframes that two more subframes follow: one carries   *)
(* the tags, the next the key.                                             *)
DataEpochs == {e \in Epochs : e + 1 \in Epochs /\ e + 2 \in Epochs}

(* Under good reception everything the satellites send gets authenticated, *)
(* whatever fails in the DSM part after the first KROOT: "A DSM failure is *)
(* therefore recorded, but it no longer aborts processing of the MACK when *)
(* a previously trusted KROOT is available" (osnma_engine.cpp 277-278).    *)
EverythingAuthenticated ==
    \A p \in Prns, a \in Adkds \ {"SlowMac"}, e \in DataEpochs :
        <>(NavObject(p, a, Transmitted[p, NavKind(a), e]) \in authenticated_objects)

(* "ADKD 0, ADKD 4 and ADKD 12 processing" (README.md 12), and the MACK is *)
(* kept "so future slow-MAC handling can consume it" (osnma_engine.cpp     *)
(* 1066-1067): once the key of a slow MAC tag is known, the navigation     *)
(* data of the tag gets authenticated.                                     *)
SlowMacAuthenticated ==
    \A p \in Prns, e \in DataEpochs :
        HasKeyForTag(keys, e + 1, "SlowMac") ~>
            NavObject(p, "SlowMac", Transmitted[p, "ced", e]) \in authenticated_objects
=============================================================================

-------------------------- MODULE SubframeAssembler --------------------------
(***************************************************************************)
(* From pages to OSNMA subframes: OsnmaSubframeAssembler, with what        *)
(* OsnmaAuthenticator::FeedPageParts does around it.                       *)
(*                                                                         *)
(* Each page of a satellite carries one byte of the HKROOT and four of the *)
(* MACK of its 30 s subframe, placed by the page's time in the subframe.   *)
(* One partial subframe is kept per satellite.  A chunk is modelled by the *)
(* page it was sent in: a satellite and a time.                            *)
(*                                                                         *)
(* The engine is called with every complete subframe; which result it      *)
(* gives is left open here.  No action changes the timing mode: Reset      *)
(* keeps it.                                                               *)
(***************************************************************************)
EXTENDS Integers

CONSTANTS
    Prns,           \* satellites (valid PRNs)
    BadPrns,        \* PRNs out of range
    PageCount,      \* PAGE_COUNT (15)
    PageSeconds,    \* 2
    ModeShifts,     \* shift of page times: 0 Standard, 1 OfficialCsvE1B
    MaxSubframe,    \* last subframe of the input
    LastLive,       \* last subframe received live
    MaxLateness,    \* by how many seconds a page received live may be late
    EngineReasons   \* reasons ProcessSubframe gives

ASSUME SizesAssumption ==
    /\ PageCount \in Nat \ {0} /\ PageSeconds \in Nat \ {0, 1}
    /\ MaxSubframe \in Nat /\ LastLive \in 0 .. MaxSubframe /\ MaxLateness \in Nat
ASSUME PrnsAssumption == Prns \cap BadPrns = {} /\ 0 \notin Prns
ASSUME ShiftsAssumption == ModeShifts \subseteq {0, 1}

VARIABLES
    shift,      \* timing_mode_ of the assembler
    sats,       \* sats_ of the assembler
    status,     \* state and reason in sats_ of the authenticator
    subframe,   \* the subframe the last page completed, or NoSubframe
    newest,     \* newest page time of the input
    ordered,    \* history: no page was late
    heard,      \* history: good pages received from each satellite until then
    delivered   \* history: subframes delivered for each satellite until then

assemblerVars == <<shift, sats, status, subframe, newest, ordered, heard, delivered>>

-----------------------------------------------------------------------------
SubframeSeconds == PageCount * PageSeconds
PageIndices == 0 .. (PageCount - 1)
(* When the pages of a subframe are sent.                                  *)
PageStart(e, i) == e * SubframeSeconds + i * PageSeconds
Pages == {PageStart(e, i) : e \in 0 .. MaxSubframe, i \in PageIndices}

(* PageReferenceTow, PageIndexFromTow, SubframeEpochFromTime.              *)
PageReferenceTow(t) == t - shift
PageIndexFromTow(t) == (PageReferenceTow(t) % SubframeSeconds) \div PageSeconds
SubframeEpochFromTime(t) == PageReferenceTow(t) \div SubframeSeconds

NoChunk == [prn |-> 0, sent |-> -1]
NoSubframe == [prn |-> 0]
EmptyAssembly == [active |-> FALSE, epoch |-> 0, chunks |-> [i \in PageIndices |-> NoChunk]]

ReceivedMask(sat) == {i \in PageIndices : sat.chunks[i] # NoChunk}

AlwaysNewAssembly(sat, epoch) == [EmptyAssembly EXCEPT !.active = TRUE, !.epoch = epoch]
MixedAssembly(sat, epoch) == [sat EXCEPT !.active = TRUE, !.epoch = epoch]
(* A page of another subframe, newer or older, starts the assembly anew.   *)
CurrentAssembly(sat, epoch) ==
    IF ~sat.active \/ sat.epoch # epoch
    THEN [EmptyAssembly EXCEPT !.active = TRUE, !.epoch = epoch]
    ELSE sat

IsWhole(sat) == ReceivedMask(sat) = PageIndices

(* FeedParsedPage.  A whole assembly stays: a repeated page of it makes    *)
(* the same subframe come out again.                                       *)
FeedParsedPage(p, t, chunk) ==
    LET started == CurrentAssembly(sats[p], SubframeEpochFromTime(t))
        sat == [started EXCEPT !.chunks[PageIndexFromTow(t)] = chunk]
    IN  /\ sats' = [sats EXCEPT ![p] = sat]
        /\ subframe' = IF IsWhole(sat)
                       THEN [prn |-> p, epoch |-> sat.epoch, chunks |-> sat.chunks]
                       ELSE NoSubframe

-----------------------------------------------------------------------------
Status(state, reason) == [state |-> state, reason |-> reason]
EngineResults ==
    {Status("Unknown", r) : r \in EngineReasons} \cup {Status("Yes", "None")}

AssemblerInit ==
    /\ sats = [p \in Prns |-> EmptyAssembly]
    /\ status = [p \in Prns |-> Status("Unknown", "None")]
    /\ subframe = NoSubframe
    /\ newest = 0
    /\ ordered = TRUE
    /\ heard = [p \in Prns |-> {}]
    /\ delivered = [p \in Prns |-> {}]

NotesTime(t) ==
    /\ ordered' = (ordered /\ t >= newest)
    /\ newest' = IF t > newest THEN t ELSE newest

(* FeedPageParts at time t with a page of p sent at `sent`, whose CRC is   *)
(* right and which has an odd part ("good"), or not.                       *)
FeedGoodPage(p, t, sent) ==
    /\ NotesTime(t)
    /\ FeedParsedPage(p, t, [prn |-> p, sent |-> sent])
    /\ \/ /\ subframe' # NoSubframe
          /\ \E result \in EngineResults : status' = [status EXCEPT ![p] = result]
          /\ delivered' = IF ordered' THEN [delivered EXCEPT ![p] = @ \cup {subframe'.epoch}]
                          ELSE delivered
       \/ /\ subframe' = NoSubframe
          /\ status' = [status EXCEPT ![p] = Status("Unknown", "WaitingForMoreFrames")]
          /\ UNCHANGED delivered
    /\ heard' = IF ordered' THEN [heard EXCEPT ![p] = @ \cup {sent}] ELSE heard

FeedBadPage(p, t, reason) ==
    /\ NotesTime(t)
    /\ status' = [status EXCEPT ![p] = Status("Unknown", reason)]
    /\ subframe' = NoSubframe
    /\ UNCHANGED <<sats, heard, delivered>>

(* A page with an impossible PRN is answered with InvalidPrn, no more.     *)
RejectPage ==
    /\ subframe' = NoSubframe
    /\ UNCHANGED <<sats, status, newest, ordered, heard, delivered>>

(* Live input, at any time of the first subframes.                         *)
ReceivePage ==
    \E p \in Prns, sent \in {s \in Pages : s < PageStart(LastLive + 1, 0)} :
        /\ sent + shift >= newest - MaxLateness
        /\ \/ FeedGoodPage(p, sent + shift, sent)
           \/ FeedBadPage(p, sent + shift, "NoOsnmaData")            \* failed CRC
           \/ FeedBadPage(p, sent + shift, "InvalidFrameFormat")     \* no odd part

Reset ==
    /\ sats' = [p \in Prns |-> EmptyAssembly]
    /\ status' = [p \in Prns |-> Status("Unknown", "None")]
    /\ subframe' = NoSubframe
    /\ newest' = 0
    /\ ordered' = TRUE
    /\ heard' = [p \in Prns |-> {}]
    /\ delivered' = [p \in Prns |-> {}]

-----------------------------------------------------------------------------
(* A delivered subframe is what one satellite sent in one subframe, byte   *)
(* for byte: never a mixture of two subframes, in either timing mode, with *)
(* pages lost, repeated or out of order.                                   *)
SubframesAreGenuine ==
    subframe # NoSubframe =>
        \A i \in PageIndices :
            subframe.chunks[i] = [prn |-> subframe.prn, sent |-> PageStart(subframe.epoch, i)]

(* With input in order, no satellite's subframe is missed: once all its    *)
(* pages arrived it has been delivered, whatever pages of other satellites *)
(* and bad pages came in between.                                          *)
HeardIsDelivered ==
    \A p \in Prns, e \in 0 .. MaxSubframe :
        (\A i \in PageIndices : PageStart(e, i) \in heard[p]) => e \in delivered[p]
=============================================================================

-------------------------- MODULE NavCandidateStore --------------------------
(***************************************************************************)
(* The navigation data that tags are checked against:                      *)
(* GalileoNavCandidateStore.                                               *)
(*                                                                         *)
(* A satellite repeats its navigation words (CED in word types 1 to 5,     *)
(* timing in 6 and 10).  The store keeps, per satellite and 30 s subframe, *)
(* a candidate: the words known in that subframe, those not repeated in it *)
(* copied from the candidate before, each with its age in subframes.  A    *)
(* tag names the subframe it is for and the greatest age it allows (COP).  *)
(*                                                                         *)
(* Times are seconds of system time; pages carry the time the timing mode  *)
(* gives them.  The contents of a word are the bits of its even part, the  *)
(* only ones the store compares.                                           *)
(***************************************************************************)
EXTENDS Integers, FiniteSetsExt

CONSTANTS
    Prns,               \* satellites
    CedWords,           \* GAL_WT1 .. GAL_WT5
    Contents,           \* what a word can say
    Payloads,           \* <<word type, contents>> that arrive, any word type
    SubframeSeconds,    \* 30
    ModeShift,          \* 1 in mode OfficialCsvE1B, 0 in mode Standard
    PageTimes,          \* times of the pages that can arrive
    PartialTimeout,     \* PARTIAL_TIMEOUT_S
    CompleteLifetime,   \* COMPLETE_LIFETIME_S
    PairMaxSpan,        \* TIMING_PAIR_MAX_SPAN_S
    MaxCop,             \* 15: greatest COP of a tag
    MaxLateness,        \* by how many seconds a page may be late
    MaxLatePages,       \* how many pages may be late
    NoCandidate         \* no candidate under a key

WT6 == 6
WT10 == 10
Words == CedWords \cup {WT6, WT10}

ASSUME WordsAssumption ==
    /\ CedWords # {} /\ CedWords \subseteq 1 .. 5
    /\ Payloads \subseteq Nat \X Contents
ASSUME TimesAssumption ==
    /\ SubframeSeconds \in Nat \ {0} /\ ModeShift \in {0, 1}
    /\ \A t \in PageTimes : t \in Nat /\ t >= ModeShift
    /\ PartialTimeout \in Nat /\ CompleteLifetime \in Nat /\ PairMaxSpan \in Nat
    /\ PartialTimeout <= CompleteLifetime /\ SubframeSeconds <= CompleteLifetime
    /\ MaxCop \in Nat
    /\ MaxLateness \in Nat /\ MaxLatePages \in Nat

VARIABLES
    candidates,     \* candidates_
    newest,         \* newest time of the input
    latest,         \* history: contents of the last copy of each word
    late_pages      \* history: number of pages that were late

navVars == <<candidates, newest, latest, late_pages>>

-----------------------------------------------------------------------------
(* MakeSubframeTimeForPageEpoch: the subframe, named by its first second.  *)
SubframeTime(t) == ((t - ModeShift) \div SubframeSeconds) * SubframeSeconds
SubframeTimes == {SubframeTime(t) : t \in PageTimes}

NoWord == [valid |-> FALSE]
NoTime == -1

(* GalileoNavWord, GalileoNavCandidate.                                    *)
WordEntries == [valid : {TRUE}, content : Contents, time : PageTimes, age : Nat] \cup {NoWord}
Candidates ==
    [creation : SubframeTimes, last_update : PageTimes, ced_complete : PageTimes \cup {NoTime},
     words : [Words -> WordEntries]]

ASSUME NoCandidateAssumption == NoCandidate \notin Candidates

Stored(p) == {e \in SubframeTimes : candidates[<<p, e>>] # NoCandidate}

HasCedData(c) == \A w \in CedWords : c.words[w].valid
HasTimingPair(c) ==
    /\ c.words[WT6].valid /\ c.words[WT10].valid
    /\ c.words[WT10].time - c.words[WT6].time \in 0 .. PairMaxSpan

LateIsExpired(c, t) ==
    IF HasCedData(c) \/ HasTimingPair(c)
    THEN t < c.creation \/ t - c.creation > CompleteLifetime
    ELSE t < c.last_update \/ t - c.last_update > PartialTimeout

(* IsExpired: never, seen from before its time.                            *)
IsExpired(c, t) ==
    /\ t >= c.creation /\ t >= c.last_update
    /\ IF HasCedData(c) \/ HasTimingPair(c)
       THEN t - c.creation > CompleteLifetime
       ELSE t - c.last_update > PartialTimeout

Cleanup(store, t) ==
    [k \in DOMAIN store |->
        IF store[k] # NoCandidate /\ IsExpired(store[k], t) THEN NoCandidate ELSE store[k]]

-----------------------------------------------------------------------------
(***************************************************************************)
(* MakeRollingCedCandidate: the first page of a subframe starts from a     *)
(* copy of the newest candidate of an earlier subframe, its words aged by  *)
(* the subframes in between.                                               *)
(***************************************************************************)
Earlier(store, p, e) == {d \in SubframeTimes : d < e /\ store[<<p, d>>] # NoCandidate}

FirstOfEarlier(store, p, e) == store[<<p, Min(Earlier(store, p, e))>>]
NewestBefore(store, p, e) == store[<<p, Max(Earlier(store, p, e))>>]

AgeByOne(c, e) ==
    [w \in Words |-> IF c.words[w].valid THEN [c.words[w] EXCEPT !.age = @ + 1] ELSE NoWord]
AgedWords(c, e) ==
    [w \in Words |->
        IF c.words[w].valid
        THEN [c.words[w] EXCEPT !.age = @ + (e - c.creation) \div SubframeSeconds]
        ELSE NoWord]

RollingCandidate(store, p, e, t) ==
    IF Earlier(store, p, e) = {}
    THEN [creation |-> e, last_update |-> t, ced_complete |-> NoTime,
          words |-> [w \in Words |-> NoWord]]
    ELSE LET previous == NewestBefore(store, p, e)
         IN  [previous EXCEPT !.creation = e, !.last_update = t,
                              !.words = AgedWords(previous, e)]

KeepCompleteTime(c, w, content) == c.ced_complete
ChangedCompleteTime(c, w, content) ==
    IF w \in CedWords /\ ~(c.words[w].valid /\ c.words[w].content = content)
    THEN NoTime ELSE c.ced_complete

(* UpdateCedCompleteTime: when the five words as they are were all there.  *)
CompleteTime(c, known) ==
    IF ~HasCedData(c) THEN NoTime
    ELSE IF known # NoTime THEN known
    ELSE Max({c.words[w].time : w \in CedWords})

(* FeedCedPage, FeedTimingPage: the candidate with word w of a page.       *)
WithWord(c, w, content, t) ==
    LET known == ChangedCompleteTime(c, w, content)
        stored == [c EXCEPT !.last_update = t,
                    !.words[w] = [valid |-> TRUE, content |-> content, time |-> t, age |-> 0]]
    IN  [stored EXCEPT !.ced_complete =
            IF w \in CedWords THEN CompleteTime(stored, known) ELSE @]

(* The candidate that a page of satellite p at time t is stored in.        *)
CandidateFor(store, p, t) ==
    IF store[<<p, SubframeTime(t)>>] # NoCandidate THEN store[<<p, SubframeTime(t)>>]
    ELSE RollingCandidate(store, p, SubframeTime(t), t)

FeedPage(p, w, content, t) ==
    LET store == Cleanup(candidates, t)
        c == CandidateFor(store, p, t)
    IN  \/ /\ w \in Words
           /\ candidates' = [store EXCEPT ![<<p, SubframeTime(t)>>] = WithWord(c, w, content, t)]
        \/ /\ w \notin Words
           /\ candidates' = store

-----------------------------------------------------------------------------
(* FindForAdkd: the candidate of exactly the subframe a tag is for, when   *)
(* none of the words of its kind is older than COP allows.                 *)
FreshestAge(c, words) == Min({c.words[w].age : w \in words})
MaxAge(c, words) == Max({c.words[w].age : w \in words})

FindComplete(p, e, cop) ==
    /\ candidates[<<p, e>>] # NoCandidate
    /\ LET c == candidates[<<p, e>>] IN
        ~IsExpired(c, e) /\ HasCedData(c) /\ cop > 0 /\ MaxAge(c, CedWords) + 1 <= cop

FindTiming(p, e, cop) ==
    /\ candidates[<<p, e>>] # NoCandidate
    /\ LET c == candidates[<<p, e>>] IN
        HasTimingPair(c) /\ cop > 0 /\ MaxAge(c, {WT6, WT10}) + 1 <= cop

-----------------------------------------------------------------------------
NavInit ==
    /\ candidates = [k \in Prns \X SubframeTimes |-> NoCandidate]
    /\ newest = 0
    /\ latest = [k \in Prns \X Words |-> NoWord]
    /\ late_pages = 0

Receive(p, w, content, t) ==
    /\ t >= newest - MaxLateness
    /\ FeedPage(p, w, content, t)
    /\ newest' = IF t > newest THEN t ELSE newest
    /\ late_pages' = IF t < newest THEN late_pages + 1 ELSE late_pages
    /\ late_pages' <= MaxLatePages
    /\ latest' = IF w \in Words /\ late_pages' = 0
                 THEN [latest EXCEPT ![<<p, w>>] = [valid |-> TRUE, content |-> content]]
                 ELSE latest

ReceivePage ==
    \E p \in Prns, payload \in Payloads, t \in PageTimes : Receive(p, payload[1], payload[2], t)

(* ProcessSubframe also cleans up, with the time of its subframe.          *)
CleanupForSubframe ==
    \E t \in PageTimes :
        /\ t >= newest - MaxLateness /\ t <= newest
        /\ candidates' = Cleanup(candidates, SubframeTime(t))
        /\ UNCHANGED <<newest, latest, late_pages>>

Reset ==
    /\ candidates' = [k \in Prns \X SubframeTimes |-> NoCandidate]
    /\ newest' = 0
    /\ latest' = [k \in Prns \X Words |-> NoWord]
    /\ late_pages' = 0

NavNext == ReceivePage \/ CleanupForSubframe \/ Reset

NavSpec == NavInit /\ [][NavNext]_navVars

-----------------------------------------------------------------------------
(* The age of a word is the number of subframes since the page it came in, *)
(* however many subframes were lost and in whatever order pages arrive:    *)
(* COP is compared with the true age.                                      *)
AgesAreTrue ==
    \A p \in Prns : \A e \in Stored(p) : \A w \in Words :
        LET word == candidates[<<p, e>>].words[w] IN
        word.valid => word.age * SubframeSeconds = e - SubframeTime(word.time)

(* The data handed out for a tag of subframe e is what the tag's COP       *)
(* admits: each of its words was received in one of the last COP subframes *)
(* up to e, and never after e; WT10 of a timing pair came after its WT6.   *)
FoundWithinCop ==
    \A p \in Prns : \A e \in Stored(p) : \A cop \in 1 .. MaxCop :
        LET c == candidates[<<p, e>>]
            InCop(w) == e - SubframeTime(c.words[w].time) \in 0 .. (cop - 1) * SubframeSeconds
        IN  /\ FindComplete(p, e, cop) => \A w \in CedWords : InCop(w)
            /\ FindTiming(p, e, cop) =>
                  InCop(WT6) /\ InCop(WT10) /\ c.words[WT6].time <= c.words[WT10].time

(* With input in order, the candidate of the newest subframe never holds a *)
(* copy of a word that a later page replaced, unless the copy is so old    *)
(* that the candidate with the replacement had time to expire: a tag whose *)
(* COP is within PARTIAL_TIMEOUT_S is never checked against a mixture of   *)
(* old and new data.                                                       *)
NoStaleWord ==
    \A p \in Prns : late_pages = 0 /\ Stored(p) # {} =>
        \A w \in Words :
            LET word == candidates[<<p, Max(Stored(p))>>].words[w] IN
            word.valid => \/ word.content = latest[<<p, w>>].content
                          \/ newest - word.time > PartialTimeout

SameCed(c, d) == \A w \in CedWords : c.words[w].content = d.words[w].content

(* "Earliest epoch at which the exact current WT1..WT5 combination had     *)
(* become complete" (galileo_nav_candidate.h 59-64): with input in order,  *)
(* from one complete CED of a satellite to the next, the time stays while  *)
(* the contents do and is the time of the page that changed them otherwise.*)
CompleteTimeOfContents ==
    [][\A p \in Prns :
          /\ late_pages' = 0 /\ Stored(p) # {}
          /\ candidates'[<<p, Max(Stored(p))>>] # NoCandidate
          =>
              LET c == candidates[<<p, Max(Stored(p))>>]
                  d == candidates'[<<p, Max(Stored(p)')>>]
              IN  HasCedData(c) /\ HasCedData(d) =>
                      d.ced_complete = IF SameCed(c, d) THEN c.ced_complete ELSE d.last_update
      ]_navVars

(* "If 'now' is earlier than the candidate time, do not expire it"         *)
(* (galileo_nav_candidate.cpp 817-832): however late a page or a subframe  *)
(* is, a candidate is only dropped when the input itself has come to the   *)
(* end of its lifetime.                                                    *)
KeptForLifetime ==
    [][\A p \in Prns, e \in SubframeTimes :
          LET c == candidates[<<p, e>>] IN
          c # NoCandidate /\ candidates'[<<p, e>>] = NoCandidate /\ newest' # 0 =>
              \/ newest' - c.creation > CompleteLifetime
              \/ ~HasCedData(c) /\ newest' - c.last_update > PartialTimeout]_navVars
=============================================================================

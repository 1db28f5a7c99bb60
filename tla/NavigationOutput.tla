-------------------------- MODULE NavigationOutput ---------------------------
(***************************************************************************)
(* The navigation data the library reports: GalileoAuthDataFifo, fed by    *)
(* the store of NavCandidateStore with every data set that becomes         *)
(* complete and by RegisterMacSuccesses with every one that is             *)
(* authenticated, and PegasusCsvWriter, which writes the files.            *)
(*                                                                         *)
(* A data set is reported twice, in an initial row when it is received and *)
(* in a row that repeats it when it is authenticated; either is left out   *)
(* when it says what the last such row of the satellite said.  What a row  *)
(* says of the data is abstracted to the contents of the words its         *)
(* fingerprint covers.  Pages arrive in order; they may be lost.           *)
(***************************************************************************)
EXTENDS NavCandidateStore, Sequences

CONSTANTS
    Pages,          \* <<word type, contents, time>> the satellites send
    Iod,            \* issue of data that contents of WT1 .. WT4 belong to
    EphPart,        \* what contents of WT5 add to the ephemeris ...
    IonoPart,       \* ... and what they say of the ionosphere
    NoGgto,         \* contents of a WT10 without GST-GPS parameters
    AuthDelay,      \* how long after a subframe its data can be authenticated
    NoData          \* no row reported yet

ASSUME PagesAssumption ==
    /\ 5 \in CedWords /\ AuthDelay \in Nat
    /\ Pages \subseteq Words \X Contents \X PageTimes

WT5 == 5
Files == {"eph", "iono", "dtime"}
Kinds == {"eph", "iono", "utc", "ggto"}
FileOf(kind) == IF kind \in {"utc", "ggto"} THEN "dtime" ELSE kind

(* What rows say.                                                          *)
Data ==
    Contents \cup {IonoPart[x] : x \in Contents}
        \cup [CedWords -> Contents \cup {EphPart[x] : x \in Contents}]

ASSUME NoDataAssumption == NoData \notin Data

VARIABLES
    rows,                   \* the deques of rows, one per file
    last_rx,                \* data of the last initial row ...
    last_auth,              \* ... and authenticated row, per satellite and kind
    authenticated_objects,  \* authenticated_objects_: <<satellite, ADKD, data set>>
    files,                  \* the files, once they are written
    fell_back               \* history: satellites with a candidate left by a newer one

outputVars == <<rows, last_rx, last_auth, authenticated_objects, files, fell_back>>

NoFiles == [f \in {} |-> <<>>]
NoRows == [f \in Files |-> <<>>]
Nothing == [k \in Prns \X Kinds |-> NoData]

-----------------------------------------------------------------------------
(* The row of each kind that a candidate of satellite p gives, or NoRow    *)
(* when the candidate does not have such data.                             *)
Row(p, kind, state, rx, data) ==
    [prn |-> p, kind |-> kind, state |-> state, rx |-> rx, data |-> data]
NoRow == [kind |-> "none"]

IodnavConsistent(c) ==
    \A v, w \in CedWords \ {WT5} : Iod[c.words[v].content] = Iod[c.words[w].content]

EphFingerprint(c) ==
    [w \in CedWords |->
        IF w = WT5 THEN EphPart[c.words[w].content] ELSE c.words[w].content]

UndatedInitialRow(p, c, state, rx) ==
    IF HasCedData(c) /\ IodnavConsistent(c)
    THEN Row(p, "eph", state, IF state = "Yes" THEN rx ELSE NoTime, EphFingerprint(c))
    ELSE NoRow
EphRow(p, c, state, rx) ==
    IF HasCedData(c) /\ IodnavConsistent(c)
    THEN Row(p, "eph", state, rx, EphFingerprint(c)) ELSE NoRow

IonoOfEphemeris(p, c, state, rx) ==
    IF HasCedData(c) /\ IodnavConsistent(c)
    THEN Row(p, "iono", state, rx, IonoPart[c.words[WT5].content]) ELSE NoRow
IonoRow(p, c, state, rx) == Row(p, "iono", state, rx, IonoPart[c.words[WT5].content])

UtcRow(p, c, state, rx) == Row(p, "utc", state, rx, c.words[WT6].content)

GgtoRow(p, c, state, rx) ==
    IF c.words[WT10].content # NoGgto
    THEN Row(p, "ggto", state, rx, c.words[WT10].content) ELSE NoRow

(* A row is pushed when it differs from the last one of its satellite and  *)
(* kind; last is then what the offered rows say.                           *)
IsNews(row, last) == row # NoRow /\ last[<<row.prn, row.kind>>] # row.data

WithRow(deque, row, last) == IF IsNews(row, last) THEN Append(deque, row) ELSE deque

Push(offered, last) ==
    rows' = [f \in Files |->
                IF f = "dtime"
                THEN WithRow(WithRow(rows[f], offered["utc"], last), offered["ggto"], last)
                ELSE WithRow(rows[f], offered[f], last)]

Remember(offered, last) ==
    [k \in DOMAIN last |->
        IF IsNews(offered[k[2]], last) /\ offered[k[2]].prn = k[1] THEN offered[k[2]].data
        ELSE last[k]]

NothingOffered == [kind \in Kinds |-> NoRow]

(* ObserveNavigation: the initial rows for a page whose contents are new   *)
(* to its candidate c.  The ephemeris dates from when all of it was there. *)
ReceivedRows(p, c, w, t) ==
    [kind \in Kinds |->
        CASE kind = "eph" /\ w \in CedWords -> EphRow(p, c, "Unknown", c.ced_complete)
          [] kind = "iono" /\ w = WT5 -> IonoRow(p, c, "Unknown", t)
          [] kind = "utc" /\ w = WT6 -> UtcRow(p, c, "Unknown", t)
          [] kind = "ggto" /\ w = WT10 -> GgtoRow(p, c, "Unknown", t)
          [] OTHER -> NoRow]

SameWord(c, w, content) == c.words[w].valid /\ c.words[w].content = content

RowsOfPage(p, w, content, t) ==
    LET c == CandidateFor(Cleanup(candidates, t), p, t)
    IN  IF SameWord(c, w, content) THEN NothingOffered
        ELSE ReceivedRows(p, WithWord(c, w, content, t), w, t)

(* Satellites whose newest candidate expires before an older one: partial  *)
(* candidates live shorter than complete ones.                             *)
FallBack(t) ==
    {p \in Prns :
        LET kept == {e \in Stored(p) : ~IsExpired(candidates[<<p, e>>], t)}
        IN  kept # {} /\ Max(Stored(p)) \notin kept}

FeedNavigationPage(p, w, content, t) ==
    /\ files = NoFiles
    /\ t >= newest /\ \A e \in Stored(p) : candidates[<<p, e>>].last_update < t
    /\ Receive(p, w, content, t)
    /\ Push(RowsOfPage(p, w, content, t), last_rx)
    /\ last_rx' = Remember(RowsOfPage(p, w, content, t), last_rx)
    /\ fell_back' = fell_back \cup FallBack(t)
    /\ UNCHANGED <<last_auth, authenticated_objects, files>>

-----------------------------------------------------------------------------
(* RegisterMacSuccesses, PushCedStatus, PushTiming: a tag verified, in the *)
(* subframe completed by the newest page, for the data of satellite p in   *)
(* subframe e.  Data already authenticated by that kind of tag only counts *)
(* the tag's bits.  (ProcessSubframe cleans the store before: with input in *)
(* order the newest page has dropped as much.)                             *)
NavObject(adkd, c) ==
    [w \in (IF adkd = "InavTiming" THEN {WT6, WT10} ELSE CedWords) |-> c.words[w].content]

AuthenticatedRows(p, c, adkd) ==
    [kind \in Kinds |->
        CASE kind = "eph" /\ adkd # "InavTiming" -> EphRow(p, c, "Yes", newest)
          [] kind = "iono" /\ adkd # "InavTiming" -> IonoRow(p, c, "Yes", newest)
          [] kind = "utc" /\ adkd = "InavTiming" -> UtcRow(p, c, "Yes", newest)
          [] kind = "ggto" /\ adkd = "InavTiming" -> GgtoRow(p, c, "Yes", newest)
          [] OTHER -> NoRow]

Found(p, e, adkd) ==
    IF adkd = "InavTiming" THEN FindTiming(p, e, MaxCop) ELSE FindComplete(p, e, MaxCop)

RegisterMacSuccess(p, e, adkd) ==
    /\ files = NoFiles
    /\ newest >= e + AuthDelay
    /\ Found(p, e, adkd)
    /\ LET c == candidates[<<p, e>>]
           offered == AuthenticatedRows(p, c, adkd)
       IN  /\ <<p, adkd, NavObject(adkd, c)>> \notin authenticated_objects
           /\ authenticated_objects' =
                  authenticated_objects \cup {<<p, adkd, NavObject(adkd, c)>>}
           /\ Push(offered, last_auth)
           /\ last_auth' = Remember(offered, last_auth)
    /\ UNCHANGED <<navVars, last_rx, files, fell_back>>

(* PegasusCsvWriter: empties the deques; each file is sorted by RX time,   *)
(* rows without one last and rows of the same time as they came.           *)
RxLess(a, b) == a.rx # NoTime /\ (b.rx = NoTime \/ a.rx < b.rx)
SortedBefore(deque, i, j) ==
    RxLess(deque[i], deque[j]) \/ (~RxLess(deque[j], deque[i]) /\ i < j)
SortedByRx(deque) ==
    [n \in DOMAIN deque |->
        deque[CHOOSE j \in DOMAIN deque :
                  Cardinality({i \in DOMAIN deque : SortedBefore(deque, i, j)}) = n - 1]]

WriteFiles ==
    /\ files = NoFiles
    /\ files' = [f \in Files |-> SortedByRx(rows[f])]
    /\ rows' = NoRows
    /\ UNCHANGED <<navVars, last_rx, last_auth, authenticated_objects, fell_back>>

-----------------------------------------------------------------------------
OutputInit ==
    /\ NavInit
    /\ rows = NoRows
    /\ last_rx = Nothing
    /\ last_auth = Nothing
    /\ authenticated_objects = {}
    /\ files = NoFiles
    /\ fell_back = {}

Restart ==
    /\ Reset
    /\ rows' = NoRows
    /\ last_rx' = Nothing
    /\ last_auth' = Nothing
    /\ authenticated_objects' = {}
    /\ files' = NoFiles
    /\ fell_back' = {}

OutputNext ==
    \/ \E p \in Prns, page \in Pages : FeedNavigationPage(p, page[1], page[2], page[3])
    \/ \E p \in Prns, e \in SubframeTimes, adkd \in {"InavCed", "SlowMac", "InavTiming"} :
          RegisterMacSuccess(p, e, adkd)
    \/ WriteFiles
    \/ Restart

OutputSpec == OutputInit /\ [][OutputNext]_<<navVars, outputVars>>

-----------------------------------------------------------------------------
Listed(f) == IF files = NoFiles THEN rows[f] ELSE files[f]

(* "The navigation files contain both initially decoded and subsequently   *)
(* authenticated navigation objects" (README.md 56): in a written file     *)
(* every authenticated row comes after an initial row of the same          *)
(* satellite with the same data, also when data changed back and forth and *)
(* rows in between were left out.                                          *)
AuthenticatedAfterInitial ==
    files # NoFiles =>
        \A f \in Files : \A i \in DOMAIN files[f] :
            files[f][i].state = "Yes" =>
                \E j \in 1 .. i - 1 :
                    files[f][j] = [files[f][i] EXCEPT !.state = "Unknown", !.rx = files[f][j].rx]

RowsOf(deque, p, kind, state) ==
    {i \in DOMAIN deque :
        deque[i].prn = p /\ deque[i].kind = kind /\ deque[i].state = state}

LastInitial(deque, p, kind) ==
    LET initial == RowsOf(deque, p, kind, "Unknown")
    IN  IF initial = {} THEN NoData ELSE deque[Max(initial)].data

(* Whatever the satellite changes, and whatever is left out as repeated,   *)
(* the last initial rows say what the store holds: a complete ephemeris of *)
(* one issue, the ionosphere and the time parameters of the newest         *)
(* candidate.  Only after the newest candidate of a satellite expired      *)
(* before an older one does the store hold what an earlier row said: no    *)
(* row is written then, nor when a page repeats what is held.              *)
LastInitialIsCurrent ==
    \A p \in Prns \ fell_back : Stored(p) # {} =>
        LET c == candidates[<<p, Max(Stored(p))>>]
            Says(kind, data) == LastInitial(Listed(FileOf(kind)), p, kind) = data
        IN  /\ HasCedData(c) /\ IodnavConsistent(c) => Says("eph", EphFingerprint(c))
            /\ c.words[WT5].valid => Says("iono", IonoPart[c.words[WT5].content])
            /\ c.words[WT6].valid => Says("utc", c.words[WT6].content)
            /\ c.words[WT10].valid /\ c.words[WT10].content # NoGgto =>
                   Says("ggto", c.words[WT10].content)

Objects(p, adkds) == {o \in authenticated_objects : o[1] = p /\ o[2] \in adkds}
AuthenticatedData(p, kind) ==
    LET deque == Listed(FileOf(kind)) IN {deque[i].data : i \in RowsOf(deque, p, kind, "Yes")}

(* The authenticated rows are exactly the data that tags authenticated: no *)
(* row is left out because another tag, or an initial row, said the same,  *)
(* and no row shows data that only a part of was authenticated.            *)
AuthenticatedIsReported ==
    \A p \in Prns :
        LET ced == {o[3] : o \in Objects(p, {"InavCed", "SlowMac"})}
            timing == {o[3] : o \in Objects(p, {"InavTiming"})}
        IN  /\ AuthenticatedData(p, "iono") = {IonoPart[d[WT5]] : d \in ced}
            /\ AuthenticatedData(p, "utc") = {d[WT6] : d \in timing}
            /\ AuthenticatedData(p, "ggto") = {d[WT10] : d \in timing} \ {NoGgto}
            /\ AuthenticatedData(p, "eph") =
                   {[d EXCEPT ![WT5] = EphPart[@]] :
                       d \in {d \in ced : \A v, w \in CedWords \ {WT5} : Iod[d[v]] = Iod[d[w]]}}
=============================================================================

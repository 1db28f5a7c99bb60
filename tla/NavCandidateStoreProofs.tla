----------------------- MODULE NavCandidateStoreProofs ----------------------
(* Proofs about NavCandidateStore, for any satellites, words, contents and *)
(* page times, any length of subframe, and all timeouts of which that of   *)
(* partial candidates is not the greater.                                  *)
EXTENDS NavCandidateStore, WellFoundedInduction, TLAPS

-----------------------------------------------------------------------------
(* Arithmetic of subframes.                                                *)
LEMMA MultiplesGrow ==
    ASSUME NEW a \in Int, NEW b \in Int, NEW s \in Nat \ {0}, a <= b
    PROVE  a * s <= b * s /\ a * s \in Int
  BY SMT

(* Division rounds down by less than the divisor.                          *)
LEMMA DivisionBounds ==
    ASSUME NEW x \in Int, NEW s \in Nat \ {0}
    PROVE  /\ x \div s \in Int
           /\ (x \div s) * s \in Int /\ (x \div s) * s <= x /\ x < (x \div s) * s + s
  BY SMT

LEMMA DivisionOfMultiple ==
    ASSUME NEW a \in Int, NEW s \in Nat \ {0}
    PROVE  (a * s) \div s = a
  BY SMT

LEMMA DivisionGrows ==
    ASSUME NEW x \in Int, NEW y \in Int, NEW s \in Nat \ {0}, x <= y
    PROVE  (x \div s) * s <= (y \div s) * s
<1>1. x \div s <= y \div s
  BY SMT
<1> QED
  BY <1>1, DivisionBounds, MultiplesGrow

LEMMA DifferenceOfMultiples ==
    ASSUME NEW a \in Int, NEW b \in Int, NEW s \in Nat \ {0}, b <= a
    PROVE  /\ (a * s - b * s) \div s = a - b
           /\ (a - b) * s = a * s - b * s
<1>1. (a - b) * s = a * s - b * s
  BY SMT
<1> QED
  BY <1>1, DivisionOfMultiple

(* SubframeTime is the first second of the subframe of a time, which the   *)
(* pages of mode OfficialCsvE1B come one second after.                     *)
LEMMA SubframeTimes1 ==
    ASSUME NEW t \in PageTimes
    PROVE  /\ t \in Nat /\ SubframeTime(t) \in SubframeTimes /\ SubframeTime(t) \in Nat
           /\ SubframeTime(t) <= t
           /\ \E a \in Nat : SubframeTime(t) = a * SubframeSeconds
<1> DEFINE x == t - ModeShift
<1>1. t \in Nat /\ ModeShift \in Nat /\ x \in Nat /\ SubframeSeconds \in Nat \ {0}
  BY TimesAssumption
<1>2. SubframeTime(t) = (x \div SubframeSeconds) * SubframeSeconds
  BY DEF SubframeTime
<1>3. x <= t
  BY <1>1
<1> HIDE DEF x
<1>4. x \div SubframeSeconds \in Nat
  BY <1>1, SMT
<1>5. /\ (x \div SubframeSeconds) * SubframeSeconds \in Nat
      /\ (x \div SubframeSeconds) * SubframeSeconds <= t
  BY <1>1, <1>3, <1>4, DivisionBounds, SMT
<1> QED
  BY <1>1, <1>2, <1>4, <1>5 DEF SubframeTimes

(* A later page is of the same or a later subframe.                        *)
LEMMA SubframesGrow ==
    ASSUME NEW s \in PageTimes, NEW t \in PageTimes, s <= t
    PROVE  SubframeTime(s) <= SubframeTime(t)
<1>1. s \in Nat /\ t \in Nat /\ ModeShift \in Nat /\ SubframeSeconds \in Nat \ {0}
  BY TimesAssumption
<1>2. s - ModeShift \in Int /\ t - ModeShift \in Int /\ s - ModeShift <= t - ModeShift
  BY <1>1
<1> QED
  BY <1>1, <1>2, DivisionGrows DEF SubframeTime

(* The distance of two subframes, SubframeDistance30s.                     *)
LEMMA SubframeDistance ==
    ASSUME NEW e \in SubframeTimes, NEW d \in SubframeTimes, d <= e
    PROVE  /\ e \in Nat /\ d \in Nat
           /\ (e - d) \div SubframeSeconds \in Nat
           /\ ((e - d) \div SubframeSeconds) * SubframeSeconds = e - d
<1>1. PICK a \in Nat : e = a * SubframeSeconds /\ e \in Nat
  BY SubframeTimes1 DEF SubframeTimes
<1>2. PICK b \in Nat : d = b * SubframeSeconds /\ d \in Nat
  BY SubframeTimes1 DEF SubframeTimes
<1>3. SubframeSeconds \in Nat \ {0}
  BY TimesAssumption
<1>4. b <= a
  BY <1>1, <1>2, <1>3, SMT
<1>5. (e - d) \div SubframeSeconds = a - b /\ (a - b) * SubframeSeconds = e - d
  BY <1>1, <1>2, <1>3, <1>4, DifferenceOfMultiples
<1>6. a - b \in Nat
  BY <1>4
<1> QED
  BY <1>1, <1>2, <1>5, <1>6

-----------------------------------------------------------------------------
(* The greatest of a set of numbers.                                       *)
LEMMA LeastNumber ==
    ASSUME NEW S \in SUBSET Nat, S # {}
    PROVE  \E m \in S : \A n \in S : m <= n
<1>1. IsWellFoundedOn(OpToRel(<, Nat), Nat)
  BY NatLessThanWellFounded
<1>2. PICK m \in S : \A n \in S : ~ (<<n, m>> \in OpToRel(<, Nat))
  BY <1>1, WFMin
<1>3. \A n \in S : ~(n < m)
  BY <1>2 DEF OpToRel
<1> QED
  BY <1>3

(* A bounded set of naturals that is not empty has a maximum.              *)
LEMMA MaxOfBounded ==
    ASSUME NEW S \in SUBSET Nat, S # {}, NEW bound \in Nat, \A x \in S : x <= bound
    PROVE  Max(S) \in S /\ \A x \in S : x <= Max(S)
<1> DEFINE T == {bound - x : x \in S}
<1>1. T \in SUBSET Nat /\ T # {}
  <2>1. \A x \in S : bound - x \in Nat
    OBVIOUS
  <2> QED
    BY <2>1
<1>2. PICK m \in T : \A n \in T : m <= n
  BY <1>1, LeastNumber
<1>3. PICK x \in S : m = bound - x
  BY <1>2
<1>4. \A y \in S : x >= y
  BY <1>2, <1>3
<1>5. Max(S) \in S /\ \A y \in S : Max(S) >= y
  BY <1>3, <1>4 DEF Max
<1> QED
  BY <1>5

LEMMA MaxIs ==
    ASSUME NEW S \in SUBSET Int, NEW m \in S, \A x \in S : x <= m
    PROVE  Max(S) = m
<1>1. \A x \in S : m >= x
  OBVIOUS
<1>2. Max(S) \in S /\ \A x \in S : Max(S) >= x
  BY <1>1, Zenon DEF Max
<1> DEFINE n == Max(S)
<1>3. n \in S /\ n >= m /\ n <= m
  BY <1>2
<1> HIDE DEF n
<1>4. n = m
  BY <1>3
<1> QED
  BY <1>4 DEF n

-----------------------------------------------------------------------------
(***************************************************************************)
(* The inductive invariant.  A candidate of subframe e, when the newest    *)
(* input is of time n, was updated by pages of e only, knows for each of   *)
(* its words the true age, and knows since when its CED is complete.       *)
(***************************************************************************)
GoodWord(word, e, n) ==
    word.valid =>
        /\ word.time <= n
        /\ word.age * SubframeSeconds = e - SubframeTime(word.time)

GoodCandidate(c, e, n) ==
    /\ c.creation = e /\ SubframeTime(c.last_update) = e /\ c.last_update <= n
    /\ \A w \in Words : GoodWord(c.words[w], e, n)
    /\ HasCedData(c) => c.ced_complete # NoTime

Keys == Prns \X SubframeTimes
Stores == [Keys -> Candidates \cup {NoCandidate}]
Heard == [valid : {TRUE}, content : Contents] \cup {NoWord}

GoodStore(store, n) ==
    \A p \in Prns, e \in SubframeTimes :
        store[<<p, e>>] # NoCandidate => GoodCandidate(store[<<p, e>>], e, n)

NavTypeOK ==
    /\ candidates \in Stores
    /\ newest \in PageTimes \cup {0}
    /\ latest \in [Prns \X Words -> Heard]
    /\ late_pages \in Nat

NavInv == NavTypeOK /\ GoodStore(candidates, newest) /\ NoStaleWord

-----------------------------------------------------------------------------
LEMMA WordSets ==
    /\ Words = CedWords \cup {6, 10}
    /\ CedWords \subseteq Words /\ CedWords # {}
    /\ 6 \notin CedWords /\ 10 \notin CedWords
    /\ WT6 = 6 /\ WT10 = 10
  BY WordsAssumption DEF Words, WT6, WT10

(* A word is none, or has contents, a time and an age.                     *)
LEMMA EntriesTyped ==
    /\ NoWord \in WordEntries /\ ~NoWord.valid
    /\ \A word \in WordEntries : word.valid \in BOOLEAN
    /\ \A word \in WordEntries :
          word.valid => /\ word.content \in Contents /\ word.time \in PageTimes
                        /\ word.age \in Nat /\ word.time \in Nat
                        /\ word \in [valid : {TRUE}, content : Contents, time : PageTimes, age : Nat]
<1>1. NoWord \in WordEntries
  BY DEF WordEntries
<1>2. ~NoWord.valid /\ NoWord.valid \in BOOLEAN
  BY DEF NoWord
<1>3. ASSUME NEW word \in [valid : {TRUE}, content : Contents, time : PageTimes, age : Nat]
      PROVE  /\ word.valid = TRUE /\ word.content \in Contents /\ word.time \in PageTimes
             /\ word.age \in Nat /\ word.time \in Nat
  BY TimesAssumption
<1>4. ASSUME NEW word \in WordEntries
      PROVE  \/ word \in [valid : {TRUE}, content : Contents, time : PageTimes, age : Nat]
             \/ word = NoWord
  BY DEF WordEntries
<1>5. \A word \in WordEntries : word.valid \in BOOLEAN
  BY <1>2, <1>3, <1>4
<1>6. ASSUME NEW word \in WordEntries, word.valid
      PROVE  /\ word.content \in Contents /\ word.time \in PageTimes
             /\ word.age \in Nat /\ word.time \in Nat
             /\ word \in [valid : {TRUE}, content : Contents, time : PageTimes, age : Nat]
  BY <1>2, <1>3, <1>4, <1>6
<1> QED
  BY <1>1, <1>2, <1>5, <1>6

(* As the input goes on, candidates stay good.                             *)
LEMMA GoodLater ==
    ASSUME NEW c \in Candidates, NEW e, NEW n \in Nat, NEW m \in Nat, n <= m,
           GoodCandidate(c, e, n)
    PROVE  GoodCandidate(c, e, m)
<1>1. ASSUME NEW w \in Words PROVE GoodWord(c.words[w], e, m)
  <2>1. c.words[w] \in WordEntries
    BY DEF Candidates
  <2>2. c.words[w].valid => c.words[w].time \in Nat
    BY <2>1, EntriesTyped
  <2> QED
    BY <2>2 DEF GoodCandidate, GoodWord
<1>2. c.last_update \in Nat
  BY TimesAssumption DEF Candidates
<1> QED
  BY <1>1, <1>2 DEF GoodCandidate

(* Cleaning up drops expired candidates and keeps the others as they are.  *)
LEMMA CleanupFrame ==
    ASSUME NEW store \in Stores, NEW t
    PROVE  /\ Cleanup(store, t) \in Stores
           /\ \A k \in Keys :
                 \/ Cleanup(store, t)[k] = store[k]
                 \/ /\ store[k] # NoCandidate /\ IsExpired(store[k], t)
                    /\ Cleanup(store, t)[k] = NoCandidate
<1>1. DOMAIN store = Keys
  BY DEF Stores
<1>2. Cleanup(store, t) = [k \in Keys |->
          IF store[k] # NoCandidate /\ IsExpired(store[k], t) THEN NoCandidate ELSE store[k]]
  BY <1>1 DEF Cleanup
<1> QED
  BY <1>2 DEF Stores

(* Cleanup leaves good candidates only.                                    *)
LEMMA CleanupGood ==
    ASSUME NEW store \in Stores, NEW t, NEW n, GoodStore(store, n)
    PROVE  GoodStore(Cleanup(store, t), n)
<1>1. ASSUME NEW p \in Prns, NEW e \in SubframeTimes
      PROVE  \/ Cleanup(store, t)[<<p, e>>] = store[<<p, e>>]
             \/ Cleanup(store, t)[<<p, e>>] = NoCandidate
  BY CleanupFrame DEF Keys
<1> QED
  BY <1>1 DEF GoodStore

(* The words of a rolling candidate are those it is copied from, aged by   *)
(* the subframes in between.                                               *)
LEMMA AgedWordsGood ==
    ASSUME NEW c \in Candidates, NEW d \in SubframeTimes, NEW e \in SubframeTimes, d < e,
           NEW n, GoodCandidate(c, d, n)
    PROVE  /\ AgedWords(c, e) \in [Words -> WordEntries]
           /\ \A w \in Words :
                 /\ GoodWord(AgedWords(c, e)[w], e, n)
                 /\ AgedWords(c, e)[w].valid = c.words[w].valid
                 /\ c.words[w].valid => /\ AgedWords(c, e)[w].content = c.words[w].content
                                        /\ AgedWords(c, e)[w].time = c.words[w].time
<1> DEFINE gap == (e - d) \div SubframeSeconds
<1>1. e \in Nat /\ d \in Nat /\ gap \in Nat /\ gap * SubframeSeconds = e - d
  <2>1. e \in Nat /\ d \in Nat
    BY SubframeTimes1 DEF SubframeTimes
  <2>2. d <= e
    BY <2>1
  <2> QED
    BY <2>1, <2>2, SubframeDistance
<1>2. c.creation = d
  BY DEF GoodCandidate
<1> HIDE DEF gap
<1>3. SubframeSeconds \in Nat \ {0}
  BY TimesAssumption
<1>4. ASSUME NEW w \in Words
      PROVE  LET word == AgedWords(c, e)[w] IN
             /\ word \in WordEntries /\ GoodWord(word, e, n)
             /\ word.valid = c.words[w].valid
             /\ c.words[w].valid => word.content = c.words[w].content /\ word.time = c.words[w].time
  <2> DEFINE old == c.words[w]
  <2>1. old \in WordEntries /\ GoodWord(old, d, n)
    BY DEF Candidates, GoodCandidate
  <2>2. AgedWords(c, e)[w] = IF old.valid THEN [old EXCEPT !.age = old.age + gap] ELSE NoWord
    BY <1>2 DEF AgedWords, gap
  <2> HIDE DEF old
  <2>3. CASE old.valid
    <3>1. /\ old \in [valid : {TRUE}, content : Contents, time : PageTimes, age : Nat]
          /\ old.age \in Nat /\ old.time \in PageTimes
      BY <2>1, <2>3, EntriesTyped
    <3> DEFINE word == [old EXCEPT !.age = old.age + gap]
    <3>2. old.age + gap \in Nat
      BY <1>1, <3>1
    <3>3. /\ word \in [valid : {TRUE}, content : Contents, time : PageTimes, age : Nat]
          /\ word.valid = old.valid /\ word.content = old.content /\ word.time = old.time
          /\ word.age = old.age + gap
      BY <3>1, <3>2
    <3> HIDE DEF word
    <3>4. SubframeTime(old.time) \in Nat
      BY <3>1, SubframeTimes1
    <3>5. old.age * SubframeSeconds = d - SubframeTime(old.time) /\ old.time <= n
      BY <2>1, <2>3 DEF GoodWord
    <3>6. (old.age + gap) * SubframeSeconds = old.age * SubframeSeconds + gap * SubframeSeconds
      BY <1>1, <1>3, <3>1, SMT
    <3>7. (old.age + gap) * SubframeSeconds = e - SubframeTime(old.time)
      BY <1>1, <3>4, <3>5, <3>6
    <3>8. GoodWord(word, e, n)
      BY <3>3, <3>5, <3>7 DEF GoodWord
    <3>9. word \in WordEntries
      BY <3>3 DEF WordEntries
    <3>10. AgedWords(c, e)[w] = word
      BY <2>2, <2>3 DEF word
    <3> QED
      BY <3>3, <3>8, <3>9, <3>10 DEF old
  <2>4. CASE ~old.valid
    <3>1. AgedWords(c, e)[w] = NoWord
      BY <2>2, <2>4
    <3>2. old.valid = FALSE /\ NoWord.valid = FALSE
      BY <2>1, <2>4, EntriesTyped
    <3> QED
      BY <3>1, <3>2, EntriesTyped DEF GoodWord, old
  <2> QED
    BY <2>3, <2>4
<1>5. AgedWords(c, e) \in [Words -> WordEntries]
  <2>1. AgedWords(c, e) = [w \in Words |-> AgedWords(c, e)[w]]
    BY DEF AgedWords
  <2> QED
    BY <1>4, <2>1
<1> QED
  BY <1>4, <1>5

(* c has the words of q, and knows as much about their completion.         *)
Copied(c, q) ==
    /\ c.ced_complete = q.ced_complete
    /\ \A w \in Words :
          /\ c.words[w].valid = q.words[w].valid
          /\ q.words[w].valid => /\ c.words[w].content = q.words[w].content
                                 /\ c.words[w].time = q.words[w].time

(* A candidate that is copied has the same CED data.                       *)
LEMMA CopiedCed ==
    ASSUME NEW c, NEW q, Copied(c, q)
    PROVE  /\ HasCedData(c) = HasCedData(q)
           /\ HasCedData(q) => SameCed(c, q)
  BY WordSets DEF Copied, HasCedData, SameCed

(* A candidate that is not copied has no words.                            *)
LEMMA EmptyCandidate ==
    ASSUME NEW t \in PageTimes, NEW n \in Nat, t <= n
    PROVE  LET e == SubframeTime(t)
               c == [creation |-> e, last_update |-> t, ced_complete |-> NoTime,
                     words |-> [w \in Words |-> NoWord]]
           IN  /\ c \in Candidates /\ GoodCandidate(c, e, n)
               /\ \A w \in Words : ~c.words[w].valid
<1> DEFINE e == SubframeTime(t)
<1> DEFINE c == [creation |-> e, last_update |-> t, ced_complete |-> NoTime,
                 words |-> [w \in Words |-> NoWord]]
<1>1. e \in SubframeTimes /\ e = SubframeTime(t)
  BY SubframeTimes1
<1> HIDE DEF e
<1>2. c \in Candidates
  BY <1>1, EntriesTyped DEF Candidates
<1>3. /\ c.creation = e /\ c.last_update = t
      /\ \A w \in Words : c.words[w] = NoWord
  OBVIOUS
<1> HIDE DEF c
<1>4. \A w \in Words : ~c.words[w].valid
  BY <1>3, EntriesTyped
<1>5. ~HasCedData(c)
  BY <1>4, WordSets DEF HasCedData
<1>6. GoodCandidate(c, e, n)
  BY <1>1, <1>3, <1>4, <1>5 DEF GoodCandidate, GoodWord
<1> QED
  BY <1>2, <1>4, <1>6 DEF c, e

(* A candidate copied from an earlier subframe.                            *)
LEMMA CopyGood ==
    ASSUME NEW q \in Candidates, NEW d \in SubframeTimes, NEW t \in PageTimes, NEW n \in Nat,
           d < SubframeTime(t), t <= n, GoodCandidate(q, d, n)
    PROVE  LET e == SubframeTime(t)
               c == [q EXCEPT !.creation = e, !.last_update = t, !.words = AgedWords(q, e)]
           IN  c \in Candidates /\ GoodCandidate(c, e, n) /\ Copied(c, q)
<1> DEFINE e == SubframeTime(t)
<1> DEFINE words == AgedWords(q, e)
<1> DEFINE c == [q EXCEPT !.creation = e, !.last_update = t, !.words = words]
<1>1. e \in SubframeTimes /\ e = SubframeTime(t) /\ d < e
  BY SubframeTimes1
<1> HIDE DEF e
<1>2. /\ words \in [Words -> WordEntries]
      /\ \A w \in Words :
            /\ GoodWord(words[w], e, n)
            /\ words[w].valid = q.words[w].valid
            /\ q.words[w].valid => /\ words[w].content = q.words[w].content
                                   /\ words[w].time = q.words[w].time
  BY <1>1, AgedWordsGood
<1> HIDE DEF words
<1>3. /\ c \in Candidates
      /\ c.creation = e /\ c.last_update = t /\ c.words = words
      /\ c.ced_complete = q.ced_complete
  BY <1>1, <1>2 DEF Candidates
<1> HIDE DEF c
<1>4. Copied(c, q)
  BY <1>2, <1>3 DEF Copied
<1>5. HasCedData(c) => c.ced_complete # NoTime
  BY <1>3, <1>4, CopiedCed DEF GoodCandidate
<1>6. GoodCandidate(c, e, n)
  BY <1>1, <1>2, <1>3, <1>5 DEF GoodCandidate
<1> QED
  BY <1>3, <1>4, <1>6 DEF c, words, e

(* The newest of the earlier candidates.                                   *)
LEMMA NewestEarlier ==
    ASSUME NEW store, NEW p, NEW e \in SubframeTimes, Earlier(store, p, e) # {}
    PROVE  /\ Max(Earlier(store, p, e)) \in Earlier(store, p, e)
           /\ \A d \in Earlier(store, p, e) : d <= Max(Earlier(store, p, e))
<1>1. SubframeTimes \subseteq Nat
  BY SubframeTimes1 DEF SubframeTimes
<1> DEFINE S == Earlier(store, p, e)
<1>2. \A d \in S : d \in SubframeTimes /\ d < e
  BY DEF Earlier
<1>3. e \in Nat /\ S # {}
  BY <1>1
<1> HIDE DEF S
<1>4. S \in SUBSET Nat /\ \A d \in S : d <= e
  <2>1. ASSUME NEW d \in S PROVE d \in Nat /\ d <= e
    <3>1. d \in Nat /\ d < e
      BY <1>1, <1>2
    <3> QED
      BY <1>3, <3>1
  <2> QED
    BY <2>1
<1>5. Max(S) \in S /\ \A d \in S : d <= Max(S)
  BY <1>3, <1>4, MaxOfBounded
<1> QED
  BY <1>5 DEF S

(* The candidate a page goes into.                                         *)
LEMMA CandidateForGood ==
    ASSUME NEW store \in Stores, NEW n \in Nat, GoodStore(store, n),
           NEW p \in Prns, NEW t \in PageTimes, t <= n
    PROVE  LET e == SubframeTime(t)
               c == CandidateFor(store, p, t)
           IN  /\ c \in Candidates /\ GoodCandidate(c, e, n)
               /\ \/ store[<<p, e>>] # NoCandidate /\ c = store[<<p, e>>]
                  \/ /\ store[<<p, e>>] = NoCandidate
                     /\ Earlier(store, p, e) = {} /\ \A w \in Words : ~c.words[w].valid
                  \/ /\ store[<<p, e>>] = NoCandidate /\ Earlier(store, p, e) # {}
                     /\ Copied(c, store[<<p, Max(Earlier(store, p, e))>>])
<1> DEFINE e == SubframeTime(t)
<1> DEFINE c == CandidateFor(store, p, t)
<1>1. e \in SubframeTimes /\ e = SubframeTime(t) /\ <<p, e>> \in Keys
  BY SubframeTimes1 DEF Keys
<1>2. CASE store[<<p, e>>] # NoCandidate
  <2>1. c = store[<<p, e>>]
    BY <1>2 DEF CandidateFor
  <2>2. c \in Candidates
    BY <1>1, <1>2, <2>1 DEF Stores
  <2>3. GoodCandidate(c, e, n)
    BY <1>1, <1>2, <2>1 DEF GoodStore
  <2> QED
    BY <1>2, <2>1, <2>2, <2>3
<1>3. CASE store[<<p, e>>] = NoCandidate /\ Earlier(store, p, e) = {}
  <2>1. c = [creation |-> e, last_update |-> t, ced_complete |-> NoTime,
             words |-> [w \in Words |-> NoWord]]
    BY <1>3 DEF CandidateFor, RollingCandidate
  <2>2. c \in Candidates /\ GoodCandidate(c, e, n) /\ \A w \in Words : ~c.words[w].valid
    BY <2>1, EmptyCandidate
  <2> QED
    BY <1>3, <2>2
<1>4. CASE store[<<p, e>>] = NoCandidate /\ Earlier(store, p, e) # {}
  <2> DEFINE d == Max(Earlier(store, p, e))
  <2> DEFINE q == store[<<p, d>>]
  <2>1. d \in Earlier(store, p, e)
    BY <1>1, <1>4, NewestEarlier
  <2>2. c = [q EXCEPT !.creation = e, !.last_update = t, !.words = AgedWords(q, e)]
    BY <1>4 DEF CandidateFor, RollingCandidate, NewestBefore
  <2> HIDE DEF d
  <2>3. d \in SubframeTimes /\ d < e /\ q # NoCandidate /\ <<p, d>> \in Keys
    BY <2>1 DEF Earlier, Keys
  <2>4. q \in Candidates /\ GoodCandidate(q, d, n)
    BY <2>3 DEF Stores, GoodStore
  <2>5. c \in Candidates /\ GoodCandidate(c, e, n) /\ Copied(c, q)
    <3> DEFINE x == [q EXCEPT !.creation = e, !.last_update = t, !.words = AgedWords(q, e)]
    <3> HIDE DEF q
    <3>1. x \in Candidates /\ GoodCandidate(x, e, n) /\ Copied(x, q)
      BY <2>3, <2>4, CopyGood
    <3> HIDE DEF x, c
    <3>2. c = x
      BY <2>2 DEF x
    <3> QED
      BY <3>1, <3>2
  <2> QED
    BY <1>4, <2>5 DEF d
<1> QED
  BY <1>2, <1>3, <1>4

(* A candidate with a new word in it: complete since that word came, or    *)
(* since before when the word says nothing new.                            *)
LEMMA WithWordGood ==
    ASSUME NEW c \in Candidates, NEW w \in Words, NEW content \in Contents,
           NEW t \in PageTimes, NEW n \in Nat, t <= n, GoodCandidate(c, SubframeTime(t), n)
    PROVE  LET d == WithWord(c, w, content, t)
               same == c.words[w].valid /\ c.words[w].content = content
           IN  /\ d \in Candidates /\ GoodCandidate(d, SubframeTime(t), n)
               /\ d.last_update = t
               /\ d.words = [c.words EXCEPT ![w] =
                               [valid |-> TRUE, content |-> content, time |-> t, age |-> 0]]
               /\ HasCedData(c) /\ (w \in CedWords => same) => d.ced_complete = c.ced_complete
               /\ HasCedData(d) /\ w \in CedWords /\ ~same /\ t = n => d.ced_complete = t
<1> DEFINE e == SubframeTime(t)
<1> DEFINE word == [valid |-> TRUE, content |-> content, time |-> t, age |-> 0]
<1> DEFINE words == [c.words EXCEPT ![w] = word]
<1> DEFINE stored == [c EXCEPT !.last_update = t, !.words[w] = word]
<1> DEFINE known == ChangedCompleteTime(c, w, content)
<1> DEFINE time == IF w \in CedWords THEN CompleteTime(stored, known) ELSE stored.ced_complete
<1> DEFINE d == [stored EXCEPT !.ced_complete = time]
<1> DEFINE same == c.words[w].valid /\ c.words[w].content = content
<1>1. d = WithWord(c, w, content, t)
  BY DEF WithWord
<1>2. e \in SubframeTimes /\ e \in Nat /\ t \in Nat
  BY SubframeTimes1
<1>3. word \in WordEntries /\ word.valid /\ word.time = t /\ word.age = 0
  <2>1. word \in [valid : {TRUE}, content : Contents, time : PageTimes, age : Nat]
    OBVIOUS
  <2> QED
    BY <2>1 DEF WordEntries
<1>4. GoodWord(word, e, n)
  <2>1. 0 * SubframeSeconds = 0 /\ e - e = 0
    BY <1>2, TimesAssumption
  <2> QED
    BY <1>3, <2>1 DEF GoodWord
<1> HIDE DEF word
<1>5. c.words \in [Words -> WordEntries] /\ c.creation = e /\ \A v \in Words : GoodWord(c.words[v], e, n)
  BY DEF Candidates, GoodCandidate
<1>6. /\ words \in [Words -> WordEntries] /\ words[w] = word
      /\ \A v \in Words : v # w => words[v] = c.words[v]
  BY <1>3, <1>5
<1>7. \A v \in Words : GoodWord(words[v], e, n)
  BY <1>4, <1>5, <1>6
<1>8. /\ stored \in Candidates /\ stored.words = words /\ stored.creation = e
      /\ stored.last_update = t /\ stored.ced_complete = c.ced_complete
  <2>1. stored.words = words
    BY DEF Candidates
  <2>2. /\ stored.creation = e /\ stored.last_update = t /\ stored.ced_complete = c.ced_complete
    BY <1>5 DEF Candidates
  <2>3. stored \in Candidates
    BY <1>6 DEF Candidates
  <2> QED
    BY <2>1, <2>2, <2>3
<1> HIDE DEF words, stored
<1>9. HasCedData(c) \in BOOLEAN /\ HasCedData(c) => c.ced_complete # NoTime
  BY DEF GoodCandidate
<1> DEFINE times == {stored.words[v].time : v \in CedWords}
<1>10. ASSUME HasCedData(stored)
       PROVE  /\ Max(times) \in PageTimes /\ Max(times) # NoTime
              /\ w \in CedWords /\ t = n => Max(times) = t
  <2>1. ASSUME NEW v \in CedWords
        PROVE  /\ stored.words[v].time \in PageTimes /\ stored.words[v].time \in Nat
               /\ stored.words[v].time <= n
    <3>1. v \in Words /\ words[v].valid
      BY <1>8, <1>10, WordSets DEF HasCedData
    <3>2. words[v] \in WordEntries /\ GoodWord(words[v], e, n)
      BY <1>6, <1>7, <3>1
    <3> QED
      BY <1>8, <3>1, <3>2, EntriesTyped DEF GoodWord
  <2>2. times \in SUBSET Nat /\ times # {} /\ \A x \in times : x <= n /\ x \in PageTimes
    BY <2>1, WordSets
  <2>3. w \in CedWords => t \in times
    BY <1>3, <1>6, <1>8
  <2> HIDE DEF times
  <2>4. Max(times) \in times
    BY <2>2, MaxOfBounded
  <2>5. w \in CedWords /\ t = n => Max(times) = t
    <3> SUFFICES ASSUME w \in CedWords, t = n PROVE Max(times) = t
      OBVIOUS
    <3>1. t \in times /\ times \in SUBSET Int /\ \A x \in times : x <= t
      BY <2>2, <2>3
    <3> QED
      BY <3>1, MaxIs
  <2>6. Max(times) \in PageTimes /\ Max(times) \in Nat
    BY <2>2, <2>4
  <2>7. Max(times) # NoTime
    BY <2>6 DEF NoTime
  <2> QED
    BY <2>5, <2>6, <2>7
<1>11. known = IF w \in CedWords /\ ~same THEN NoTime ELSE c.ced_complete
  BY DEF ChangedCompleteTime
<1>12. CompleteTime(stored, known) =
         IF ~HasCedData(stored) THEN NoTime ELSE IF known # NoTime THEN known ELSE Max(times)
  BY DEF CompleteTime
<1> HIDE DEF known, times, same
<1>13. c.ced_complete \in PageTimes \cup {NoTime}
  BY DEF Candidates
<1>14. time \in PageTimes \cup {NoTime}
  BY <1>8, <1>10, <1>11, <1>12, <1>13
<1>15. w \notin CedWords => (HasCedData(stored) <=> HasCedData(c)) /\ time = c.ced_complete
  <2>1. ASSUME w \notin CedWords, NEW v \in CedWords PROVE stored.words[v] = c.words[v]
    BY <1>6, <1>8, <2>1, WordSets
  <2> QED
    BY <1>8, <2>1 DEF HasCedData
<1>16. HasCedData(stored) => time # NoTime
  BY <1>9, <1>10, <1>12, <1>15
<1>17. HasCedData(c) => HasCedData(stored)
  <2>1. ASSUME HasCedData(c), NEW v \in CedWords PROVE stored.words[v].valid
    BY <1>3, <1>6, <1>8, <2>1, WordSets DEF HasCedData
  <2> QED
    BY <2>1 DEF HasCedData
<1>18. HasCedData(c) /\ (w \in CedWords => same) => time = c.ced_complete
  BY <1>9, <1>11, <1>12, <1>15, <1>17
<1>19. HasCedData(stored) /\ w \in CedWords /\ ~same /\ t = n => time = t
  BY <1>10, <1>11, <1>12
<1> HIDE DEF time
<1>20. /\ d \in Candidates /\ d.words = words /\ d.creation = e
       /\ d.last_update = t /\ d.ced_complete = time
  BY <1>8, <1>14 DEF Candidates
<1> HIDE DEF d
<1>21. HasCedData(d) = HasCedData(stored)
  BY <1>8, <1>20 DEF HasCedData
<1>22. GoodCandidate(d, e, n)
  BY <1>7, <1>16, <1>20, <1>21 DEF GoodCandidate
<1> QED
  BY <1>1, <1>18, <1>19, <1>20, <1>21, <1>22 DEF words, word, same

-----------------------------------------------------------------------------
(* A page of an earlier subframe comes no later than the first second of   *)
(* a subframe, whatever the timing mode.                                   *)
LEMMA BeforeSubframe ==
    ASSUME NEW t \in PageTimes, NEW e \in SubframeTimes, SubframeTime(t) < e
    PROVE  t <= e
<1> DEFINE x == t - ModeShift
<1>1. /\ t \in Nat /\ x \in Int /\ t <= x + 1 /\ SubframeSeconds \in Nat \ {0}
  BY TimesAssumption
<1>2. PICK b \in Nat : e = b * SubframeSeconds /\ e \in Nat
  BY SubframeTimes1 DEF SubframeTimes
<1> DEFINE a == x \div SubframeSeconds
<1>3. SubframeTime(t) = a * SubframeSeconds
  BY DEF SubframeTime
<1> HIDE DEF x
<1>4. a \in Int /\ a * SubframeSeconds \in Int /\ x < a * SubframeSeconds + SubframeSeconds
  BY <1>1, DivisionBounds
<1> HIDE DEF a
<1>5. a < b
  <2>1. CASE b <= a
    BY <1>1, <1>2, <1>3, <1>4, <2>1, MultiplesGrow
  <2> QED
    BY <1>2, <1>4, <2>1
<1>6. (a + 1) * SubframeSeconds <= b * SubframeSeconds
  BY <1>1, <1>2, <1>4, <1>5, MultiplesGrow
<1>7. (a + 1) * SubframeSeconds = a * SubframeSeconds + SubframeSeconds
  BY <1>1, <1>4, SMT
<1> QED
  BY <1>1, <1>2, <1>4, <1>6, <1>7

(* What expires was created longer ago than the lesser timeout.            *)
LEMMA ExpiredIsOld ==
    ASSUME NEW c \in Candidates, NEW e \in SubframeTimes, NEW n, NEW u \in Int,
           GoodCandidate(c, e, n), IsExpired(c, u)
    PROVE  u - e > PartialTimeout
<1>1. /\ c.creation = e /\ c.last_update \in PageTimes /\ SubframeTime(c.last_update) = e
  BY DEF GoodCandidate, Candidates
<1>2. c.last_update \in Nat /\ e \in Nat /\ e <= c.last_update
  BY <1>1, SubframeTimes1
<1>3. u - e > CompleteLifetime \/ u - c.last_update > PartialTimeout
  BY <1>1 DEF IsExpired
<1>4. /\ PartialTimeout \in Nat /\ CompleteLifetime \in Nat
      /\ PartialTimeout <= CompleteLifetime
  BY TimesAssumption
<1> QED
  BY <1>2, <1>3, <1>4

StoredIn(store, p) == {e \in SubframeTimes : store[<<p, e>>] # NoCandidate}

(* The candidates of a satellite are good, and there is a newest one.      *)
LEMMA StoredBounds ==
    ASSUME NEW store \in Stores, NEW n \in Nat, GoodStore(store, n), NEW p \in Prns
    PROVE  /\ StoredIn(store, p) \in SUBSET Nat
           /\ \A e \in StoredIn(store, p) :
                 /\ e \in SubframeTimes /\ <<p, e>> \in Keys
                 /\ store[<<p, e>>] \in Candidates /\ GoodCandidate(store[<<p, e>>], e, n)
                 /\ e <= n /\ \A t \in PageTimes : n <= t => e <= SubframeTime(t)
           /\ StoredIn(store, p) # {} =>
                 /\ Max(StoredIn(store, p)) \in StoredIn(store, p)
                 /\ \A e \in StoredIn(store, p) : e <= Max(StoredIn(store, p))
<1> DEFINE S == StoredIn(store, p)
<1>1. ASSUME NEW e \in S
      PROVE  /\ e \in SubframeTimes /\ <<p, e>> \in Keys
             /\ store[<<p, e>>] \in Candidates /\ GoodCandidate(store[<<p, e>>], e, n)
             /\ e \in Nat /\ e <= n /\ \A t \in PageTimes : n <= t => e <= SubframeTime(t)
  <2>1. e \in SubframeTimes /\ store[<<p, e>>] # NoCandidate /\ <<p, e>> \in Keys
    BY <1>1 DEF StoredIn, Keys
  <2> DEFINE c == store[<<p, e>>]
  <2>2. c \in Candidates /\ GoodCandidate(c, e, n)
    BY <2>1 DEF Stores, GoodStore
  <2> HIDE DEF c
  <2>3. c.last_update \in PageTimes /\ SubframeTime(c.last_update) = e /\ c.last_update <= n
    BY <2>2 DEF Candidates, GoodCandidate
  <2>4. c.last_update \in Nat /\ e \in Nat /\ e <= c.last_update
    BY <2>3, SubframeTimes1
  <2>5. ASSUME NEW t \in PageTimes, n <= t
        PROVE  e <= SubframeTime(t)
    <3>1. t \in Nat /\ c.last_update <= t
      BY <2>3, <2>4, <2>5, SubframeTimes1
    <3> QED
      BY <2>3, <3>1, SubframesGrow
  <2>6. e <= n
    BY <2>3, <2>4
  <2> QED
    BY <2>1, <2>2, <2>4, <2>5, <2>6 DEF c
<1> HIDE DEF S
<1>2. S \in SUBSET Nat
  BY <1>1
<1>3. S # {} => Max(S) \in S /\ \A e \in S : e <= Max(S)
  BY <1>1, <1>2, MaxOfBounded
<1> QED
  BY <1>1, <1>2, <1>3 DEF S

(* NoStaleWord, of one satellite in any store.                             *)
Fresh(store, heard, n, p) ==
    StoredIn(store, p) # {} =>
        \A w \in Words :
            LET word == store[<<p, Max(StoredIn(store, p))>>].words[w] IN
            word.valid => \/ word.content = heard[<<p, w>>].content
                          \/ n - word.time > PartialTimeout

(* NoStaleWord in the terms of the lemmas below.                           *)
LEMMA NoStaleWordIsFresh ==
    NoStaleWord <=> (late_pages = 0 => \A p \in Prns : Fresh(candidates, latest, newest, p))
<1>1. \A p : StoredIn(candidates, p) = Stored(p)
  BY DEF Stored, StoredIn
<1> QED
  BY <1>1 DEF NoStaleWord, Fresh

(* When the newest candidate expires, the one before it is left, and all   *)
(* its words are older than the timeout.                                   *)
LEMMA CleanupFresh ==
    ASSUME NEW store \in Stores, NEW n \in Nat, NEW m \in Nat, n <= m, GoodStore(store, n),
           NEW u \in Int, u <= m, NEW p \in Prns, NEW heard, Fresh(store, heard, n, p)
    PROVE  Fresh(Cleanup(store, u), heard, m, p)
<1> DEFINE clean == Cleanup(store, u)
<1> DEFINE S == StoredIn(store, p)
<1> DEFINE T == StoredIn(clean, p)
<1>1. /\ clean \in Stores /\ GoodStore(clean, n)
      /\ \A k \in Keys : \/ clean[k] = store[k]
                         \/ store[k] # NoCandidate /\ IsExpired(store[k], u) /\ clean[k] = NoCandidate
  BY CleanupFrame, CleanupGood
<1> HIDE DEF clean
<1> SUFFICES ASSUME T # {}, NEW w \in Words,
                    clean[<<p, Max(T)>>].words[w].valid
             PROVE  \/ clean[<<p, Max(T)>>].words[w].content = heard[<<p, w>>].content
                    \/ m - clean[<<p, Max(T)>>].words[w].time > PartialTimeout
  BY DEF Fresh, clean
<1> DEFINE f == Max(T)
<1> DEFINE word == clean[<<p, f>>].words[w]
<1>2. /\ f \in T /\ f \in SubframeTimes /\ <<p, f>> \in Keys /\ f \in Nat
      /\ clean[<<p, f>>] \in Candidates /\ GoodCandidate(clean[<<p, f>>], f, n)
      /\ \A e \in T : e <= f
  BY <1>1, StoredBounds
<1> HIDE DEF f
<1>3. clean[<<p, f>>] = store[<<p, f>>] /\ f \in S
  <2>1. clean[<<p, f>>] # NoCandidate
    BY <1>2 DEF StoredIn
  <2> QED
    BY <1>1, <1>2, <2>1 DEF StoredIn
<1>4. /\ Max(S) \in S /\ f <= Max(S) /\ Max(S) \in Nat /\ Max(S) \in SubframeTimes
      /\ <<p, Max(S)>> \in Keys
      /\ store[<<p, Max(S)>>] \in Candidates /\ GoodCandidate(store[<<p, Max(S)>>], Max(S), n)
  BY <1>3, StoredBounds
<1>5. /\ word.valid /\ word.time \in PageTimes /\ word.time \in Nat /\ word.age \in Nat
      /\ word.age * SubframeSeconds = f - SubframeTime(word.time)
  <2>1. word.valid
    BY DEF f
  <2>2. word \in WordEntries /\ GoodWord(word, f, n)
    BY <1>2 DEF Candidates, GoodCandidate
  <2> HIDE DEF word
  <2> QED
    BY <2>1, <2>2, EntriesTyped DEF GoodWord
<1>6. CASE f = Max(S)
  <2>1. word = store[<<p, Max(S)>>].words[w]
    BY <1>3, <1>6
  <2>2. word.content = heard[<<p, w>>].content \/ n - word.time > PartialTimeout
    BY <1>4, <1>5, <2>1 DEF Fresh
  <2> HIDE DEF word
  <2>3. word.content = heard[<<p, w>>].content \/ m - word.time > PartialTimeout
    BY <1>5, <2>2, TimesAssumption
  <2> QED
    BY <2>3 DEF word, f
<1>7. CASE f < Max(S)
  <2>1. Max(S) \notin T
    BY <1>2, <1>4, <1>7
  <2>2. clean[<<p, Max(S)>>] = NoCandidate /\ store[<<p, Max(S)>>] # NoCandidate
    BY <1>4, <2>1 DEF StoredIn
  <2>3. IsExpired(store[<<p, Max(S)>>], u)
    BY <1>1, <1>4, <2>2
  <2>4. u - Max(S) > PartialTimeout
    BY <1>4, <2>3, ExpiredIsOld
  <2> DEFINE time == word.time
  <2>5. /\ time \in PageTimes /\ time \in Nat /\ SubframeTime(time) \in Nat
        /\ word.age * SubframeSeconds = f - SubframeTime(time)
    BY <1>5, SubframeTimes1
  <2>6. SubframeTime(time) <= f
    <3>1. word.age * SubframeSeconds \in Nat
      BY <1>5, TimesAssumption, SMT
    <3> HIDE DEF time, word
    <3> QED
      BY <1>2, <2>5, <3>1
  <2>7. SubframeTime(time) < Max(S)
    <3> HIDE DEF time
    <3> QED
      BY <1>2, <1>4, <1>7, <2>5, <2>6
  <2>8. time <= Max(S)
    BY <1>4, <2>5, <2>7, BeforeSubframe
  <2> HIDE DEF time
  <2>9. m - time > PartialTimeout
    BY <1>4, <2>4, <2>5, <2>8, TimesAssumption
  <2> QED
    BY <2>9 DEF time, f
<1> QED
  BY <1>2, <1>4, <1>6, <1>7

-----------------------------------------------------------------------------
(* What a page does to a store that was cleaned up.                        *)
WithPage(store, p, w, content, t) ==
    [store EXCEPT ![<<p, SubframeTime(t)>>] = WithWord(CandidateFor(store, p, t), w, content, t)]

(* Good candidates stay good as time goes on.                              *)
LEMMA GoodStoreLater ==
    ASSUME NEW store \in Stores, NEW n \in Nat, NEW m \in Nat, n <= m, GoodStore(store, n)
    PROVE  GoodStore(store, m)
<1> SUFFICES ASSUME NEW p \in Prns, NEW e \in SubframeTimes, store[<<p, e>>] # NoCandidate
             PROVE  GoodCandidate(store[<<p, e>>], e, m)
  BY DEF GoodStore
<1> DEFINE c == store[<<p, e>>]
<1>1. c \in Candidates /\ GoodCandidate(c, e, n)
  BY DEF Stores, Keys, GoodStore
<1> HIDE DEF c
<1>2. GoodCandidate(c, e, m)
  BY <1>1, GoodLater
<1> QED
  BY <1>2 DEF c

(* A page leaves all candidates good and changes that of its subframe      *)
(* alone.                                                                  *)
LEMMA WithPageGood ==
    ASSUME NEW store \in Stores, NEW n \in Nat, GoodStore(store, n), NEW p \in Prns,
           NEW w \in Words, NEW content \in Contents, NEW t \in PageTimes, t <= n
    PROVE  LET new == WithPage(store, p, w, content, t)
               key == <<p, SubframeTime(t)>>
           IN  /\ new \in Stores /\ GoodStore(new, n)
               /\ key \in Keys /\ new[key] # NoCandidate
               /\ new[key] = WithWord(CandidateFor(store, p, t), w, content, t)
               /\ \A k \in Keys : k # key => new[k] = store[k]
<1> DEFINE e == SubframeTime(t)
<1> DEFINE c == CandidateFor(store, p, t)
<1> DEFINE d == WithWord(c, w, content, t)
<1> DEFINE new == [store EXCEPT ![<<p, e>>] = d]
<1>1. e \in SubframeTimes /\ <<p, e>> \in Keys
  BY SubframeTimes1 DEF Keys
<1>2. c \in Candidates /\ GoodCandidate(c, e, n)
  BY CandidateForGood
<1> HIDE DEF c
<1>3. d \in Candidates /\ GoodCandidate(d, e, n)
  BY <1>2, WithWordGood
<1>4. d # NoCandidate
  BY <1>3, NoCandidateAssumption
<1> HIDE DEF d, e
<1>5. /\ new \in Stores /\ new[<<p, e>>] = d
      /\ \A k \in Keys : k # <<p, e>> => new[k] = store[k]
  BY <1>1, <1>3 DEF Stores
<1> HIDE DEF new
<1>6. GoodStore(new, n)
  <2> SUFFICES ASSUME NEW q \in Prns, NEW f \in SubframeTimes, new[<<q, f>>] # NoCandidate
               PROVE  GoodCandidate(new[<<q, f>>], f, n)
    BY DEF GoodStore
  <2>1. <<q, f>> \in Keys
    BY DEF Keys
  <2>2. CASE <<q, f>> = <<p, e>>
    <3>1. f = e
      BY <2>2
    <3> QED
      BY <1>3, <1>5, <2>2, <3>1
  <2>3. CASE <<q, f>> # <<p, e>>
    BY <1>5, <2>1, <2>3 DEF GoodStore
  <2> QED
    BY <2>2, <2>3
<1> QED
  BY <1>1, <1>4, <1>5, <1>6 DEF WithPage, new, d, c, e

(* A page in order goes into the newest subframe, whose candidate becomes, *)
(* or stays, the newest of the satellite.                                  *)
LEMMA WithPageNewest ==
    ASSUME NEW store \in Stores, NEW t \in PageTimes, GoodStore(store, t), NEW p \in Prns,
           NEW w \in Words, NEW content \in Contents
    PROVE  LET new == WithPage(store, p, w, content, t)
               c == CandidateFor(store, p, t)
           IN  /\ Max(StoredIn(new, p)) = SubframeTime(t)
               /\ \A q \in Prns : q # p => StoredIn(new, q) = StoredIn(store, q)
               /\ IF StoredIn(store, p) = {} THEN \A v \in Words : ~c.words[v].valid
                  ELSE LET last == store[<<p, Max(StoredIn(store, p))>>]
                       IN  c = last \/ Copied(c, last)
<1> DEFINE e == SubframeTime(t)
<1> DEFINE new == WithPage(store, p, w, content, t)
<1> DEFINE c == CandidateFor(store, p, t)
<1> DEFINE S == StoredIn(store, p)
<1>1. t \in Nat /\ e \in SubframeTimes /\ e \in Nat /\ t <= t
  BY SubframeTimes1
<1>2. /\ new \in Stores /\ GoodStore(new, t)
      /\ <<p, e>> \in Keys /\ new[<<p, e>>] # NoCandidate
      /\ \A k \in Keys : k # <<p, e>> => new[k] = store[k]
  BY <1>1, WithPageGood
<1>3. /\ c \in Candidates
      /\ \/ store[<<p, e>>] # NoCandidate /\ c = store[<<p, e>>]
         \/ /\ store[<<p, e>>] = NoCandidate
            /\ Earlier(store, p, e) = {} /\ \A v \in Words : ~c.words[v].valid
         \/ /\ store[<<p, e>>] = NoCandidate /\ Earlier(store, p, e) # {}
            /\ Copied(c, store[<<p, Max(Earlier(store, p, e))>>])
  BY <1>1, CandidateForGood
<1>4. StoredIn(new, p) \in SUBSET Nat /\ \A f \in StoredIn(new, p) : f <= e
  BY <1>1, <1>2, StoredBounds
<1>5. S \in SUBSET Nat /\ \A f \in S : f \in SubframeTimes /\ f <= e
  BY <1>1, StoredBounds
<1> HIDE DEF new, c
<1>6. Max(StoredIn(new, p)) = e
  <2>1. e \in StoredIn(new, p)
    BY <1>1, <1>2 DEF StoredIn
  <2>2. StoredIn(new, p) \in SUBSET Int
    BY <1>4
  <2> QED
    BY <1>4, <2>1, <2>2, MaxIs
<1>7. ASSUME NEW q \in Prns, q # p PROVE StoredIn(new, q) = StoredIn(store, q)
  <2>1. \A f \in SubframeTimes : <<q, f>> \in Keys /\ <<q, f>> # <<p, e>>
    BY <1>7 DEF Keys
  <2> QED
    BY <1>2, <2>1 DEF StoredIn
<1>8. CASE store[<<p, e>>] # NoCandidate
  <2>1. e \in S
    BY <1>1, <1>8 DEF StoredIn
  <2>2. Max(S) = e /\ S # {}
    <3> HIDE DEF S, e
    <3>1. S \in SUBSET Int
      BY <1>5
    <3> QED
      BY <1>5, <2>1, <3>1, MaxIs
  <2>3. c = store[<<p, Max(S)>>]
    BY <1>3, <1>8, <2>2
  <2> QED
    BY <1>6, <1>7, <2>2, <2>3 DEF new, c
<1>9. CASE store[<<p, e>>] = NoCandidate
  <2>1. S = Earlier(store, p, e)
    <3>1. ASSUME NEW f \in S PROVE f \in Earlier(store, p, e)
      <4>1. f # e /\ f <= e /\ f \in Nat /\ f \in SubframeTimes /\ store[<<p, f>>] # NoCandidate
        BY <1>5, <1>9 DEF StoredIn
      <4>2. f < e
        BY <1>1, <4>1
      <4> QED
        BY <4>1, <4>2 DEF Earlier
    <3>2. \A f \in Earlier(store, p, e) : f \in S
      BY DEF Earlier, StoredIn
    <3> QED
      BY <3>1, <3>2
  <2> QED
    BY <1>3, <1>6, <1>7, <1>9, <2>1 DEF new, c
<1> QED
  BY <1>8, <1>9

(* A page leaves no replaced word in a candidate that is still fresh.      *)
LEMMA WithPageFresh ==
    ASSUME NEW store \in Stores, NEW t \in PageTimes, GoodStore(store, t), NEW p \in Prns,
           NEW w \in Words, NEW content \in Contents,
           NEW heard \in [Prns \X Words -> Heard], NEW q \in Prns, Fresh(store, heard, t, q)
    PROVE  Fresh(WithPage(store, p, w, content, t),
                 [heard EXCEPT ![<<p, w>>] = [valid |-> TRUE, content |-> content]], t, q)
<1> DEFINE e == SubframeTime(t)
<1> DEFINE new == WithPage(store, p, w, content, t)
<1> DEFINE c == CandidateFor(store, p, t)
<1> DEFINE d == WithWord(c, w, content, t)
<1> DEFINE said == [valid |-> TRUE, content |-> content]
<1> DEFINE heard2 == [heard EXCEPT ![<<p, w>>] = said]
<1>1. t \in Nat /\ e \in SubframeTimes /\ t <= t
  BY SubframeTimes1
<1>2. /\ new[<<p, e>>] = d
      /\ \A k \in Keys : k # <<p, e>> => new[k] = store[k]
  BY <1>1, WithPageGood
<1>3. Max(StoredIn(new, p)) = e /\ (q # p => StoredIn(new, q) = StoredIn(store, q))
  BY WithPageNewest, ZenonT(30)
<1>4. IF StoredIn(store, p) = {} THEN \A v \in Words : ~c.words[v].valid
      ELSE LET last == store[<<p, Max(StoredIn(store, p))>>]
           IN  c = last \/ Copied(c, last)
  BY WithPageNewest
<1>5. c \in Candidates /\ GoodCandidate(c, e, t)
  BY <1>1, CandidateForGood
<1> HIDE DEF c
<1>6. d.words = [c.words EXCEPT ![w] =
                   [valid |-> TRUE, content |-> content, time |-> t, age |-> 0]]
  BY <1>1, <1>5, WithWordGood
<1>7. c.words \in [Words -> WordEntries]
  BY <1>5 DEF Candidates
<1>8. /\ heard2[<<p, w>>].content = content
      /\ \A r \in Prns, v \in Words : <<r, v>> # <<p, w>> => heard2[<<r, v>>] = heard[<<r, v>>]
  OBVIOUS
<1> HIDE DEF new, d, heard2
<1>9. CASE q = p
  <2> SUFFICES ASSUME NEW v \in Words, d.words[v].valid
               PROVE  \/ d.words[v].content = heard2[<<p, v>>].content
                      \/ t - d.words[v].time > PartialTimeout
    BY <1>2, <1>3, <1>9 DEF Fresh, new, heard2
  <2>1. CASE v = w
    BY <1>6, <1>7, <1>8, <2>1
  <2>2. CASE v # w
    <3>1. d.words[v] = c.words[v] /\ c.words[v].valid
      BY <1>6, <1>7, <2>2
    <3>2. heard2[<<p, v>>] = heard[<<p, v>>]
      BY <1>8, <2>2
    <3>3. StoredIn(store, p) # {}
      BY <1>4, <3>1
    <3> DEFINE last == store[<<p, Max(StoredIn(store, p))>>]
    <3>4. c = last \/ Copied(c, last)
      BY <1>4, <3>3
    <3>5. last.words[v].valid =>
             \/ last.words[v].content = heard[<<p, v>>].content
             \/ t - last.words[v].time > PartialTimeout
      BY <1>9, <3>3 DEF Fresh
    <3> HIDE DEF last
    <3>6. /\ last.words[v].valid
          /\ c.words[v].content = last.words[v].content /\ c.words[v].time = last.words[v].time
      BY <3>1, <3>4 DEF Copied
    <3> QED
      BY <3>1, <3>2, <3>5, <3>6
  <2> QED
    BY <2>1, <2>2
<1>10. CASE q # p
  <2>1. StoredIn(new, q) = StoredIn(store, q)
    BY <1>3, <1>10
  <2> SUFFICES ASSUME StoredIn(store, q) # {}, NEW v \in Words
               PROVE  LET word == new[<<q, Max(StoredIn(store, q))>>].words[v] IN
                      word.valid => \/ word.content = heard2[<<q, v>>].content
                                    \/ t - word.time > PartialTimeout
    BY <2>1 DEF Fresh, new, heard2
  <2> DEFINE f == Max(StoredIn(store, q))
  <2>2. f \in StoredIn(store, q) /\ <<q, f>> \in Keys
    BY <1>1, StoredBounds
  <2> HIDE DEF f
  <2>3. new[<<q, f>>] = store[<<q, f>>]
    BY <1>2, <1>10, <2>2
  <2>4. heard2[<<q, v>>] = heard[<<q, v>>]
    BY <1>8, <1>10
  <2>5. LET word == store[<<q, f>>].words[v] IN
        word.valid => \/ word.content = heard[<<q, v>>].content
                      \/ t - word.time > PartialTimeout
    BY DEF Fresh, f
  <2> QED
    BY <2>3, <2>4, <2>5 DEF f
<1> QED
  BY <1>9, <1>10 

-----------------------------------------------------------------------------
(* The kinds of steps: a page of a word is stored after cleaning up, there *)
(* is only a cleaning up, or the store is reset.                           *)
PageStep(p, w, content, t) ==
    /\ candidates' = WithPage(Cleanup(candidates, t), p, w, content, t)
    /\ newest' = (IF t > newest THEN t ELSE newest)
    /\ late_pages' = (IF t < newest THEN late_pages + 1 ELSE late_pages)
    /\ latest' = (IF late_pages' = 0
                  THEN [latest EXCEPT ![<<p, w>>] = [valid |-> TRUE, content |-> content]]
                  ELSE latest)

CleanupStep(u) ==
    /\ candidates' = Cleanup(candidates, u)
    /\ u <= newest'
    /\ newest' \in PageTimes \cup {0} /\ newest <= newest'
    /\ late_pages' \in Nat /\ late_pages <= late_pages'
    /\ latest' = latest

(* A step stores a page, removes old candidates or clears the store.       *)
LEMMA StepKinds ==
    ASSUME NavTypeOK, NavNext
    PROVE  \/ \E p \in Prns, w \in Words, content \in Contents, t \in PageTimes :
                 PageStep(p, w, content, t)
           \/ \E u \in Int : CleanupStep(u)
           \/ Reset
<1>1. ASSUME NEW p \in Prns, NEW payload \in Payloads, NEW t \in PageTimes,
             Receive(p, payload[1], payload[2], t)
      PROVE  \/ \E w \in Words, content \in Contents : PageStep(p, w, content, t)
             \/ \E u \in Int : CleanupStep(u)
  <2> DEFINE w == payload[1]
  <2> DEFINE content == payload[2]
  <2>1. content \in Contents
    BY WordsAssumption
  <2>2. t \in Nat /\ newest \in Nat /\ late_pages \in Nat
    BY TimesAssumption DEF NavTypeOK
  <2> HIDE DEF w, content
  <2>3. Receive(p, w, content, t)
    BY <1>1 DEF w, content
  <2>4. CASE w \in Words
    <3>1. PageStep(p, w, content, t)
      BY <2>3, <2>4 DEF Receive, FeedPage, PageStep, WithPage
    <3> QED
      BY <2>1, <2>4, <3>1
  <2>5. CASE w \notin Words
    <3>1. CleanupStep(t)
      BY <2>2, <2>3, <2>5 DEF Receive, FeedPage, CleanupStep, NavTypeOK
    <3> QED
      BY <2>2, <3>1
  <2> QED
    BY <2>4, <2>5
<1>2. ASSUME NEW t \in PageTimes, t <= newest,
             candidates' = Cleanup(candidates, SubframeTime(t)),
             UNCHANGED <<newest, latest, late_pages>>
      PROVE  CleanupStep(SubframeTime(t)) /\ SubframeTime(t) \in Int
  <2>1. t \in Nat /\ SubframeTime(t) \in Nat /\ SubframeTime(t) <= t
    BY SubframeTimes1
  <2>2. newest \in Nat /\ late_pages \in Nat
    BY TimesAssumption DEF NavTypeOK
  <2> QED
    BY <1>2, <2>1, <2>2 DEF CleanupStep, NavTypeOK
<1> QED
  BY <1>1, <1>2 DEF NavNext, ReceivePage, CleanupForSubframe

-----------------------------------------------------------------------------
(* The inductive invariant holds at first and after a reset.               *)
LEMMA InvOfEmpty ==
    ASSUME candidates = [k \in Prns \X SubframeTimes |-> NoCandidate], newest = 0,
           latest = [k \in Prns \X Words |-> NoWord], late_pages = 0
    PROVE  NavInv
<1>1. NavTypeOK
  BY DEF NavTypeOK, Stores, Keys, Heard
<1>2. \A p \in Prns, e \in SubframeTimes : candidates[<<p, e>>] = NoCandidate
  OBVIOUS
<1>3. GoodStore(candidates, newest)
  BY <1>2 DEF GoodStore
<1>4. NoStaleWord
  BY <1>2 DEF NoStaleWord, Stored
<1> QED
  BY <1>1, <1>3, <1>4 DEF NavInv

(* A page of a word keeps it.                                              *)
LEMMA InvPage ==
    ASSUME NavInv, NEW p \in Prns, NEW w \in Words, NEW content \in Contents,
           NEW t \in PageTimes, PageStep(p, w, content, t)
    PROVE  NavInv'
<1> DEFINE store == Cleanup(candidates, t)
<1> DEFINE new == WithPage(store, p, w, content, t)
<1> DEFINE n == newest'
<1> DEFINE said == [valid |-> TRUE, content |-> content]
<1>1. NavTypeOK /\ GoodStore(candidates, newest) /\ NoStaleWord
  BY DEF NavInv
<1>2. t \in Nat /\ newest \in Nat /\ late_pages \in Nat /\ PageTimes \subseteq Nat
  BY <1>1, TimesAssumption DEF NavTypeOK
<1>3. n = IF t > newest THEN t ELSE newest
  BY DEF PageStep
<1>4. n \in PageTimes \cup {0} /\ n \in Nat /\ t <= n /\ newest <= n
  BY <1>1, <1>2, <1>3 DEF NavTypeOK
<1>5. late_pages' = IF t < newest THEN late_pages + 1 ELSE late_pages
  BY DEF PageStep
<1>6. late_pages' \in Nat /\ (late_pages' = 0 => late_pages = 0 /\ n = t)
  BY <1>2, <1>3, <1>5
<1>7. candidates \in Stores /\ latest \in [Prns \X Words -> Heard]
  BY <1>1 DEF NavTypeOK
<1>8. store \in Stores /\ GoodStore(store, newest)
  BY <1>1, <1>7, CleanupFrame, CleanupGood
<1>9. candidates' = new
  BY DEF PageStep
<1>10. latest' = IF late_pages' = 0 THEN [latest EXCEPT ![<<p, w>>] = said] ELSE latest
  BY DEF PageStep
<1> HIDE DEF n
<1>11. \A q \in Prns : late_pages = 0 => Fresh(store, latest, n, q)
  <2> SUFFICES ASSUME NEW q \in Prns, late_pages = 0 PROVE Fresh(store, latest, n, q)
    OBVIOUS
  <2>1. Fresh(candidates, latest, newest, q)
    BY <1>1, NoStaleWordIsFresh
  <2>2. t \in Int /\ t <= n
    BY <1>2, <1>4
  <2> QED
    BY <1>1, <1>2, <1>4, <1>7, <2>1, <2>2, CleanupFresh
<1> HIDE DEF store
<1>12. GoodStore(store, n)
  BY <1>2, <1>4, <1>8, GoodStoreLater
<1>13. new \in Stores /\ GoodStore(new, n)
  BY <1>4, <1>8, <1>12, WithPageGood
<1>14. late_pages' = 0 => \A q \in Prns : Fresh(new, latest', n, q)
  <2> SUFFICES ASSUME late_pages' = 0, NEW q \in Prns PROVE Fresh(new, latest', n, q)
    OBVIOUS
  <2>1. n = t /\ Fresh(store, latest, t, q) /\ GoodStore(store, t)
    BY <1>6, <1>11, <1>12
  <2>2. latest' = [latest EXCEPT ![<<p, w>>] = said]
    BY <1>10
  <2>3. Fresh(new, [latest EXCEPT ![<<p, w>>] = said], t, q)
    BY <1>7, <1>8, <2>1, WithPageFresh
  <2> QED
    BY <2>1, <2>2, <2>3
<1>15. said \in Heard
  BY DEF Heard
<1> HIDE DEF said, new
<1>16. latest' \in [Prns \X Words -> Heard]
  BY <1>7, <1>10, <1>15
<1>17. NavTypeOK'
  BY <1>4, <1>6, <1>9, <1>13, <1>16 DEF NavTypeOK, n
<1>18. NoStaleWord'
  BY <1>9, <1>14 DEF NoStaleWord, Stored, Fresh, StoredIn, n
<1> QED
  BY <1>9, <1>13, <1>17, <1>18 DEF NavInv, n

(* So does cleaning up.                                                    *)
LEMMA InvCleanup ==
    ASSUME NavInv, NEW u \in Int, CleanupStep(u)
    PROVE  NavInv'
<1> DEFINE store == Cleanup(candidates, u)
<1> DEFINE n == newest'
<1>1. NavTypeOK /\ GoodStore(candidates, newest) /\ NoStaleWord /\ candidates \in Stores
  BY DEF NavInv, NavTypeOK
<1>2. newest \in Nat /\ late_pages \in Nat /\ PageTimes \subseteq Nat
  BY <1>1, TimesAssumption DEF NavTypeOK
<1>3. /\ n \in PageTimes \cup {0} /\ n \in Nat /\ newest <= n /\ u <= n
      /\ late_pages' \in Nat /\ late_pages <= late_pages'
      /\ latest' = latest /\ candidates' = store
  BY <1>2 DEF CleanupStep
<1>4. store \in Stores /\ GoodStore(store, newest)
  BY <1>1, CleanupFrame, CleanupGood
<1> HIDE DEF n
<1>5. \A q \in Prns : late_pages' = 0 => Fresh(store, latest, n, q)
  <2> SUFFICES ASSUME NEW q \in Prns, late_pages' = 0 PROVE Fresh(store, latest, n, q)
    OBVIOUS
  <2>1. late_pages = 0
    BY <1>2, <1>3
  <2>2. Fresh(candidates, latest, newest, q)
    BY <1>1, <2>1, NoStaleWordIsFresh
  <2> QED
    BY <1>1, <1>2, <1>3, <2>2, CleanupFresh
<1> HIDE DEF store
<1>6. GoodStore(store, n)
  BY <1>2, <1>3, <1>4, GoodStoreLater
<1>7. NavTypeOK'
  BY <1>1, <1>3, <1>4 DEF NavTypeOK, n
<1>8. NoStaleWord'
  BY <1>3, <1>5 DEF NoStaleWord, Stored, Fresh, StoredIn, n
<1> QED
  BY <1>3, <1>6, <1>7, <1>8 DEF NavInv, n

LEMMA InvStep ==
    ASSUME NavInv, [NavNext]_navVars
    PROVE  NavInv'
<1>1. CASE NavNext
  <2>1. NavTypeOK
    BY DEF NavInv
  <2>2. CASE Reset
    BY <2>2 DEF Reset, NavInv, NavTypeOK, Stores, Keys, Heard, GoodStore, NoStaleWord, Stored
  <2>3. CASE \E p \in Prns, w \in Words, content \in Contents, t \in PageTimes :
                 PageStep(p, w, content, t)
    BY <2>3, InvPage
  <2>4. CASE \E u \in Int : CleanupStep(u)
    BY <2>4, InvCleanup
  <2> QED
    BY <1>1, <2>1, <2>2, <2>3, <2>4, StepKinds
<1>2. CASE UNCHANGED navVars
  BY <1>2 DEF navVars, NavInv, NavTypeOK, GoodStore, NoStaleWord, Stored
<1> QED
  BY <1>1, <1>2

(* In every reachable state the store is well-typed, every candidate is    *)
(* one of its own subframe whose words have their true ages, and with      *)
(* input in order the newest one of a satellite has no replaced word, but  *)
(* for copies older than the lifetime of partial candidates.               *)
THEOREM NavInvariance == NavSpec => []NavInv
<1>1. NavInit => NavInv
  BY InvOfEmpty DEF NavInit
<1>2. NavInv /\ [NavNext]_navVars => NavInv'
  BY InvStep
<1> QED
  BY <1>1, <1>2, PTL DEF NavSpec

(* With input in order, the newest candidate of a satellite has no copy of *)
(* a word that a later page replaced, but for copies so old that the       *)
(* candidate with the replacement may have expired.                        *)
THEOREM NoReplacedWords == NavSpec => []NoStaleWord
<1>1. NavInv => NoStaleWord
  BY DEF NavInv
<1> QED
  BY <1>1, NavInvariance, PTL

(* The candidates of a satellite are good.                                 *)
LEMMA StoredGood ==
    ASSUME NavInv, NEW p \in Prns, NEW e \in Stored(p)
    PROVE  /\ candidates[<<p, e>>] \in Candidates /\ GoodCandidate(candidates[<<p, e>>], e, newest)
           /\ e \in SubframeTimes /\ e \in Nat
<1>1. e \in SubframeTimes /\ candidates[<<p, e>>] # NoCandidate
  BY DEF Stored
<1> QED
  BY <1>1, SubframeTimes1 DEF NavInv, NavTypeOK, Stores, Keys, GoodStore, SubframeTimes

(* The age of every word in the store is the number of subframes since the *)
(* page it came in, whatever was lost or late.                             *)
THEOREM TrueAges == NavSpec => []AgesAreTrue
<1>1. NavInv => AgesAreTrue
  BY StoredGood DEF GoodCandidate, GoodWord, AgesAreTrue
<1> QED
  BY <1>1, NavInvariance, PTL

(* A word whose age COP admits came in one of the last COP subframes.      *)
LEMMA AgeWithinCop ==
    ASSUME NEW e \in SubframeTimes, NEW c \in Candidates, NEW n, GoodCandidate(c, e, n),
           NEW cop \in Nat, NEW S \in SUBSET Words, \A w \in S : c.words[w].valid,
           MaxAge(c, S) + 1 <= cop, NEW v \in S
    PROVE  e - SubframeTime(c.words[v].time) \in 0 .. (cop - 1) * SubframeSeconds
<1>1. SubframeSeconds \in Nat \ {0} /\ e \in Nat
  BY SubframeTimes1, TimesAssumption DEF SubframeTimes
<1>2. ASSUME NEW w \in S
      PROVE  /\ c.words[w].age \in Nat /\ SubframeTime(c.words[w].time) \in Nat
             /\ c.words[w].age * SubframeSeconds = e - SubframeTime(c.words[w].time)
             /\ c.words[w].age <= e
  <2> DEFINE word == c.words[w]
  <2>1. word \in WordEntries /\ GoodWord(word, e, n) /\ word.valid
    BY DEF Candidates, GoodCandidate
  <2> HIDE DEF word
  <2>2. /\ word.age \in Nat /\ word.time \in PageTimes
        /\ word.age * SubframeSeconds = e - SubframeTime(word.time)
    BY <2>1, EntriesTyped DEF GoodWord
  <2>3. SubframeTime(word.time) \in Nat
    BY <2>2, SubframeTimes1
  <2>4. word.age <= word.age * SubframeSeconds
    BY <1>1, <2>2, SMT
  <2>5. word.age <= e
    BY <1>1, <2>2, <2>3, <2>4
  <2> QED
    BY <2>2, <2>3, <2>5 DEF word
<1> DEFINE ages == {c.words[w].age : w \in S}
<1>3. ages \in SUBSET Nat /\ ages # {} /\ \A a \in ages : a <= e
  BY <1>2
<1>4. MaxAge(c, S) = Max(ages)
  BY DEF MaxAge
<1> DEFINE age == c.words[v].age
<1>5. age \in ages
  OBVIOUS
<1> HIDE DEF ages
<1>6. Max(ages) \in Nat /\ age <= Max(ages)
  BY <1>1, <1>3, <1>5, MaxOfBounded
<1>7. age \in Nat /\ age <= cop - 1
  BY <1>2, <1>4, <1>6
<1>8. 0 <= age * SubframeSeconds /\ age * SubframeSeconds <= (cop - 1) * SubframeSeconds
      /\ age * SubframeSeconds \in Int /\ (cop - 1) * SubframeSeconds \in Int
  <2>1. cop - 1 \in Int /\ age \in Int
    BY <1>7
  <2> HIDE DEF age
  <2>2. 0 <= age * SubframeSeconds
    BY <1>1, <1>7, SMT
  <2> QED
    BY <1>1, <1>7, <2>1, <2>2, MultiplesGrow
<1>9. age * SubframeSeconds = e - SubframeTime(c.words[v].time)
  BY <1>2
<1> HIDE DEF age
<1> QED
  BY <1>8, <1>9

(* What FindForAdkd finds consists of words received in the last COP       *)
(* subframes up to that of the tag, WT10 of a timing pair after its WT6.   *)
THEOREM FoundIsWithinCop == NavSpec => []FoundWithinCop
<1>1. ASSUME NavInv, NEW p \in Prns, NEW e \in Stored(p), NEW cop \in 1 .. MaxCop
      PROVE  LET c == candidates[<<p, e>>]
                 InCop(w) == e - SubframeTime(c.words[w].time) \in 0 .. (cop - 1) * SubframeSeconds
             IN  /\ FindComplete(p, e, cop) => \A w \in CedWords : InCop(w)
                 /\ FindTiming(p, e, cop) =>
                       InCop(WT6) /\ InCop(WT10) /\ c.words[WT6].time <= c.words[WT10].time
  <2> DEFINE c == candidates[<<p, e>>]
  <2>1. c \in Candidates /\ GoodCandidate(c, e, newest) /\ e \in SubframeTimes
    BY <1>1, StoredGood
  <2>2. cop \in Nat
    BY TimesAssumption
  <2>3. FindComplete(p, e, cop) => HasCedData(c) /\ MaxAge(c, CedWords) + 1 <= cop
    BY DEF FindComplete
  <2>4. FindTiming(p, e, cop) => HasTimingPair(c) /\ MaxAge(c, {WT6, WT10}) + 1 <= cop
    BY DEF FindTiming
  <2> HIDE DEF c
  <2>5. ASSUME HasCedData(c), MaxAge(c, CedWords) + 1 <= cop, NEW w \in CedWords
        PROVE  e - SubframeTime(c.words[w].time) \in 0 .. (cop - 1) * SubframeSeconds
    BY <2>1, <2>2, <2>5, WordSets, AgeWithinCop DEF HasCedData
  <2>6. ASSUME HasTimingPair(c), MaxAge(c, {WT6, WT10}) + 1 <= cop
        PROVE  /\ \A w \in {WT6, WT10} :
                     e - SubframeTime(c.words[w].time) \in 0 .. (cop - 1) * SubframeSeconds
               /\ c.words[WT6].time <= c.words[WT10].time
    <3>1. /\ {WT6, WT10} \in SUBSET Words /\ WT6 \in Words /\ WT10 \in Words
          /\ c.words[WT6].valid /\ c.words[WT10].valid
          /\ c.words[WT10].time - c.words[WT6].time \in 0 .. PairMaxSpan
      BY <2>6 DEF HasTimingPair, Words
    <3> DEFINE T == {WT6, WT10}
    <3>2. \A w \in T : c.words[w].valid
      BY <3>1
    <3>3. T \in SUBSET Words /\ MaxAge(c, T) + 1 <= cop
      BY <2>6, <3>1
    <3> HIDE DEF T
    <3>4. ASSUME NEW w \in T
          PROVE  e - SubframeTime(c.words[w].time) \in 0 .. (cop - 1) * SubframeSeconds
      BY <2>1, <2>2, <3>2, <3>3, AgeWithinCop
    <3>5. c.words[WT6] \in WordEntries /\ c.words[WT10] \in WordEntries
      BY <2>1, <3>1 DEF Candidates
    <3>6. c.words[WT6].time \in Nat /\ c.words[WT10].time \in Nat
      BY <3>1, <3>5, EntriesTyped
    <3>7. c.words[WT6].time <= c.words[WT10].time
      BY <3>1, <3>6, TimesAssumption
    <3> QED
      BY <3>4, <3>7 DEF T
  <2> QED
    BY <2>3, <2>4, <2>5, <2>6 DEF c
<1>2. NavInv => FoundWithinCop
  BY <1>1 DEF FoundWithinCop
<1> QED
  BY <1>2, NavInvariance, PTL

-----------------------------------------------------------------------------
(* A candidate is dropped only when the input has come to the end of its   *)
(* lifetime, however late a page or a subframe is.                         *)
LEMMA DroppedWhenExpired ==
    ASSUME NavInv, [NavNext]_navVars, newest' # 0,
           NEW p \in Prns, NEW e \in SubframeTimes,
           candidates[<<p, e>>] # NoCandidate, candidates'[<<p, e>>] = NoCandidate
    PROVE  \/ newest' - candidates[<<p, e>>].creation > CompleteLifetime
           \/ /\ ~HasCedData(candidates[<<p, e>>])
              /\ newest' - candidates[<<p, e>>].last_update > PartialTimeout
<1> DEFINE c == candidates[<<p, e>>]
<1>1. /\ NavTypeOK /\ candidates \in Stores /\ <<p, e>> \in Keys
      /\ c \in Candidates /\ newest \in Nat /\ PageTimes \subseteq Nat
  BY TimesAssumption DEF NavInv, NavTypeOK, Stores, Keys
<1>2. c.creation \in Nat /\ c.last_update \in Nat
  BY <1>1, SubframeTimes1 DEF Candidates, SubframeTimes
<1>3. ASSUME NEW u \in Int, NEW n \in Int, u <= n, Cleanup(candidates, u)[<<p, e>>] = NoCandidate
      PROVE  \/ n - c.creation > CompleteLifetime
             \/ ~HasCedData(c) /\ n - c.last_update > PartialTimeout
  <2>1. IsExpired(c, u)
    BY <1>1, <1>3, CleanupFrame
  <2>2. \/ u - c.creation > CompleteLifetime
        \/ ~HasCedData(c) /\ u - c.last_update > PartialTimeout
    BY <2>1 DEF IsExpired
  <2> HIDE DEF c
  <2> QED
    BY <1>2, <1>3, <2>2, TimesAssumption
<1>4. CASE NavNext
  <2>1. ASSUME NEW q \in Prns, NEW w \in Words, NEW content \in Contents, NEW t \in PageTimes,
               PageStep(q, w, content, t)
        PROVE  \/ newest' - c.creation > CompleteLifetime
               \/ ~HasCedData(c) /\ newest' - c.last_update > PartialTimeout
    <3> DEFINE store == Cleanup(candidates, t)
    <3> DEFINE n == newest'
    <3>1. t \in Nat /\ n \in Nat /\ t <= n /\ newest <= n /\ t \in Int /\ n \in Int
      BY <1>1, <2>1 DEF PageStep
    <3> HIDE DEF n
    <3>2. store \in Stores /\ GoodStore(store, newest)
      BY <1>1, CleanupFrame, CleanupGood DEF NavInv
    <3>3. GoodStore(store, n)
      BY <1>1, <3>1, <3>2, GoodStoreLater
    <3> DEFINE key == <<q, SubframeTime(t)>>
    <3> HIDE DEF store
    <3> DEFINE new == WithPage(store, q, w, content, t)
    <3>4. new[key] # NoCandidate /\ \A k \in Keys : k # key => new[k] = store[k]
      BY <3>1, <3>2, <3>3, WithPageGood
    <3>5. candidates' = new
      BY <2>1 DEF PageStep, store
    <3> HIDE DEF new, key
    <3>6. store[<<p, e>>] = NoCandidate
      BY <1>1, <3>4, <3>5
    <3> QED
      BY <1>3, <3>1, <3>6 DEF store, n
  <2>2. ASSUME NEW u \in Int, CleanupStep(u)
        PROVE  \/ newest' - c.creation > CompleteLifetime
               \/ ~HasCedData(c) /\ newest' - c.last_update > PartialTimeout
    <3> DEFINE n == newest'
    <3>1. n \in Int /\ u <= n
      BY <1>1, <2>2 DEF CleanupStep
    <3>2. candidates' = Cleanup(candidates, u)
      BY <2>2 DEF CleanupStep
    <3>3. Cleanup(candidates, u)[<<p, e>>] = NoCandidate
      BY <3>2
    <3> HIDE DEF n
    <3> QED
      BY <1>3, <3>1, <3>3 DEF n
  <2>3. ~Reset
    BY DEF Reset
  <2> QED
    BY <1>1, <1>4, <2>1, <2>2, <2>3, StepKinds
<1>5. CASE UNCHANGED navVars
  BY <1>5 DEF navVars
<1> QED
  BY <1>4, <1>5

(* A candidate stays in the store until a cleanup finds it past its        *)
(* lifetime, or partial for too long: nothing else removes it but Reset.   *)
THEOREM KeptForItsLifetime == NavSpec => KeptForLifetime
<1>1. NavInv /\ [NavNext]_navVars =>
        [\A p \in Prns, e \in SubframeTimes :
          LET c == candidates[<<p, e>>] IN
          c # NoCandidate /\ candidates'[<<p, e>>] = NoCandidate /\ newest' # 0 =>
              \/ newest' - c.creation > CompleteLifetime
              \/ ~HasCedData(c) /\ newest' - c.last_update > PartialTimeout]_navVars
  BY DroppedWhenExpired
<1> QED
  BY <1>1, NavInvariance, PTL DEF NavSpec, KeptForLifetime

-----------------------------------------------------------------------------
(* A page comes within a subframe length of the name of its subframe.      *)
LEMMA WithinSubframe ==
    ASSUME NEW t \in PageTimes
    PROVE  t - SubframeTime(t) <= SubframeSeconds
<1> DEFINE x == t - ModeShift
<1>1. x \in Int /\ t \in Nat /\ t <= x + 1 /\ SubframeSeconds \in Nat \ {0}
  BY TimesAssumption
<1>2. SubframeTime(t) = (x \div SubframeSeconds) * SubframeSeconds
  BY DEF SubframeTime
<1> HIDE DEF x
<1> DEFINE e == (x \div SubframeSeconds) * SubframeSeconds
<1>3. e \in Int /\ x < e + SubframeSeconds
  BY <1>1, DivisionBounds
<1> HIDE DEF e
<1> QED
  BY <1>1, <1>2, <1>3 DEF e

(* If the newest candidate outlives a cleaning up, it stays the newest.    *)
LEMMA NewestSurvives ==
    ASSUME NEW store \in Stores, NEW n \in Nat, GoodStore(store, n), NEW u, NEW p \in Prns,
           StoredIn(store, p) # {},
           Cleanup(store, u)[<<p, Max(StoredIn(store, p))>>] # NoCandidate
    PROVE  LET clean == Cleanup(store, u)
               newestOf == Max(StoredIn(store, p))
           IN  /\ StoredIn(clean, p) # {} /\ Max(StoredIn(clean, p)) = newestOf
               /\ clean[<<p, newestOf>>] = store[<<p, newestOf>>]
<1> DEFINE clean == Cleanup(store, u)
<1> DEFINE m == Max(StoredIn(store, p))
<1>1. \A k \in Keys : clean[k] = store[k] \/ (store[k] # NoCandidate /\ clean[k] = NoCandidate)
  BY CleanupFrame
<1>2. /\ m \in StoredIn(store, p) /\ <<p, m>> \in Keys
      /\ StoredIn(store, p) \in SUBSET Nat /\ \A e \in StoredIn(store, p) : e <= m
  BY StoredBounds
<1>3. clean[<<p, m>>] # NoCandidate
  OBVIOUS
<1> HIDE DEF clean, m
<1>4. clean[<<p, m>>] = store[<<p, m>>]
  BY <1>1, <1>2, <1>3
<1>5. m \in StoredIn(clean, p)
  BY <1>2, <1>3 DEF StoredIn
<1>6. ASSUME NEW e \in StoredIn(clean, p) PROVE e \in StoredIn(store, p)
  <2>1. e \in SubframeTimes /\ clean[<<p, e>>] # NoCandidate /\ <<p, e>> \in Keys
    BY <1>6 DEF StoredIn, Keys
  <2> QED
    BY <1>1, <2>1 DEF StoredIn
<1>7. Max(StoredIn(clean, p)) = m
  <2> DEFINE S == StoredIn(clean, p)
  <2>1. S \in SUBSET Int /\ m \in S /\ \A e \in S : e <= m
    BY <1>2, <1>5, <1>6
  <2> HIDE DEF S
  <2>2. Max(S) = m
    BY <2>1, MaxIs
  <2> QED
    BY <2>2 DEF S
<1> QED
  BY <1>4, <1>5, <1>7 DEF clean, m

(* What a word does to the time of completion.                             *)
LEMMA CompleteTimeOfWord ==
    ASSUME NEW q \in Candidates, NEW c \in Candidates, c = q \/ Copied(c, q),
           NEW w \in Words, NEW content \in Contents, NEW t \in PageTimes,
           GoodCandidate(c, SubframeTime(t), t),
           HasCedData(q), HasCedData(WithWord(c, w, content, t))
    PROVE  WithWord(c, w, content, t).ced_complete =
               IF SameCed(q, WithWord(c, w, content, t)) THEN q.ced_complete
               ELSE WithWord(c, w, content, t).last_update
<1> DEFINE d == WithWord(c, w, content, t)
<1> DEFINE same == c.words[w].valid /\ c.words[w].content = content
<1>1. /\ HasCedData(c) /\ c.ced_complete = q.ced_complete
      /\ \A v \in CedWords : c.words[v].valid /\ c.words[v].content = q.words[v].content
  <2>1. CASE c = q
    BY <2>1 DEF HasCedData
  <2>2. CASE Copied(c, q)
    BY <2>2, WordSets DEF Copied, HasCedData
  <2> QED
    BY <2>1, <2>2
<1>2. t \in Nat /\ t <= t
  BY SubframeTimes1
<1>3. /\ d.last_update = t
      /\ d.words = [c.words EXCEPT ![w] =
                      [valid |-> TRUE, content |-> content, time |-> t, age |-> 0]]
      /\ HasCedData(c) /\ (w \in CedWords => same) => d.ced_complete = c.ced_complete
      /\ HasCedData(d) /\ w \in CedWords /\ ~same /\ t = t => d.ced_complete = t
  BY <1>2, WithWordGood
<1>4. c.words \in [Words -> WordEntries]
  BY DEF Candidates
<1> HIDE DEF d
<1>5. /\ d.words[w].content = content
      /\ \A v \in CedWords : v # w => d.words[v] = c.words[v]
  BY <1>3, <1>4, WordSets
<1>6. CASE w \in CedWords => same
  <2>1. \A v \in CedWords : d.words[v].content = c.words[v].content
    BY <1>5, <1>6
  <2>2. SameCed(q, d)
    BY <1>1, <2>1 DEF SameCed
  <2> QED
    BY <1>1, <1>3, <1>6, <2>2 DEF d
<1>7. CASE w \in CedWords /\ ~same
  <2>1. c.words[w].content # content
    BY <1>1, <1>7
  <2>2. ~SameCed(q, d)
    BY <1>1, <1>5, <1>7, <2>1 DEF SameCed
  <2>3. HasCedData(d)
    BY DEF d
  <2> QED
    BY <1>3, <1>7, <2>2, <2>3 DEF d
<1> QED
  BY <1>6, <1>7

(* The time of completion of the newest candidate, from one state to the   *)
(* next.                                                                   *)
LEMMA CompleteTimeStep ==
    ASSUME NavInv, [NavNext]_navVars, NEW p \in Prns, late_pages' = 0, Stored(p) # {},
           candidates'[<<p, Max(Stored(p))>>] # NoCandidate,
           HasCedData(candidates[<<p, Max(Stored(p))>>]),
           HasCedData(candidates'[<<p, Max(StoredIn(candidates', p))>>])
    PROVE  LET c == candidates[<<p, Max(Stored(p))>>]
               d == candidates'[<<p, Max(StoredIn(candidates', p))>>]
           IN  d.ced_complete = IF SameCed(c, d) THEN c.ced_complete ELSE d.last_update
<1> DEFINE m == Max(StoredIn(candidates, p))
<1> DEFINE c == candidates[<<p, m>>]
<1> DEFINE d == candidates'[<<p, Max(StoredIn(candidates', p))>>]
<1>1. Stored(p) = StoredIn(candidates, p)
  BY DEF Stored, StoredIn
<1>2. /\ NavTypeOK /\ candidates \in Stores /\ GoodStore(candidates, newest)
      /\ newest \in Nat /\ PageTimes \subseteq Nat /\ late_pages \in Nat
  BY TimesAssumption DEF NavInv, NavTypeOK
<1>3. /\ m \in StoredIn(candidates, p) /\ m \in SubframeTimes /\ <<p, m>> \in Keys
      /\ c \in Candidates /\ GoodCandidate(c, m, newest)
  BY <1>1, <1>2, StoredBounds
<1>4. SameCed(c, c)
  BY DEF SameCed
<1>5. d = c => d.ced_complete = IF SameCed(c, d) THEN c.ced_complete ELSE d.last_update
  BY <1>4
<1>6. StoredIn(candidates, p) # {} /\ candidates'[<<p, m>>] # NoCandidate
  BY <1>1
<1>7. ASSUME NEW u \in Int, CleanupStep(u)
      PROVE  d = c
  <2>1. candidates' = Cleanup(candidates, u)
    BY <1>7 DEF CleanupStep
  <2> QED
    BY <1>2, <1>6, <2>1, NewestSurvives
<1>8. ASSUME NEW q \in Prns, NEW w \in Words, NEW content \in Contents, NEW t \in PageTimes,
             PageStep(q, w, content, t)
      PROVE  d.ced_complete = IF SameCed(c, d) THEN c.ced_complete ELSE d.last_update
  <2> DEFINE store == Cleanup(candidates, t)
  <2> DEFINE e == SubframeTime(t)
  <2> DEFINE new == WithPage(store, q, w, content, t)
  <2>1. t \in Nat /\ newest <= t
    BY <1>2, <1>8 DEF PageStep
  <2>2. /\ store \in Stores /\ GoodStore(store, newest)
        /\ \A k \in Keys : \/ store[k] = candidates[k]
                           \/ IsExpired(candidates[k], t) /\ store[k] = NoCandidate
    BY <1>2, CleanupFrame, CleanupGood
  <2>3. GoodStore(store, t)
    BY <1>2, <2>1, <2>2, GoodStoreLater
  <2>4. candidates' = new
    BY <1>8 DEF PageStep
  <2>5. t <= t /\ e \in SubframeTimes /\ e \in Nat /\ t - e <= SubframeSeconds
    BY <2>1, SubframeTimes1, WithinSubframe
  <2>6. /\ new[<<q, e>>] = WithWord(CandidateFor(store, q, t), w, content, t)
        /\ \A k \in Keys : k # <<q, e>> => new[k] = store[k]
    BY <2>1, <2>2, <2>3, <2>5, WithPageGood
  <2>7. store[<<p, m>>] # NoCandidate
    <3>1. CASE <<p, m>> # <<q, e>>
      BY <1>3, <1>6, <2>4, <2>6, <3>1
    <3>2. CASE <<p, m>> = <<q, e>>
      <4>1. m = e
        BY <3>2
      <4>2. c.creation = e
        BY <1>3, <4>1 DEF GoodCandidate
      <4>3. HasCedData(c)
        BY <1>1
      <4> HIDE DEF c, e
      <4>4. ~IsExpired(c, t)
        BY <2>1, <2>5, <4>2, <4>3, TimesAssumption DEF IsExpired
      <4>5. candidates[<<p, m>>] # NoCandidate /\ ~IsExpired(candidates[<<p, m>>], t)
        BY <1>3, <4>4 DEF StoredIn, c
      <4> QED
        BY <1>3, <2>2, <4>5
    <3> QED
      BY <3>1, <3>2
  <2>8. StoredIn(store, p) # {} /\ Max(StoredIn(store, p)) = m /\ store[<<p, m>>] = c
    BY <1>2, <1>6, <2>7, NewestSurvives
  <2> HIDE DEF store
  <2>9. CASE q # p
    <3>1. StoredIn(new, p) = StoredIn(store, p)
      BY <2>2, <2>3, <2>9, WithPageNewest, ZenonT(30)
    <3>2. <<p, m>> # <<q, e>>
      BY <2>9
    <3>3. new[<<p, m>>] = c
      BY <1>3, <2>6, <2>8, <3>2
    <3>4. d = new[<<p, m>>]
      BY <2>4, <2>8, <3>1
    <3> QED
      BY <1>5, <3>3, <3>4
  <2>10. CASE q = p
    <3> DEFINE r == CandidateFor(store, p, t)
    <3>1. Max(StoredIn(new, p)) = e
      BY <2>2, <2>3, <2>10, WithPageNewest, ZenonT(30)
    <3>2. d = WithWord(r, w, content, t)
      BY <2>4, <2>6, <2>10, <3>1
    <3>3. r = c \/ Copied(r, c)
      <4>1. LET last == store[<<p, Max(StoredIn(store, p))>>] IN r = last \/ Copied(r, last)
        BY <2>2, <2>3, <2>8, WithPageNewest, ZenonT(30)
      <4> QED
        BY <2>8, <4>1
    <3>4. r \in Candidates /\ GoodCandidate(r, e, t)
      BY <2>1, <2>2, <2>3, <2>5, CandidateForGood
    <3>5. HasCedData(c) /\ HasCedData(d)
      BY <1>1
    <3> HIDE DEF r, c, d
    <3>6. HasCedData(WithWord(r, w, content, t))
      BY <3>2, <3>5
    <3>7. WithWord(r, w, content, t).ced_complete =
             IF SameCed(c, WithWord(r, w, content, t)) THEN c.ced_complete
             ELSE WithWord(r, w, content, t).last_update
      BY <1>3, <3>3, <3>4, <3>5, <3>6, CompleteTimeOfWord
    <3> QED
      BY <3>2, <3>7
  <2> QED
    BY <2>9, <2>10
<1>9. CASE NavNext
  <2>1. ~Reset
    <3>1. <<p, m>> \in Prns \X SubframeTimes
      BY <1>3 DEF Keys
    <3> QED
      BY <1>6, <3>1 DEF Reset
  <2> QED
    BY <1>1, <1>2, <1>5, <1>7, <1>8, <1>9, <2>1, StepKinds
<1>10. CASE UNCHANGED navVars
  <2>1. candidates' = candidates
    BY <1>10 DEF navVars
  <2> QED
    BY <1>1, <1>5, <2>1
<1> QED
  BY <1>9, <1>10

(* The time from which the CED is complete stays while its contents do,    *)
(* and is the time of the page that changed them otherwise.                *)
THEOREM CompleteTimeFollowsContents == NavSpec => CompleteTimeOfContents
<1>1. ASSUME NavInv, [NavNext]_navVars, NEW p \in Prns, late_pages' = 0, Stored(p) # {},
             candidates'[<<p, Max(Stored(p))>>] # NoCandidate
      PROVE  LET c == candidates[<<p, Max(Stored(p))>>]
                 d == candidates'[<<p, Max(Stored(p)')>>]
             IN  HasCedData(c) /\ HasCedData(d) =>
                     d.ced_complete = IF SameCed(c, d) THEN c.ced_complete ELSE d.last_update
  <2>1. Stored(p)' = StoredIn(candidates', p)
    BY DEF Stored, StoredIn
  <2> QED
    BY <1>1, <2>1, CompleteTimeStep
<1>2. NavInv /\ [NavNext]_navVars =>
        [\A p \in Prns :
          /\ late_pages' = 0 /\ Stored(p) # {}
          /\ candidates'[<<p, Max(Stored(p))>>] # NoCandidate
          =>
              LET c == candidates[<<p, Max(Stored(p))>>]
                  d == candidates'[<<p, Max(Stored(p)')>>]
              IN  HasCedData(c) /\ HasCedData(d) =>
                      d.ced_complete = IF SameCed(c, d) THEN c.ced_complete ELSE d.last_update
        ]_navVars
  BY <1>1
<1> QED
  BY <1>2, NavInvariance, PTL DEF NavSpec, CompleteTimeOfContents
=============================================================================

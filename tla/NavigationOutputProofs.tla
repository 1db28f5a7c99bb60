----------------------- MODULE NavigationOutputProofs -----------------------
(* Proofs about NavigationOutput, for any satellites, pages and contents,  *)
(* any meaning the contents have (Iod, EphPart, IonoPart), and any         *)
(* timeouts of the store.                                                  *)
EXTENDS NavigationOutput, NavCandidateStoreProofs, FiniteSetTheorems

-----------------------------------------------------------------------------
(* Deques of rows.                                                         *)
RowSet == [prn : Prns, kind : Kinds, state : {"Unknown", "Yes"}, rx : PageTimes, data : Data]

(* What rows of a state say of a satellite in a deque.                     *)
DataOf(deque, p, kind, state) == {deque[i].data : i \in RowsOf(deque, p, kind, state)}

(* The rows of file f, in the order of their times, none later than n.     *)
GoodDeque(deque, f, n) ==
    /\ deque \in Seq(RowSet)
    /\ \A i \in DOMAIN deque : FileOf(deque[i].kind) = f /\ deque[i].rx <= n
    /\ \A i, j \in DOMAIN deque : i < j => deque[i].rx <= deque[j].rx

(* Every authenticated row repeats an initial row.                         *)
InitialFirst(deque) ==
    \A i \in DOMAIN deque : deque[i].state = "Yes" =>
        \E j \in DOMAIN deque :
            /\ j < i /\ deque[j].state = "Unknown" /\ deque[j].prn = deque[i].prn
            /\ deque[j].kind = deque[i].kind /\ deque[j].data = deque[i].data

(* What the last initial row says is said by an initial row.               *)
LEMMA LastInitialShown ==
    ASSUME NEW deque \in Seq(RowSet), NEW p, NEW kind, LastInitial(deque, p, kind) # NoData
    PROVE  LastInitial(deque, p, kind) \in DataOf(deque, p, kind, "Unknown")
<1> DEFINE S == RowsOf(deque, p, kind, "Unknown")
<1>1. S # {} /\ LastInitial(deque, p, kind) = deque[Max(S)].data
  BY DEF LastInitial
<1>2. S \in SUBSET Nat /\ Len(deque) \in Nat /\ \A i \in S : i <= Len(deque)
  BY DEF RowsOf
<1> HIDE DEF S
<1>3. Max(S) \in S
  BY <1>1, <1>2, MaxOfBounded
<1> QED
  BY <1>1, <1>3 DEF DataOf, S

(* A row at the end of a deque.                                            *)
LEMMA AppendedRow ==
    ASSUME NEW deque \in Seq(RowSet), NEW row \in RowSet, NEW p, NEW kind, NEW state
    PROVE  LET longer == Append(deque, row)
               here == row.prn = p /\ row.kind = kind /\ row.state = state
           IN  /\ longer \in Seq(RowSet) /\ DOMAIN longer = DOMAIN deque \cup {Len(deque) + 1}
               /\ Len(deque) \in Nat /\ longer[Len(deque) + 1] = row
               /\ \A i \in DOMAIN deque : longer[i] = deque[i]
               /\ RowsOf(longer, p, kind, state) =
                      RowsOf(deque, p, kind, state) \cup IF here THEN {Len(deque) + 1} ELSE {}
               /\ DataOf(longer, p, kind, state) =
                      DataOf(deque, p, kind, state) \cup IF here THEN {row.data} ELSE {}
<1> DEFINE longer == Append(deque, row)
<1> DEFINE n == Len(deque) + 1
<1> DEFINE here == row.prn = p /\ row.kind = kind /\ row.state = state
<1>1. /\ longer \in Seq(RowSet) /\ n \in Nat /\ Len(deque) \in Nat
      /\ DOMAIN deque = 1 .. Len(deque)
      /\ DOMAIN longer = 1 .. n /\ longer[n] = row
      /\ \A i \in 1 .. Len(deque) : longer[i] = deque[i]
  OBVIOUS
<1>2. DOMAIN longer = DOMAIN deque \cup {n} /\ n \notin DOMAIN deque
  BY <1>1
<1> HIDE DEF longer, n
<1>3. RowsOf(longer, p, kind, state) = RowsOf(deque, p, kind, state) \cup IF here THEN {n} ELSE {}
  BY <1>1, <1>2 DEF RowsOf
<1>4. \A i \in RowsOf(deque, p, kind, state) : longer[i] = deque[i]
  BY <1>1 DEF RowsOf
<1> DEFINE R == RowsOf(deque, p, kind, state)
<1> DEFINE T == RowsOf(longer, p, kind, state)
<1>5. /\ T = R \cup IF here THEN {n} ELSE {}
      /\ \A i \in R : longer[i] = deque[i]
  BY <1>3, <1>4
<1> HIDE DEF R, T, here
<1>6. {longer[i].data : i \in T} =
         {deque[i].data : i \in R} \cup IF here THEN {row.data} ELSE {}
  BY <1>1, <1>5
<1> QED
  BY <1>1, <1>2, <1>3, <1>6 DEF longer, n, DataOf, R, T, here

(* Offering a row to a deque whose last rows last knows.                   *)
LEMMA OfferedRow ==
    ASSUME NEW f, NEW n \in Nat, NEW m \in Nat, n <= m, NEW deque, GoodDeque(deque, f, n),
           InitialFirst(deque), NEW row \in RowSet \cup {NoRow}, NEW last,
           row # NoRow =>
               /\ FileOf(row.kind) = f /\ row.rx = m
               /\ row.state = "Yes" => row.data \in DataOf(deque, row.prn, row.kind, "Unknown")
               /\ ~IsNews(row, last) => row.data \in DataOf(deque, row.prn, row.kind, row.state)
    PROVE  LET longer == WithRow(deque, row, last)
           IN  /\ GoodDeque(longer, f, m) /\ InitialFirst(longer)
               /\ \A p, kind, state :
                     DataOf(longer, p, kind, state) =
                         DataOf(deque, p, kind, state) \cup
                             IF row # NoRow /\ row.prn = p /\ row.kind = kind /\ row.state = state
                             THEN {row.data} ELSE {}
               /\ \A p, kind :
                     LastInitial(longer, p, kind) =
                         IF IsNews(row, last) /\ row.prn = p /\ row.kind = kind
                               /\ row.state = "Unknown"
                         THEN row.data ELSE LastInitial(deque, p, kind)
<1> DEFINE longer == WithRow(deque, row, last)
<1>1. /\ deque \in Seq(RowSet) /\ DOMAIN deque = 1 .. Len(deque) /\ Len(deque) \in Nat
      /\ \A i \in DOMAIN deque :
            FileOf(deque[i].kind) = f /\ deque[i].rx <= n /\ deque[i].rx \in Nat
      /\ \A i, j \in DOMAIN deque : i < j => deque[i].rx <= deque[j].rx
  <2>1. ASSUME NEW i \in DOMAIN deque PROVE deque[i].rx \in Nat
    <3>1. deque[i] \in RowSet
      BY DEF GoodDeque
    <3>2. deque[i].rx \in PageTimes
      BY <3>1 DEF RowSet
    <3> QED
      BY <3>2, TimesAssumption
  <2> QED
    BY <2>1 DEF GoodDeque
<1>2. CASE ~IsNews(row, last)
  <2>1. longer = deque
    BY <1>2 DEF WithRow
  <2>2. GoodDeque(deque, f, m)
    <3>1. \A i \in DOMAIN deque : deque[i].rx <= m
      BY <1>1
    <3> QED
      BY <1>1, <3>1 DEF GoodDeque
  <2>3. ASSUME NEW p, NEW kind, NEW state,
               row # NoRow /\ row.prn = p /\ row.kind = kind /\ row.state = state
        PROVE  row.data \in DataOf(deque, p, kind, state)
    BY <1>2, <2>3
  <2> QED
    BY <1>2, <2>1, <2>2, <2>3
<1>3. CASE IsNews(row, last)
  <2> DEFINE k == Len(deque) + 1
  <2>1. row # NoRow /\ row \in RowSet /\ longer = Append(deque, row)
    BY <1>3 DEF IsNews, WithRow
  <2> HIDE DEF longer
  <2>2. /\ longer \in Seq(RowSet) /\ DOMAIN longer = DOMAIN deque \cup {k}
        /\ longer[k] = row /\ \A i \in DOMAIN deque : longer[i] = deque[i]
    BY <1>1, <2>1, AppendedRow
  <2>3. ASSUME NEW p, NEW kind, NEW state
        PROVE  LET here == row.prn = p /\ row.kind = kind /\ row.state = state
               IN  /\ RowsOf(longer, p, kind, state) =
                          RowsOf(deque, p, kind, state) \cup IF here THEN {k} ELSE {}
                   /\ DataOf(longer, p, kind, state) =
                          DataOf(deque, p, kind, state) \cup IF here THEN {row.data} ELSE {}
    BY <1>1, <2>1, AppendedRow
  <2>4. k \in Nat /\ \A i \in DOMAIN deque : i \in Nat /\ i < k
    BY <1>1
  <2> HIDE DEF k
  <2>5. GoodDeque(longer, f, m)
    <3>1. \A i \in DOMAIN longer : FileOf(longer[i].kind) = f /\ longer[i].rx <= m
      BY <1>1, <2>1, <2>2
    <3>2. ASSUME NEW i \in DOMAIN longer, NEW j \in DOMAIN longer, i < j
          PROVE  longer[i].rx <= longer[j].rx
      <4>1. i \in DOMAIN deque
        BY <2>2, <2>4, <3>2
      <4>2. CASE j \in DOMAIN deque
        BY <1>1, <2>2, <3>2, <4>1, <4>2
      <4>3. CASE j = k
        BY <1>1, <2>1, <2>2, <4>1, <4>3
      <4> QED
        BY <2>2, <4>2, <4>3
    <3> QED
      BY <2>2, <3>1, <3>2 DEF GoodDeque
  <2>6. InitialFirst(longer)
    <3> SUFFICES ASSUME NEW i \in DOMAIN longer, longer[i].state = "Yes"
                 PROVE  \E j \in DOMAIN longer :
                           /\ j < i /\ longer[j].state = "Unknown" /\ longer[j].prn = longer[i].prn
                           /\ longer[j].kind = longer[i].kind /\ longer[j].data = longer[i].data
      BY DEF InitialFirst
    <3>1. CASE i \in DOMAIN deque
      <4>1. PICK j \in DOMAIN deque :
               /\ j < i /\ deque[j].state = "Unknown" /\ deque[j].prn = deque[i].prn
               /\ deque[j].kind = deque[i].kind /\ deque[j].data = deque[i].data
        BY <2>2, <3>1 DEF InitialFirst
      <4> QED
        BY <2>2, <3>1, <4>1
    <3>2. CASE i = k
      <4>1. row.data \in DataOf(deque, row.prn, row.kind, "Unknown")
        BY <2>1, <2>2, <3>2
      <4>2. PICK j \in DOMAIN deque :
               /\ deque[j].prn = row.prn /\ deque[j].kind = row.kind
               /\ deque[j].state = "Unknown" /\ deque[j].data = row.data
        BY <4>1 DEF DataOf, RowsOf
      <4> QED
        BY <2>2, <2>4, <3>2, <4>2
    <3> QED
      BY <2>2, <3>1, <3>2
  <2>7. ASSUME NEW p, NEW kind
        PROVE  LastInitial(longer, p, kind) =
                   IF row.prn = p /\ row.kind = kind /\ row.state = "Unknown"
                   THEN row.data ELSE LastInitial(deque, p, kind)
    <3> DEFINE S == RowsOf(deque, p, kind, "Unknown")
    <3> DEFINE T == RowsOf(longer, p, kind, "Unknown")
    <3>1. S \subseteq DOMAIN deque
      BY DEF RowsOf
    <3>2. T = S \cup IF row.prn = p /\ row.kind = kind /\ row.state = "Unknown" THEN {k} ELSE {}
      BY <2>3
    <3>3. LastInitial(longer, p, kind) = IF T = {} THEN NoData ELSE longer[Max(T)].data
      BY DEF LastInitial
    <3>4. LastInitial(deque, p, kind) = IF S = {} THEN NoData ELSE deque[Max(S)].data
      BY DEF LastInitial
    <3> HIDE DEF S, T
    <3>5. CASE row.prn = p /\ row.kind = kind /\ row.state = "Unknown"
      <4>1. k \in T /\ T \in SUBSET Int /\ \A i \in T : i <= k
        BY <2>4, <3>1, <3>2, <3>5
      <4>2. Max(T) = k
        BY <4>1, MaxIs
      <4> QED
        BY <2>2, <3>3, <3>5, <4>1, <4>2
    <3>6. CASE ~(row.prn = p /\ row.kind = kind /\ row.state = "Unknown")
      <4>1. T = S
        BY <3>2, <3>6
      <4>2. S # {} => Max(S) \in S
        <5>1. S \in SUBSET Nat /\ \A i \in S : i <= Len(deque)
          BY <1>1, <3>1
        <5> QED
          BY <1>1, <5>1, MaxOfBounded
      <4> QED
        BY <2>2, <3>1, <3>3, <3>4, <3>6, <4>1, <4>2
    <3> QED
      BY <3>5, <3>6
  <2>8. \A p, kind, state :
           DataOf(longer, p, kind, state) =
               DataOf(deque, p, kind, state) \cup
                   IF row # NoRow /\ row.prn = p /\ row.kind = kind /\ row.state = state
                   THEN {row.data} ELSE {}
    BY <2>1, <2>3
  <2> QED
    BY <1>3, <2>5, <2>6, <2>7, <2>8 DEF longer
<1> QED
  BY <1>2, <1>3

-----------------------------------------------------------------------------
(* Rows of one satellite in one state and of time m, one of each kind.     *)
Offers(p, state, m) ==
    {offered \in [Kinds -> RowSet \cup {NoRow}] :
        \A kind \in Kinds : offered[kind] # NoRow =>
            /\ offered[kind].prn = p /\ offered[kind].kind = kind
            /\ offered[kind].state = state /\ offered[kind].rx = m}

GoodDeques(deques, n) ==
    /\ deques \in [Files -> Seq(RowSet)]
    /\ \A f \in Files : GoodDeque(deques[f], f, n) /\ InitialFirst(deques[f])

KindData(deques, p, kind, state) == DataOf(deques[FileOf(kind)], p, kind, state)
LastOfKind(deques, p, kind) == LastInitial(deques[FileOf(kind)], p, kind)

(* What is not pushed has been said before.                                *)
LEMMA PushedRows ==
    ASSUME NEW n \in Nat, NEW m \in Nat, n <= m, GoodDeques(rows, n),
           NEW p \in Prns, NEW state \in {"Unknown", "Yes"}, NEW offered \in Offers(p, state, m),
           NEW last, Push(offered, last),
           \A kind \in Kinds : offered[kind] # NoRow =>
               /\ state = "Yes" => offered[kind].data \in KindData(rows, p, kind, "Unknown")
               /\ last[<<p, kind>>] = offered[kind].data =>
                     offered[kind].data \in KindData(rows, p, kind, state)
    PROVE  /\ GoodDeques(rows', m)
           /\ \A q \in Prns, kind \in Kinds, z \in {"Unknown", "Yes"} :
                 KindData(rows', q, kind, z) =
                     KindData(rows, q, kind, z) \cup
                         IF offered[kind] # NoRow /\ q = p /\ z = state
                         THEN {offered[kind].data} ELSE {}
           /\ \A q \in Prns, kind \in Kinds :
                 LastOfKind(rows', q, kind) =
                     IF IsNews(offered[kind], last) /\ q = p /\ state = "Unknown"
                     THEN offered[kind].data ELSE LastOfKind(rows, q, kind)
<1>1. /\ FileOf("eph") = "eph" /\ FileOf("iono") = "iono"
      /\ FileOf("utc") = "dtime" /\ FileOf("ggto") = "dtime"
      /\ "eph" \in Files /\ "iono" \in Files /\ "dtime" \in Files
      /\ "eph" \in Kinds /\ "iono" \in Kinds /\ "utc" \in Kinds /\ "ggto" \in Kinds
  BY DEF FileOf, Files, Kinds
<1>2. /\ offered \in [Kinds -> RowSet \cup {NoRow}]
      /\ \A kind \in Kinds : offered[kind] # NoRow =>
            /\ offered[kind].prn = p /\ offered[kind].kind = kind
            /\ offered[kind].state = state /\ offered[kind].rx = m
  BY DEF Offers
<1>3. ASSUME NEW kind \in Kinds, NEW deque,
             \A z \in {"Unknown", "Yes"} :
                 DataOf(deque, p, kind, z) = DataOf(rows[FileOf(kind)], p, kind, z)
      PROVE  /\ offered[kind] \in RowSet \cup {NoRow}
             /\ offered[kind] # NoRow =>
                   LET row == offered[kind] IN
                   /\ FileOf(row.kind) = FileOf(kind) /\ row.rx = m
                   /\ row.state = "Yes" => row.data \in DataOf(deque, row.prn, row.kind, "Unknown")
                   /\ ~IsNews(row, last) => row.data \in DataOf(deque, row.prn, row.kind, row.state)
  BY <1>2, <1>3 DEF KindData, IsNews
<1> DEFINE Effect(deque, longer, kind) ==
             /\ GoodDeque(longer, FileOf(kind), m) /\ InitialFirst(longer)
             /\ \A q, k, z :
                   DataOf(longer, q, k, z) =
                       DataOf(deque, q, k, z) \cup
                           IF offered[kind] # NoRow /\ p = q /\ kind = k /\ state = z
                           THEN {offered[kind].data} ELSE {}
             /\ \A q, k :
                   LastInitial(longer, q, k) =
                       IF IsNews(offered[kind], last) /\ p = q /\ kind = k /\ state = "Unknown"
                       THEN offered[kind].data ELSE LastInitial(deque, q, k)
<1>4. ASSUME NEW kind \in Kinds, NEW deque, NEW k \in Nat, k <= m,
             GoodDeque(deque, FileOf(kind), k), InitialFirst(deque),
             \A z \in {"Unknown", "Yes"} :
                 DataOf(deque, p, kind, z) = DataOf(rows[FileOf(kind)], p, kind, z)
      PROVE  Effect(deque, WithRow(deque, offered[kind], last), kind)
  <2> DEFINE row == offered[kind]
  <2> DEFINE longer == WithRow(deque, row, last)
  <2>1. /\ row \in RowSet \cup {NoRow}
        /\ row # NoRow =>
              /\ FileOf(row.kind) = FileOf(kind) /\ row.rx = m
              /\ row.state = "Yes" => row.data \in DataOf(deque, row.prn, row.kind, "Unknown")
              /\ ~IsNews(row, last) => row.data \in DataOf(deque, row.prn, row.kind, row.state)
    BY <1>3, <1>4
  <2>2. row # NoRow => row.prn = p /\ row.kind = kind /\ row.state = state
    BY <1>2
  <2>3. IsNews(row, last) => row # NoRow
    BY DEF IsNews
  <2> HIDE DEF row
  <2>4. /\ GoodDeque(longer, FileOf(kind), m) /\ InitialFirst(longer)
        /\ \A q, x, z :
              DataOf(longer, q, x, z) =
                  DataOf(deque, q, x, z) \cup
                      IF row # NoRow /\ row.prn = q /\ row.kind = x /\ row.state = z
                      THEN {row.data} ELSE {}
        /\ \A q, x :
              LastInitial(longer, q, x) =
                  IF IsNews(row, last) /\ row.prn = q /\ row.kind = x /\ row.state = "Unknown"
                  THEN row.data ELSE LastInitial(deque, q, x)
    BY <1>4, <2>1, OfferedRow
  <2> HIDE DEF longer
  <2>5. ASSUME NEW q, NEW x, NEW z
        PROVE  DataOf(longer, q, x, z) =
                   DataOf(deque, q, x, z) \cup
                       IF row # NoRow /\ p = q /\ kind = x /\ state = z THEN {row.data} ELSE {}
    BY <2>2, <2>4
  <2>6. ASSUME NEW q, NEW x
        PROVE  LastInitial(longer, q, x) =
                   IF IsNews(row, last) /\ p = q /\ kind = x /\ state = "Unknown"
                   THEN row.data ELSE LastInitial(deque, q, x)
    BY <2>2, <2>3, <2>4
  <2> QED
    BY <2>4, <2>5, <2>6 DEF longer, row
<1> DEFINE first == WithRow(rows["dtime"], offered["utc"], last)
<1>5. /\ rows'["eph"] = WithRow(rows["eph"], offered["eph"], last)
      /\ rows'["iono"] = WithRow(rows["iono"], offered["iono"], last)
      /\ rows'["dtime"] = WithRow(first, offered["ggto"], last)
      /\ DOMAIN rows' = Files /\ rows' = [f \in Files |-> rows'[f]]
  BY <1>1 DEF Push
<1>6. \A f \in Files : GoodDeque(rows[f], f, n) /\ InitialFirst(rows[f])
  BY DEF GoodDeques
<1>7. Effect(rows["eph"], rows'["eph"], "eph")
  BY <1>1, <1>4, <1>5, <1>6
<1>8. Effect(rows["iono"], rows'["iono"], "iono")
  BY <1>1, <1>4, <1>5, <1>6
<1>9. Effect(rows["dtime"], first, "utc")
  BY <1>1, <1>4, <1>6
<1> HIDE DEF first
<1>10. ASSUME NEW z \in {"Unknown", "Yes"}
       PROVE  DataOf(first, p, "ggto", z) = DataOf(rows["dtime"], p, "ggto", z)
  <2>1. DataOf(first, p, "ggto", z) =
            DataOf(rows["dtime"], p, "ggto", z) \cup
                IF offered["utc"] # NoRow /\ p = p /\ "utc" = "ggto" /\ state = z
                THEN {offered["utc"].data} ELSE {}
    BY <1>9
  <2> QED
    BY <2>1
<1>11. m <= m /\ GoodDeque(first, FileOf("ggto"), m) /\ InitialFirst(first)
  BY <1>1, <1>9
<1>12. Effect(first, rows'["dtime"], "ggto")
  BY <1>1, <1>4, <1>5, <1>10, <1>11
<1>13. \A f \in Files : GoodDeque(rows'[f], f, m) /\ InitialFirst(rows'[f])
  BY <1>1, <1>7, <1>8, <1>12 DEF Files
<1>14. GoodDeques(rows', m)
  <2>1. \A f \in Files : rows'[f] \in Seq(RowSet)
    BY <1>13 DEF GoodDeque
  <2> QED
    BY <1>5, <1>13, <2>1 DEF GoodDeques
<1>15. ASSUME NEW q \in Prns, NEW kind \in Kinds, NEW z \in {"Unknown", "Yes"}
       PROVE  KindData(rows', q, kind, z) =
                  KindData(rows, q, kind, z) \cup
                      IF offered[kind] # NoRow /\ q = p /\ z = state
                      THEN {offered[kind].data} ELSE {}
  <2>1. CASE kind = "eph"
    BY <1>1, <1>7, <2>1 DEF KindData
  <2>2. CASE kind = "iono"
    BY <1>1, <1>8, <2>2 DEF KindData
  <2>3. CASE kind = "utc"
    BY <1>1, <1>9, <1>12, <2>3 DEF KindData
  <2>4. CASE kind = "ggto"
    BY <1>1, <1>9, <1>12, <2>4 DEF KindData
  <2> QED
    BY <2>1, <2>2, <2>3, <2>4 DEF Kinds
<1>16. ASSUME NEW q \in Prns, NEW kind \in Kinds
       PROVE  LastOfKind(rows', q, kind) =
                  IF IsNews(offered[kind], last) /\ q = p /\ state = "Unknown"
                  THEN offered[kind].data ELSE LastOfKind(rows, q, kind)
  <2>1. CASE kind = "eph"
    BY <1>1, <1>7, <2>1 DEF LastOfKind
  <2>2. CASE kind = "iono"
    BY <1>1, <1>8, <2>2 DEF LastOfKind
  <2>3. CASE kind = "utc"
    BY <1>1, <1>9, <1>12, <2>3 DEF LastOfKind
  <2>4. CASE kind = "ggto"
    BY <1>1, <1>9, <1>12, <2>4 DEF LastOfKind
  <2> QED
    BY <2>1, <2>2, <2>3, <2>4 DEF Kinds
<1> QED
  BY <1>14, <1>15, <1>16

-----------------------------------------------------------------------------
(* Sorting leaves rows that came in the order of their times as they are.  *)
LEMMA SortedAlready ==
    ASSUME NEW deque \in Seq(RowSet),
           \A i, j \in DOMAIN deque : i < j => deque[i].rx <= deque[j].rx
    PROVE  SortedByRx(deque) = deque
<1>1. DOMAIN deque = 1 .. Len(deque) /\ Len(deque) \in Nat
  OBVIOUS
<1>2. ASSUME NEW i \in DOMAIN deque
      PROVE  deque[i].rx \in Nat /\ deque[i].rx # NoTime
  <2>1. deque[i] \in RowSet
    OBVIOUS
  <2>2. deque[i].rx \in PageTimes
    BY <2>1 DEF RowSet
  <2> QED
    BY <2>2, TimesAssumption DEF NoTime
<1>3. ASSUME NEW i \in DOMAIN deque, NEW j \in DOMAIN deque
      PROVE  SortedBefore(deque, i, j) <=> i < j
  <2>1. i \in Nat /\ j \in Nat /\ deque[i].rx \in Nat /\ deque[j].rx \in Nat
    BY <1>1, <1>2
  <2>2. /\ RxLess(deque[i], deque[j]) <=> deque[i].rx < deque[j].rx
        /\ RxLess(deque[j], deque[i]) <=> deque[j].rx < deque[i].rx
    BY <1>2 DEF RxLess
  <2>3. CASE i < j
    <3>1. deque[i].rx <= deque[j].rx
      BY <2>3
    <3> QED
      BY <2>1, <2>2, <2>3, <3>1 DEF SortedBefore
  <2>4. CASE i = j
    BY <2>1, <2>2, <2>4 DEF SortedBefore
  <2>5. CASE j < i
    <3>1. deque[j].rx <= deque[i].rx
      BY <2>5
    <3> QED
      BY <2>1, <2>2, <2>5, <3>1 DEF SortedBefore
  <2> QED
    BY <2>1, <2>3, <2>4, <2>5
<1> DEFINE BeforeThe(j) == {i \in DOMAIN deque : SortedBefore(deque, i, j)}
<1>4. ASSUME NEW j \in DOMAIN deque
      PROVE  Cardinality(BeforeThe(j)) = j - 1
  <2>1. j \in Nat /\ 1 <= j /\ j <= Len(deque)
    BY <1>1
  <2>2. BeforeThe(j) = 1 .. (j - 1)
    <3>1. \A i \in BeforeThe(j) : i \in 1 .. (j - 1)
      BY <1>1, <1>3, <2>1
    <3>2. ASSUME NEW i \in 1 .. (j - 1) PROVE i \in BeforeThe(j)
      <4>1. i \in DOMAIN deque /\ i < j
        BY <1>1, <2>1
      <4> QED
        BY <1>3, <4>1
    <3> HIDE DEF BeforeThe
    <3> QED
      BY <3>1, <3>2
  <2>3. Cardinality(1 .. (j - 1)) = j - 1
    <3> DEFINE k == j - 1
    <3>1. 1 \in Int /\ k \in Int /\ k >= 0
      BY <2>1
    <3> HIDE DEF k
    <3>2. Cardinality(1 .. k) = IF 1 > k THEN 0 ELSE k - 1 + 1
      BY <3>1, FS_Interval, Zenon
    <3>3. Cardinality(1 .. k) = k
      BY <3>1, <3>2
    <3> QED
      BY <3>3 DEF k
  <2> QED
    BY <2>2, <2>3
<1>5. SortedByRx(deque) =
         [n \in DOMAIN deque |->
             deque[CHOOSE j \in DOMAIN deque : Cardinality(BeforeThe(j)) = n - 1]]
  BY DEF SortedByRx
<1> HIDE DEF BeforeThe
<1>6. ASSUME NEW n \in DOMAIN deque
      PROVE  (CHOOSE j \in DOMAIN deque : Cardinality(BeforeThe(j)) = n - 1) = n
  <2>1. \A j \in DOMAIN deque : Cardinality(BeforeThe(j)) = n - 1 <=> j = n
    BY <1>1, <1>4
  <2> QED
    BY <2>1
<1>7. deque = [n \in DOMAIN deque |-> deque[n]]
  OBVIOUS
<1> QED
  BY <1>5, <1>6, <1>7

-----------------------------------------------------------------------------
(* What a candidate says of each kind, NoData when it does not.            *)
Gives(c, kind) ==
    CASE kind = "eph" -> IF HasCedData(c) /\ IodnavConsistent(c) THEN EphFingerprint(c) ELSE NoData
      [] kind = "iono" -> IF c.words[WT5].valid THEN IonoPart[c.words[WT5].content] ELSE NoData
      [] kind = "utc" -> IF c.words[WT6].valid THEN c.words[WT6].content ELSE NoData
      [] kind = "ggto" -> IF c.words[WT10].valid /\ c.words[WT10].content # NoGgto
                          THEN c.words[WT10].content ELSE NoData

LEMMA GivenKinds ==
    ASSUME NEW c
    PROVE  /\ Gives(c, "eph") =
                 IF HasCedData(c) /\ IodnavConsistent(c) THEN EphFingerprint(c) ELSE NoData
           /\ Gives(c, "iono") =
                 IF c.words[WT5].valid THEN IonoPart[c.words[WT5].content] ELSE NoData
           /\ Gives(c, "utc") = IF c.words[WT6].valid THEN c.words[WT6].content ELSE NoData
           /\ Gives(c, "ggto") = IF c.words[WT10].valid /\ c.words[WT10].content # NoGgto
                                 THEN c.words[WT10].content ELSE NoData
  BY DEF Gives

LEMMA OutputWords ==
    /\ WT5 = 5 /\ WT5 \in CedWords /\ WT5 \in Words /\ WT6 \in Words /\ WT10 \in Words
    /\ WT6 \notin CedWords /\ WT10 \notin CedWords /\ WT6 # WT10
    /\ CedWords \subseteq Words
  BY PagesAssumption, WordSets DEF WT5

(* A candidate with the same valid words gives the same.                   *)
SameWords(c, d, S) ==
    \A w \in S : /\ d.words[w].valid = c.words[w].valid
                 /\ c.words[w].valid => d.words[w].content = c.words[w].content

LEMMA SameWordsGiveSame ==
    ASSUME NEW c, NEW d
    PROVE  /\ SameWords(c, d, CedWords) => Gives(d, "eph") = Gives(c, "eph")
           /\ SameWords(c, d, {WT5}) => Gives(d, "iono") = Gives(c, "iono")
           /\ SameWords(c, d, {WT6}) => Gives(d, "utc") = Gives(c, "utc")
           /\ SameWords(c, d, {WT10}) => Gives(d, "ggto") = Gives(c, "ggto")
<1>1. ASSUME SameWords(c, d, CedWords) PROVE Gives(d, "eph") = Gives(c, "eph")
  <2>1. HasCedData(d) = HasCedData(c)
    BY <1>1 DEF SameWords, HasCedData
  <2>2. CASE HasCedData(c)
    <3>1. \A w \in CedWords : d.words[w].content = c.words[w].content
      BY <1>1, <2>2 DEF SameWords, HasCedData
    <3>2. IodnavConsistent(d) = IodnavConsistent(c)
      BY <3>1 DEF IodnavConsistent
    <3>3. EphFingerprint(d) = EphFingerprint(c)
      BY <3>1 DEF EphFingerprint
    <3> QED
      BY <2>1, <3>2, <3>3, GivenKinds
  <2>3. CASE ~HasCedData(c)
    BY <2>1, <2>3, GivenKinds
  <2> QED
    BY <2>2, <2>3
<1> QED
  BY <1>1, GivenKinds DEF SameWords

(* A candidate that is copied gives what the copy gives; one without words *)
(* gives nothing.                                                          *)
LEMMA CopyGivesSame ==
    ASSUME NEW c, NEW q, Copied(c, q), NEW kind \in Kinds
    PROVE  Gives(c, kind) = Gives(q, kind)
<1>1. \A S \in SUBSET Words : SameWords(q, c, S)
  BY DEF Copied, SameWords
<1>2. CedWords \in SUBSET Words /\ {WT5} \in SUBSET Words /\ {WT6} \in SUBSET Words
      /\ {WT10} \in SUBSET Words
  BY OutputWords
<1> QED
  BY <1>1, <1>2, SameWordsGiveSame DEF Kinds

LEMMA EmptyGivesNothing ==
    ASSUME NEW c, \A w \in Words : ~c.words[w].valid, NEW kind \in Kinds
    PROVE  Gives(c, kind) = NoData
<1>1. ~HasCedData(c)
  BY OutputWords DEF HasCedData
<1> QED
  BY <1>1, OutputWords, GivenKinds DEF Kinds

(* What a candidate gives is data.                                         *)
LEMMA GivenIsData ==
    ASSUME NEW c \in Candidates, NEW kind \in Kinds, Gives(c, kind) # NoData
    PROVE  Gives(c, kind) \in Data
<1>1. ASSUME NEW w \in Words, c.words[w].valid PROVE c.words[w].content \in Contents
  <2>1. c.words[w] \in WordEntries
    BY DEF Candidates
  <2> QED
    BY <1>1, <2>1, EntriesTyped
<1>2. CASE kind = "eph"
  <2>1. HasCedData(c) /\ Gives(c, kind) = EphFingerprint(c)
    BY <1>2, GivenKinds
  <2>2. \A w \in CedWords : c.words[w].content \in Contents
    BY <1>1, <2>1, OutputWords DEF HasCedData
  <2>3. EphFingerprint(c) \in [CedWords -> Contents \cup {EphPart[x] : x \in Contents}]
    BY <2>2 DEF EphFingerprint
  <2> QED
    BY <2>1, <2>3 DEF Data
<1>3. CASE kind \in {"iono", "utc", "ggto"}
  BY <1>1, <1>3, GivenKinds, OutputWords DEF Data
<1> QED
  BY <1>2, <1>3 DEF Kinds

(* The rows of a candidate say what it gives.                              *)
LEMMA GivenRows ==
    ASSUME NEW c \in Candidates, NEW p, NEW state, NEW rx
    PROVE  /\ EphRow(p, c, state, rx) =
                  IF Gives(c, "eph") # NoData THEN Row(p, "eph", state, rx, Gives(c, "eph")) ELSE NoRow
           /\ c.words[WT5].valid =>
                  /\ Gives(c, "iono") # NoData
                  /\ IonoRow(p, c, state, rx) = Row(p, "iono", state, rx, Gives(c, "iono"))
           /\ c.words[WT6].valid =>
                  /\ Gives(c, "utc") # NoData
                  /\ UtcRow(p, c, state, rx) = Row(p, "utc", state, rx, Gives(c, "utc"))
           /\ c.words[WT10].valid =>
                  GgtoRow(p, c, state, rx) =
                      IF Gives(c, "ggto") # NoData
                      THEN Row(p, "ggto", state, rx, Gives(c, "ggto")) ELSE NoRow
<1>1. ASSUME NEW w \in Words, c.words[w].valid
      PROVE  /\ c.words[w].content \in Contents /\ c.words[w].content # NoData
             /\ IonoPart[c.words[w].content] # NoData
  <2>1. c.words[w] \in WordEntries
    BY DEF Candidates
  <2>2. c.words[w].content \in Contents
    BY <1>1, <2>1, EntriesTyped
  <2> QED
    BY <2>2, NoDataAssumption DEF Data
<1>2. ASSUME HasCedData(c) PROVE EphFingerprint(c) # NoData
  <2>1. \A w \in CedWords : c.words[w].content \in Contents
    BY <1>1, <1>2, OutputWords DEF HasCedData
  <2>2. EphFingerprint(c) \in [CedWords -> Contents \cup {EphPart[x] : x \in Contents}]
    BY <2>1 DEF EphFingerprint
  <2> QED
    BY <2>2, NoDataAssumption DEF Data
<1> QED
  BY <1>1, <1>2, GivenKinds, OutputWords DEF EphRow, IonoRow, UtcRow, GgtoRow

(* A row of data is a row.                                                 *)
LEMMA RowTyped ==
    ASSUME NEW p \in Prns, NEW kind \in Kinds, NEW state \in {"Unknown", "Yes"},
           NEW rx \in PageTimes, NEW data \in Data
    PROVE  LET row == Row(p, kind, state, rx, data)
           IN  /\ row \in RowSet /\ row # NoRow
               /\ row.prn = p /\ row.kind = kind /\ row.state = state /\ row.rx = rx
               /\ row.data = data
<1> DEFINE row == Row(p, kind, state, rx, data)
<1>1. /\ row \in RowSet /\ row.prn = p /\ row.kind = kind /\ row.state = state /\ row.rx = rx
      /\ row.data = data
  BY DEF Row, RowSet
<1>2. NoRow.kind = "none" /\ kind # "none"
  BY DEF NoRow, Kinds
<1> QED
  BY <1>1, <1>2

(* Rows of what a candidate gives, one of each kind.                       *)
LEMMA OfferTyped ==
    ASSUME NEW c \in Candidates, NEW p \in Prns, NEW state \in {"Unknown", "Yes"},
           NEW m \in PageTimes, NEW offered,
           offered = [kind \in Kinds |-> offered[kind]],
           \A kind \in Kinds :
               \/ offered[kind] = NoRow
               \/ /\ Gives(c, kind) # NoData
                  /\ offered[kind] = Row(p, kind, state, m, Gives(c, kind))
    PROVE  /\ offered \in Offers(p, state, m)
           /\ \A kind \in Kinds : offered[kind] # NoRow =>
                 offered[kind].data = Gives(c, kind) /\ Gives(c, kind) \in Data
<1>1. ASSUME NEW kind \in Kinds, offered[kind] # NoRow
      PROVE  /\ offered[kind] \in RowSet
             /\ offered[kind].prn = p /\ offered[kind].kind = kind
             /\ offered[kind].state = state /\ offered[kind].rx = m
             /\ offered[kind].data = Gives(c, kind) /\ Gives(c, kind) \in Data
  <2>1. Gives(c, kind) # NoData /\ offered[kind] = Row(p, kind, state, m, Gives(c, kind))
    BY <1>1
  <2>2. Gives(c, kind) \in Data
    BY <2>1, GivenIsData
  <2> DEFINE data == Gives(c, kind)
  <2> HIDE DEF data
  <2>3. offered[kind] = Row(p, kind, state, m, data) /\ data \in Data
    BY <2>1, <2>2 DEF data
  <2>4. /\ offered[kind] \in RowSet
        /\ offered[kind].prn = p /\ offered[kind].kind = kind
        /\ offered[kind].state = state /\ offered[kind].rx = m
        /\ offered[kind].data = data
    BY <2>3, RowTyped
  <2> QED
    BY <2>2, <2>4 DEF data
<1>2. offered \in [Kinds -> RowSet \cup {NoRow}]
  BY <1>1
<1> QED
  BY <1>1, <1>2 DEF Offers

(* The initial rows for a page: they say what the candidate with the page  *)
(* gives, unless the candidate gave that before.                           *)
LEMMA ReceivedGiven ==
    ASSUME NEW p \in Prns, NEW w \in Words, NEW content \in Contents, NEW t \in PageTimes,
           NEW c \in Candidates, GoodCandidate(c, SubframeTime(t), t)
    PROVE  LET d == WithWord(c, w, content, t)
               offered == IF SameWord(c, w, content) THEN NothingOffered
                          ELSE ReceivedRows(p, d, w, t)
           IN  /\ offered \in Offers(p, "Unknown", t)
               /\ \A kind \in Kinds :
                     IF offered[kind] # NoRow
                     THEN offered[kind].data = Gives(d, kind) /\ Gives(d, kind) \in Data
                     ELSE Gives(d, kind) \in {NoData, Gives(c, kind)}
<1> DEFINE d == WithWord(c, w, content, t)
<1> DEFINE offered == IF SameWord(c, w, content) THEN NothingOffered ELSE ReceivedRows(p, d, w, t)
<1>1. t \in Nat /\ t <= t
  BY SubframeTimes1
<1>2. /\ d \in Candidates
      /\ d.words = [c.words EXCEPT ![w] =
                       [valid |-> TRUE, content |-> content, time |-> t, age |-> 0]]
      /\ HasCedData(d) /\ w \in CedWords /\ ~SameWord(c, w, content) => d.ced_complete = t
  BY <1>1, WithWordGood DEF SameWord
<1> HIDE DEF d
<1>3. /\ c.words \in [Words -> WordEntries]
      /\ d.words[w].valid /\ d.words[w].content = content
      /\ \A v \in Words : v # w => d.words[v] = c.words[v]
  <2>1. c.words \in [Words -> WordEntries]
    BY DEF Candidates
  <2> QED
    BY <1>2, <2>1
<1>4. CASE SameWord(c, w, content)
  <2>1. offered = NothingOffered
    BY <1>4
  <2>2. \A S \in SUBSET Words : SameWords(c, d, S)
    <3>1. c.words[w].valid \in BOOLEAN /\ d.words[w].valid = TRUE
      BY <1>2, <1>3, EntriesTyped
    <3>2. d.words[w].valid = c.words[w].valid /\ d.words[w].content = c.words[w].content
      BY <1>3, <1>4, <3>1 DEF SameWord
    <3>3. \A v \in Words : /\ d.words[v].valid = c.words[v].valid
                           /\ d.words[v].content = c.words[v].content
      BY <1>3, <3>2
    <3> QED
      BY <3>3 DEF SameWords
  <2>3. CedWords \in SUBSET Words /\ {WT5} \in SUBSET Words /\ {WT6} \in SUBSET Words
        /\ {WT10} \in SUBSET Words
    BY OutputWords
  <2>4. \A kind \in Kinds : Gives(d, kind) = Gives(c, kind)
    BY <2>2, <2>3, SameWordsGiveSame DEF Kinds
  <2>5. offered \in Offers(p, "Unknown", t) /\ \A kind \in Kinds : offered[kind] = NoRow
    BY <2>1 DEF NothingOffered, Offers
  <2> QED
    BY <2>4, <2>5 DEF d
<1>5. CASE ~SameWord(c, w, content)
  <2>1. offered = ReceivedRows(p, d, w, t)
    BY <1>5
  <2>2. /\ offered = [kind \in Kinds |-> offered[kind]]
        /\ offered["eph"] = IF w \in CedWords THEN EphRow(p, d, "Unknown", d.ced_complete) ELSE NoRow
        /\ offered["iono"] = IF w = WT5 THEN IonoRow(p, d, "Unknown", t) ELSE NoRow
        /\ offered["utc"] = IF w = WT6 THEN UtcRow(p, d, "Unknown", t) ELSE NoRow
        /\ offered["ggto"] = IF w = WT10 THEN GgtoRow(p, d, "Unknown", t) ELSE NoRow
    BY <2>1 DEF ReceivedRows, Kinds
  <2> HIDE DEF offered
  <2>3. /\ w \in CedWords /\ Gives(d, "eph") # NoData =>
              offered["eph"] = Row(p, "eph", "Unknown", t, Gives(d, "eph"))
        /\ w \in CedWords /\ Gives(d, "eph") = NoData => offered["eph"] = NoRow
    BY <1>2, <1>5, <2>2, GivenRows, GivenKinds
  <2>4. w = WT5 => /\ Gives(d, "iono") # NoData
                   /\ offered["iono"] = Row(p, "iono", "Unknown", t, Gives(d, "iono"))
    BY <1>2, <1>3, <2>2, GivenRows
  <2>5. w = WT6 => /\ Gives(d, "utc") # NoData
                   /\ offered["utc"] = Row(p, "utc", "Unknown", t, Gives(d, "utc"))
    BY <1>2, <1>3, <2>2, GivenRows
  <2>6. /\ w = WT10 /\ Gives(d, "ggto") # NoData =>
              offered["ggto"] = Row(p, "ggto", "Unknown", t, Gives(d, "ggto"))
        /\ w = WT10 /\ Gives(d, "ggto") = NoData => offered["ggto"] = NoRow
    BY <1>2, <1>3, <2>2, GivenRows
  <2>7. /\ w \notin CedWords => Gives(d, "eph") = Gives(c, "eph")
        /\ w # WT5 => Gives(d, "iono") = Gives(c, "iono")
        /\ w # WT6 => Gives(d, "utc") = Gives(c, "utc")
        /\ w # WT10 => Gives(d, "ggto") = Gives(c, "ggto")
    <3>1. ASSUME NEW S \in SUBSET Words, w \notin S PROVE SameWords(c, d, S)
      BY <1>3, <3>1 DEF SameWords
    <3> QED
      BY <3>1, OutputWords, SameWordsGiveSame
  <2>8. \A kind \in Kinds :
            \/ offered[kind] = NoRow
            \/ /\ Gives(d, kind) # NoData
               /\ offered[kind] = Row(p, kind, "Unknown", t, Gives(d, kind))
    BY <2>2, <2>3, <2>4, <2>5, <2>6 DEF Kinds
  <2>9. /\ offered \in Offers(p, "Unknown", t)
        /\ \A kind \in Kinds : offered[kind] # NoRow =>
              offered[kind].data = Gives(d, kind) /\ Gives(d, kind) \in Data
    <3>1. "Unknown" \in {"Unknown", "Yes"}
      OBVIOUS
    <3> QED
      BY <1>2, <2>2, <2>8, <3>1, OfferTyped
  <2>10. ASSUME NEW kind \in Kinds, offered[kind] = NoRow
         PROVE  Gives(d, kind) \in {NoData, Gives(c, kind)}
    <3>1. /\ "eph" \in Kinds /\ "iono" \in Kinds /\ "utc" \in Kinds /\ "ggto" \in Kinds
          /\ \A k \in Kinds : Gives(d, k) # NoData => Gives(d, k) \in Data
      BY <1>2, GivenIsData DEF Kinds
    <3>2. ASSUME Gives(d, kind) # NoData, offered[kind] = Row(p, kind, "Unknown", t, Gives(d, kind))
          PROVE  FALSE
      <4> DEFINE data == Gives(d, kind)
      <4>1. data \in Data
        BY <3>1, <3>2
      <4> HIDE DEF data
      <4>2. Row(p, kind, "Unknown", t, data) # NoRow
        BY <4>1, RowTyped
      <4> QED
        BY <2>10, <3>2, <4>2 DEF data
    <3> QED
      BY <2>3, <2>4, <2>5, <2>6, <2>7, <3>2 DEF Kinds
  <2> QED
    BY <2>9, <2>10 DEF d, offered
<1> QED
  BY <1>4, <1>5

(* The rows for a tag that verified: what its kind of tag covers.          *)
Adkds == {"InavCed", "SlowMac", "InavTiming"}
KindsUnder(adkd) == IF adkd = "InavTiming" THEN {"utc", "ggto"} ELSE {"eph", "iono"}
IsCovered(c, adkd) ==
    IF adkd = "InavTiming" THEN c.words[WT6].valid /\ c.words[WT10].valid ELSE HasCedData(c)

LEMMA AuthenticatedGiven ==
    ASSUME NEW p \in Prns, NEW adkd \in Adkds, NEW c \in Candidates, IsCovered(c, adkd),
           newest \in PageTimes
    PROVE  LET offered == AuthenticatedRows(p, c, adkd)
           IN  /\ offered \in Offers(p, "Yes", newest)
               /\ \A kind \in Kinds :
                     /\ offered[kind] # NoRow <=> kind \in KindsUnder(adkd) /\ Gives(c, kind) # NoData
                     /\ offered[kind] # NoRow =>
                           offered[kind].data = Gives(c, kind) /\ Gives(c, kind) \in Data
<1> DEFINE offered == AuthenticatedRows(p, c, adkd)
<1>1. /\ offered = [kind \in Kinds |-> offered[kind]]
      /\ offered["eph"] = IF adkd # "InavTiming" THEN EphRow(p, c, "Yes", newest) ELSE NoRow
      /\ offered["iono"] = IF adkd # "InavTiming" THEN IonoRow(p, c, "Yes", newest) ELSE NoRow
      /\ offered["utc"] = IF adkd = "InavTiming" THEN UtcRow(p, c, "Yes", newest) ELSE NoRow
      /\ offered["ggto"] = IF adkd = "InavTiming" THEN GgtoRow(p, c, "Yes", newest) ELSE NoRow
  BY DEF AuthenticatedRows, Kinds
<1> HIDE DEF offered
<1>2. adkd # "InavTiming" => c.words[WT5].valid
  BY OutputWords DEF IsCovered, HasCedData
<1>3. adkd = "InavTiming" => c.words[WT6].valid /\ c.words[WT10].valid
  BY DEF IsCovered
<1>4. ASSUME NEW kind \in Kinds
      PROVE  IF kind \in KindsUnder(adkd) /\ Gives(c, kind) # NoData
             THEN offered[kind] = Row(p, kind, "Yes", newest, Gives(c, kind))
             ELSE offered[kind] = NoRow
  <2>1. CASE adkd = "InavTiming"
    BY <1>1, <1>3, <2>1, GivenRows DEF Kinds, KindsUnder
  <2>2. CASE adkd # "InavTiming"
    BY <1>1, <1>2, <2>2, GivenRows DEF Kinds, KindsUnder
  <2> QED
    BY <2>1, <2>2
<1>5. /\ offered \in Offers(p, "Yes", newest)
      /\ \A kind \in Kinds : offered[kind] # NoRow =>
            offered[kind].data = Gives(c, kind) /\ Gives(c, kind) \in Data
  <2>1. "Yes" \in {"Unknown", "Yes"}
    OBVIOUS
  <2> QED
    BY <1>1, <1>4, <2>1, OfferTyped
<1>6. ASSUME NEW kind \in Kinds, kind \in KindsUnder(adkd), Gives(c, kind) # NoData
      PROVE  offered[kind] # NoRow
  <2> DEFINE data == Gives(c, kind)
  <2>1. offered[kind] = Row(p, kind, "Yes", newest, data)
    BY <1>4, <1>6
  <2>2. data \in Data
    BY <1>6, GivenIsData
  <2> HIDE DEF data
  <2> QED
    BY <2>1, <2>2, RowTyped
<1> QED
  BY <1>4, <1>5, <1>6 DEF offered

-----------------------------------------------------------------------------
(***************************************************************************)
(* The inductive invariant.  The last rows are known (Told), everything    *)
(* the store holds was said by an initial row (SaidBefore), the newest     *)
(* candidate by the last ones (SaidLast), and what tags authenticated by   *)
(* the authenticated rows (SaidOnce).  The rows are in the order of their  *)
(* times: that is why sorting the files does not part a row from the one   *)
(* it repeats.                                                             *)
(***************************************************************************)
Told(deques, rx, auth) ==
    \A p \in Prns, kind \in Kinds :
        /\ LastOfKind(deques, p, kind) = rx[<<p, kind>>]
        /\ auth[<<p, kind>>] # NoData => auth[<<p, kind>>] \in KindData(deques, p, kind, "Yes")

SaidBefore(deques, store) ==
    \A k \in Keys, kind \in Kinds :
        store[k] # NoCandidate /\ Gives(store[k], kind) # NoData =>
            Gives(store[k], kind) \in KindData(deques, k[1], kind, "Unknown")

NewestOf(store, p) == store[<<p, Max(StoredIn(store, p))>>]
SaidLast(store, rx, fell) ==
    \A p \in Prns \ fell, kind \in Kinds :
        StoredIn(store, p) # {} /\ Gives(NewestOf(store, p), kind) # NoData =>
            rx[<<p, kind>>] = Gives(NewestOf(store, p), kind)

ObjectsOf(objects, p, adkds) == {o[3] : o \in {o \in objects : o[1] = p /\ o[2] \in adkds}}
DataIn(objects, p, kind) ==
    LET ced == ObjectsOf(objects, p, {"InavCed", "SlowMac"})
        timing == ObjectsOf(objects, p, {"InavTiming"})
    IN  CASE kind = "iono" -> {IonoPart[d[WT5]] : d \in ced}
          [] kind = "utc" -> {d[WT6] : d \in timing}
          [] kind = "ggto" -> {d[WT10] : d \in timing} \ {NoGgto}
          [] kind = "eph" -> {[d EXCEPT ![WT5] = EphPart[@]] :
                 d \in {d \in ced : \A v, w \in CedWords \ {WT5} : Iod[d[v]] = Iod[d[w]]}}
SaidOnce(deques, objects) ==
    \A p \in Prns, kind \in Kinds : KindData(deques, p, kind, "Yes") = DataIn(objects, p, kind)

Deques == [f \in Files |-> Listed(f)]

(* What last rows can say.                                                 *)
Lasts == [Prns \X Kinds -> Data \cup {NoData}]

OutputTypeOK ==
    /\ rows \in [Files -> Seq(RowSet)]
    /\ files \in {NoFiles} \cup [Files -> Seq(RowSet)]
    /\ last_rx \in Lasts
    /\ last_auth \in Lasts
    /\ fell_back \in SUBSET Prns

OutputInv ==
    /\ NavInv /\ late_pages = 0
    /\ OutputTypeOK
    /\ GoodDeques(Deques, newest)
    /\ Told(Deques, last_rx, last_auth)
    /\ SaidBefore(Deques, candidates)
    /\ SaidLast(candidates, last_rx, fell_back)
    /\ SaidOnce(Deques, authenticated_objects)

-----------------------------------------------------------------------------
(* Rows are only added: what was said before stays said.                   *)
LEMMA SaidStaysSaid ==
    ASSUME NEW store \in Stores, NEW deques, NEW more, SaidBefore(deques, store),
           \A p \in Prns, kind \in Kinds :
               KindData(deques, p, kind, "Unknown") \subseteq KindData(more, p, kind, "Unknown"),
           NEW u
    PROVE  SaidBefore(more, Cleanup(store, u))
<1>1. \A k \in Keys : Cleanup(store, u)[k] = store[k] \/ Cleanup(store, u)[k] = NoCandidate
  BY CleanupFrame
<1>2. \A k \in Keys : k[1] \in Prns
  BY DEF Keys
<1> QED
  BY <1>1, <1>2 DEF SaidBefore

(* A candidate gives no more than the one it is copied from.               *)
LEMMA FirstCandidateGives ==
    ASSUME NEW store \in Stores, NEW t \in PageTimes, GoodStore(store, t), NEW p \in Prns,
           NEW kind \in Kinds, Gives(CandidateFor(store, p, t), kind) # NoData
    PROVE  /\ StoredIn(store, p) # {}
           /\ <<p, Max(StoredIn(store, p))>> \in Keys
           /\ NewestOf(store, p) # NoCandidate
           /\ Gives(CandidateFor(store, p, t), kind) = Gives(NewestOf(store, p), kind)
<1> DEFINE c == CandidateFor(store, p, t)
<1>1. t \in Nat /\ t <= t
  BY SubframeTimes1
<1>2. IF StoredIn(store, p) = {} THEN \A v \in Words : ~c.words[v].valid
      ELSE c = NewestOf(store, p) \/ Copied(c, NewestOf(store, p))
  <2>1. \E w \in Words : TRUE
    BY OutputWords
  <2>2. \E content : content \in Contents
    <3>1. CASE Contents # {}
      BY <3>1
    <3>2. CASE Contents = {}
      <4>1. \A word \in WordEntries : ~word.valid
        BY <3>2, EntriesTyped
      <4>2. c \in Candidates
        BY <1>1, CandidateForGood
      <4>3. \A v \in Words : ~c.words[v].valid
        BY <4>1, <4>2 DEF Candidates
      <4> QED
        BY <4>3, EmptyGivesNothing
    <3> QED
      BY <3>1, <3>2
  <2> QED
    BY <2>1, <2>2, WithPageNewest DEF NewestOf
<1> HIDE DEF c
<1>3. StoredIn(store, p) # {}
  <2>1. CASE StoredIn(store, p) = {}
    BY <1>2, <2>1, EmptyGivesNothing DEF c
  <2> QED
    BY <2>1
<1>4. Max(StoredIn(store, p)) \in StoredIn(store, p) /\ <<p, Max(StoredIn(store, p))>> \in Keys
  BY <1>1, <1>3, StoredBounds
<1>5. NewestOf(store, p) # NoCandidate
  BY <1>4 DEF StoredIn, NewestOf
<1>6. Gives(c, kind) = Gives(NewestOf(store, p), kind)
  BY <1>2, <1>3, CopyGivesSame
<1> QED
  BY <1>3, <1>4, <1>5, <1>6 DEF c

(* A page adds what its initial rows say.                                  *)
LEMMA PageIsSaid ==
    ASSUME NEW store \in Stores, NEW t \in PageTimes, GoodStore(store, t), NEW p \in Prns,
           NEW w \in Words, NEW content \in Contents, NEW deques, SaidBefore(deques, store),
           \A kind \in Kinds :
               LET c == CandidateFor(store, p, t)
                   d == WithWord(c, w, content, t)
               IN  Gives(d, kind) \in {NoData, Gives(c, kind)}
                      \cup KindData(deques, p, kind, "Unknown")
    PROVE  SaidBefore(deques, WithPage(store, p, w, content, t))
<1> DEFINE c == CandidateFor(store, p, t)
<1> DEFINE d == WithWord(c, w, content, t)
<1> DEFINE key == <<p, SubframeTime(t)>>
<1> DEFINE new == WithPage(store, p, w, content, t)
<1>1. t \in Nat /\ t <= t
  BY SubframeTimes1
<1>2. key \in Keys /\ new[key] = d /\ \A k \in Keys : k # key => new[k] = store[k]
  BY <1>1, WithPageGood
<1> SUFFICES ASSUME NEW k \in Keys, NEW kind \in Kinds, new[k] # NoCandidate,
                    Gives(new[k], kind) # NoData
             PROVE  Gives(new[k], kind) \in KindData(deques, k[1], kind, "Unknown")
  BY DEF SaidBefore
<1>3. \A x \in Kinds : Gives(d, x) \in {NoData, Gives(c, x)} \cup KindData(deques, p, x, "Unknown")
  OBVIOUS
<1> HIDE DEF d, new
<1>4. CASE k # key
  BY <1>2, <1>4 DEF SaidBefore
<1>5. CASE k = key
  <2>1. k[1] = p /\ new[k] = d
    BY <1>2, <1>5
  <2>2. CASE Gives(d, kind) = Gives(c, kind)
    <3>1. /\ <<p, Max(StoredIn(store, p))>> \in Keys /\ NewestOf(store, p) # NoCandidate
          /\ Gives(c, kind) = Gives(NewestOf(store, p), kind)
      BY <2>1, <2>2, FirstCandidateGives
    <3>2. Gives(NewestOf(store, p), kind) \in KindData(deques, p, kind, "Unknown")
      <4> DEFINE x == <<p, Max(StoredIn(store, p))>>
      <4>1. x \in Keys /\ x[1] = p /\ NewestOf(store, p) = store[x]
        BY <3>1 DEF NewestOf
      <4> HIDE DEF x
      <4>2. store[x] # NoCandidate /\ Gives(store[x], kind) # NoData
        BY <2>1, <2>2, <3>1, <4>1
      <4> QED
        BY <4>1, <4>2 DEF SaidBefore
    <3> QED
      BY <2>1, <2>2, <3>1, <3>2
  <2> QED
    BY <1>3, <2>1, <2>2
<1> QED
  BY <1>4, <1>5

-----------------------------------------------------------------------------
(* The satellites whose newest candidate a cleaning up drops before others. *)
Overtaken(store, u) ==
    {p \in Prns :
        /\ StoredIn(Cleanup(store, u), p) # {}
        /\ Cleanup(store, u)[<<p, Max(StoredIn(store, p))>>] = NoCandidate}

LEMMA FallBackIsOvertaken ==
    ASSUME candidates \in Stores, NEW n \in Nat, GoodStore(candidates, n), NEW u
    PROVE  FallBack(u) = Overtaken(candidates, u)
<1> DEFINE clean == Cleanup(candidates, u)
<1>1. \A k \in Keys :
         clean[k] = IF candidates[k] # NoCandidate /\ IsExpired(candidates[k], u)
                    THEN NoCandidate ELSE candidates[k]
  BY DEF Cleanup, Stores
<1> HIDE DEF clean
<1>2. ASSUME NEW p \in Prns
      PROVE  LET kept == {e \in Stored(p) : ~IsExpired(candidates[<<p, e>>], u)}
             IN  /\ kept = StoredIn(clean, p) /\ Stored(p) = StoredIn(candidates, p)
                 /\ StoredIn(clean, p) \subseteq StoredIn(candidates, p)
  <2>1. \A e \in SubframeTimes : <<p, e>> \in Keys
    BY DEF Keys
  <2> QED
    BY <1>1, <2>1 DEF Stored, StoredIn
<1>3. ASSUME NEW p \in Prns, StoredIn(clean, p) # {}
      PROVE  Max(StoredIn(candidates, p)) \notin StoredIn(clean, p)
                 <=> clean[<<p, Max(StoredIn(candidates, p))>>] = NoCandidate
  <2> DEFINE m == Max(StoredIn(candidates, p))
  <2>1. StoredIn(candidates, p) # {}
    BY <1>2, <1>3
  <2>2. m \in SubframeTimes
    <3>1. m \in StoredIn(candidates, p)
      BY <2>1, StoredBounds
    <3> QED
      BY <3>1 DEF StoredIn
  <2> HIDE DEF m
  <2> QED
    BY <2>2 DEF StoredIn, m
<1> QED
  BY <1>2, <1>3 DEF FallBack, Overtaken, clean

(* Cleaning up leaves what the last rows said, but for those.              *)
LEMMA CleanupSaidLast ==
    ASSUME NEW store \in Stores, NEW n \in Nat, GoodStore(store, n), NEW u,
           NEW rx, NEW fell, SaidLast(store, rx, fell)
    PROVE  SaidLast(Cleanup(store, u), rx, fell \cup Overtaken(store, u))
<1> DEFINE clean == Cleanup(store, u)
<1> SUFFICES ASSUME NEW p \in Prns, p \notin fell, p \notin Overtaken(store, u), NEW kind \in Kinds,
                    StoredIn(clean, p) # {}, Gives(NewestOf(clean, p), kind) # NoData
             PROVE  rx[<<p, kind>>] = Gives(NewestOf(clean, p), kind)
  BY DEF SaidLast
<1>1. clean[<<p, Max(StoredIn(store, p))>>] # NoCandidate
  BY DEF Overtaken
<1>2. StoredIn(store, p) # {}
  <2>1. PICK e \in SubframeTimes : clean[<<p, e>>] # NoCandidate
    BY DEF StoredIn
  <2>2. <<p, e>> \in Keys
    BY DEF Keys
  <2>3. store[<<p, e>>] # NoCandidate
    BY <2>1, <2>2, CleanupFrame
  <2> QED
    BY <2>3 DEF StoredIn
<1>3. NewestOf(clean, p) = NewestOf(store, p)
  BY <1>1, <1>2, NewestSurvives DEF NewestOf
<1> QED
  BY <1>2, <1>3 DEF SaidLast

(* A page in order that is repeated, or whose initial rows are the last.   *)
LEMMA PageSaidLast ==
    ASSUME NEW store \in Stores, NEW t \in PageTimes, GoodStore(store, t), NEW p \in Prns,
           NEW w \in Words, NEW content \in Contents,
           NEW rx, NEW more, NEW fell, SaidLast(store, rx, fell),
           \A q \in Prns, kind \in Kinds :
               LET c == CandidateFor(store, p, t)
                   d == WithWord(c, w, content, t)
               IN  \/ more[<<q, kind>>] = rx[<<q, kind>>]
                      /\ (q = p => Gives(d, kind) \in {NoData, Gives(c, kind), rx[<<q, kind>>]})
                   \/ q = p /\ more[<<q, kind>>] = Gives(d, kind)
    PROVE  SaidLast(WithPage(store, p, w, content, t), more, fell)
<1> DEFINE c == CandidateFor(store, p, t)
<1> DEFINE d == WithWord(c, w, content, t)
<1> DEFINE new == WithPage(store, p, w, content, t)
<1>1. t \in Nat /\ t <= t
  BY SubframeTimes1
<1>2. /\ <<p, SubframeTime(t)>> \in Keys /\ new[<<p, SubframeTime(t)>>] = d
      /\ \A k \in Keys : k # <<p, SubframeTime(t)>> => new[k] = store[k]
  BY <1>1, WithPageGood
<1>3. /\ Max(StoredIn(new, p)) = SubframeTime(t)
      /\ \A q \in Prns : q # p => StoredIn(new, q) = StoredIn(store, q)
  BY WithPageNewest, ZenonT(30)
<1>4. \A q \in Prns, kind \in Kinds :
         \/ more[<<q, kind>>] = rx[<<q, kind>>]
            /\ (q = p => Gives(d, kind) \in {NoData, Gives(c, kind), rx[<<q, kind>>]})
         \/ q = p /\ more[<<q, kind>>] = Gives(d, kind)
  OBVIOUS
<1> HIDE DEF d, new
<1> SUFFICES ASSUME NEW q \in Prns, q \notin fell, NEW kind \in Kinds,
                    StoredIn(new, q) # {}, Gives(NewestOf(new, q), kind) # NoData
             PROVE  more[<<q, kind>>] = Gives(NewestOf(new, q), kind)
  BY DEF SaidLast, new
<1>5. CASE q # p
  <2> DEFINE m == Max(StoredIn(store, q))
  <2>1. StoredIn(store, q) # {} /\ Max(StoredIn(new, q)) = m
    BY <1>3, <1>5
  <2>2. <<q, m>> \in Keys
    BY <1>1, <2>1, StoredBounds
  <2>3. <<q, m>> # <<p, SubframeTime(t)>>
    BY <1>5
  <2> HIDE DEF m
  <2>4. NewestOf(new, q) = NewestOf(store, q)
    BY <1>2, <2>1, <2>2, <2>3 DEF NewestOf, m
  <2> QED
    BY <1>4, <1>5, <2>1, <2>4 DEF SaidLast
<1>6. CASE q = p
  <2>1. NewestOf(new, q) = d
    BY <1>2, <1>3, <1>6 DEF NewestOf
  <2>2. CASE Gives(d, kind) = Gives(c, kind) /\ more[<<q, kind>>] = rx[<<q, kind>>]
    <3>1. /\ StoredIn(store, p) # {} /\ Gives(c, kind) = Gives(NewestOf(store, p), kind)
      BY <2>1, <2>2, FirstCandidateGives
    <3> QED
      BY <1>6, <2>1, <2>2, <3>1 DEF SaidLast
  <2> QED
    BY <1>4, <1>6, <2>1, <2>2
<1> QED
  BY <1>5, <1>6

-----------------------------------------------------------------------------
(* What is listed, while files are not written.                            *)
LEMMA ListedRows ==
    ASSUME rows \in [Files -> Seq(RowSet)], files = NoFiles
    PROVE  Deques = rows
  BY DEF Deques, Listed

LEMMA ListedRowsNext ==
    ASSUME rows' \in [Files -> Seq(RowSet)], files' = NoFiles
    PROVE  Deques' = rows'
  BY DEF Deques, Listed

LEMMA FilesAreWritten ==
    ASSUME NEW written, DOMAIN written = Files
    PROVE  written # NoFiles
<1>1. DOMAIN NoFiles = {} /\ "eph" \in Files
  BY DEF NoFiles, Files
<1> QED
  BY <1>1

(* What the rows offered next to the last ones are remembered as.          *)
LEMMA Remembered ==
    ASSUME NEW p \in Prns, NEW offered,
           \A kind \in Kinds : offered[kind] # NoRow =>
               offered[kind].prn = p /\ offered[kind].data \in Data,
           NEW last \in Lasts,
           NEW more, more = Remember(offered, last)
    PROVE  /\ more \in Lasts
           /\ \A q \in Prns, kind \in Kinds :
                 /\ IsNews(offered[kind], last) /\ q = p => more[<<q, kind>>] = offered[kind].data
                 /\ ~(IsNews(offered[kind], last) /\ q = p) => more[<<q, kind>>] = last[<<q, kind>>]
<1>1. DOMAIN last = Prns \X Kinds
  BY DEF Lasts
<1>2. Remember(offered, last) =
         [k \in Prns \X Kinds |->
             IF IsNews(offered[k[2]], last) /\ offered[k[2]].prn = k[1] THEN offered[k[2]].data
             ELSE last[k]]
  BY <1>1 DEF Remember
<1>3. \A kind \in Kinds : IsNews(offered[kind], last) =>
         offered[kind] # NoRow /\ offered[kind].prn = p /\ offered[kind].data \in Data
  BY DEF IsNews
<1>4. Remember(offered, last) \in Lasts
  BY <1>2, <1>3 DEF Lasts
<1> QED
  BY <1>2, <1>3, <1>4

(* Rows that are left out as said last are among the rows.                 *)
LEMMA LeftOutIsSaid ==
    ASSUME NEW deques, NEW n, GoodDeques(deques, n), NEW rx, NEW auth, Told(deques, rx, auth),
           NEW p \in Prns, NEW kind \in Kinds
    PROVE  /\ rx[<<p, kind>>] # NoData => rx[<<p, kind>>] \in KindData(deques, p, kind, "Unknown")
           /\ auth[<<p, kind>>] # NoData => auth[<<p, kind>>] \in KindData(deques, p, kind, "Yes")
<1>1. FileOf(kind) \in Files
  BY DEF Kinds, Files, FileOf
<1>2. deques[FileOf(kind)] \in Seq(RowSet)
  BY <1>1 DEF GoodDeques
<1> QED
  BY <1>2, LastInitialShown DEF Told, LastOfKind, KindData

(* A page keeps the invariant.                                             *)
LEMMA FeedKeeps ==
    ASSUME OutputInv, NEW p \in Prns, NEW w \in Words, NEW content \in Contents,
           NEW t \in PageTimes, FeedNavigationPage(p, w, content, t)
    PROVE  OutputInv'
<1> DEFINE store == Cleanup(candidates, t)
<1> DEFINE c == CandidateFor(store, p, t)
<1> DEFINE d == WithWord(c, w, content, t)
<1> DEFINE offered == RowsOfPage(p, w, content, t)
<1>1. /\ NavInv /\ late_pages = 0 /\ candidates \in Stores /\ GoodStore(candidates, newest)
      /\ newest \in PageTimes \cup {0} /\ OutputTypeOK /\ files = NoFiles
      /\ rows \in [Files -> Seq(RowSet)]
  BY DEF OutputInv, NavInv, NavTypeOK, OutputTypeOK, FeedNavigationPage
<1>2. /\ t \in Nat /\ newest \in Nat /\ newest <= t /\ t <= t
  BY <1>1, TimesAssumption DEF FeedNavigationPage
<1>3. /\ newest' = t /\ late_pages' = 0
      /\ Push(offered, last_rx) /\ last_rx' = Remember(offered, last_rx)
      /\ fell_back' = fell_back \cup FallBack(t)
      /\ last_auth' = last_auth /\ authenticated_objects' = authenticated_objects
      /\ files' = NoFiles
  BY <1>1, <1>2 DEF FeedNavigationPage, Receive
<1>4. PageStep(p, w, content, t)
  BY DEF FeedNavigationPage, Receive, FeedPage, PageStep, WithPage
<1>5. NavInv'
  BY <1>1, <1>4, InvPage
<1>6. candidates' = WithPage(store, p, w, content, t)
  BY <1>4 DEF PageStep
<1>7. store \in Stores /\ GoodStore(store, newest)
  BY <1>1, CleanupFrame, CleanupGood
<1>8. GoodStore(store, t)
  <2> HIDE DEF store
  <2> QED
    BY <1>2, <1>7, GoodStoreLater
<1>9. c \in Candidates /\ GoodCandidate(c, SubframeTime(t), t)
  BY <1>2, <1>7, <1>8, CandidateForGood
<1>10. /\ offered \in Offers(p, "Unknown", t)
       /\ \A kind \in Kinds :
             IF offered[kind] # NoRow
             THEN offered[kind].data = Gives(d, kind) /\ Gives(d, kind) \in Data
             ELSE Gives(d, kind) \in {NoData, Gives(c, kind)}
  BY <1>9, ReceivedGiven DEF RowsOfPage
<1>11. /\ Deques = rows /\ GoodDeques(rows, newest) /\ Told(rows, last_rx, last_auth)
       /\ SaidBefore(rows, candidates) /\ SaidLast(candidates, last_rx, fell_back)
       /\ SaidOnce(rows, authenticated_objects)
  <2>1. Deques = rows
    BY <1>1, ListedRows
  <2> QED
    BY <2>1 DEF OutputInv
<1>12. last_rx \in Lasts
  BY <1>1 DEF OutputTypeOK
<1> HIDE DEF store, d, offered
<1>13. /\ GoodDeques(rows', t)
       /\ \A q \in Prns, kind \in Kinds, z \in {"Unknown", "Yes"} :
             KindData(rows', q, kind, z) =
                 KindData(rows, q, kind, z) \cup
                     IF offered[kind] # NoRow /\ q = p /\ z = "Unknown"
                     THEN {offered[kind].data} ELSE {}
       /\ \A q \in Prns, kind \in Kinds :
             LastOfKind(rows', q, kind) =
                 IF IsNews(offered[kind], last_rx) /\ q = p /\ "Unknown" = "Unknown"
                 THEN offered[kind].data ELSE LastOfKind(rows, q, kind)
  <2>1. ASSUME NEW kind \in Kinds, offered[kind] # NoRow,
               last_rx[<<p, kind>>] = offered[kind].data
        PROVE  offered[kind].data \in KindData(rows, p, kind, "Unknown")
    <3>1. offered[kind].data # NoData
      BY <1>10, <2>1, NoDataAssumption
    <3> QED
      BY <1>11, <2>1, <3>1, LeftOutIsSaid
  <2>2. "Unknown" \in {"Unknown", "Yes"} /\ "Unknown" # "Yes"
    OBVIOUS
  <2> QED
    BY <1>2, <1>3, <1>10, <1>11, <2>1, <2>2, PushedRows
<1>14. /\ last_rx' \in Lasts
       /\ \A q \in Prns, kind \in Kinds :
             /\ IsNews(offered[kind], last_rx) /\ q = p => last_rx'[<<q, kind>>] = offered[kind].data
             /\ ~(IsNews(offered[kind], last_rx) /\ q = p) =>
                   last_rx'[<<q, kind>>] = last_rx[<<q, kind>>]
  <2>1. \A kind \in Kinds : offered[kind] # NoRow =>
           offered[kind].prn = p /\ offered[kind].data \in Data
    BY <1>10 DEF Offers
  <2>2. last_rx' = Remember(offered, last_rx)
    BY <1>3
  <2> QED
    BY <1>12, <2>1, <2>2, Remembered, SMT
<1>15. rows' \in [Files -> Seq(RowSet)] /\ Deques' = rows'
  <2>1. rows' \in [Files -> Seq(RowSet)]
    BY <1>13 DEF GoodDeques
  <2> QED
    BY <1>3, <2>1, ListedRowsNext
<1>16. OutputTypeOK'
  <2>1. fell_back' \in SUBSET Prns
    BY <1>1, <1>3 DEF OutputTypeOK, FallBack
  <2> QED
    BY <1>1, <1>3, <1>14, <1>15, <2>1 DEF OutputTypeOK
<1>17. Told(rows', last_rx', last_auth)
  <2> SUFFICES ASSUME NEW q \in Prns, NEW kind \in Kinds
               PROVE  /\ LastOfKind(rows', q, kind) = last_rx'[<<q, kind>>]
                      /\ last_auth[<<q, kind>>] # NoData =>
                            last_auth[<<q, kind>>] \in KindData(rows', q, kind, "Yes")
    BY DEF Told
  <2>1. /\ LastOfKind(rows, q, kind) = last_rx[<<q, kind>>]
        /\ last_auth[<<q, kind>>] # NoData =>
              last_auth[<<q, kind>>] \in KindData(rows, q, kind, "Yes")
    BY <1>11 DEF Told
  <2> QED
    BY <1>13, <1>14, <2>1
<1>18. SaidBefore(rows', candidates')
  <2>1. \A q \in Prns, kind \in Kinds :
           KindData(rows, q, kind, "Unknown") \subseteq KindData(rows', q, kind, "Unknown")
    BY <1>13
  <2>2. SaidBefore(rows', store)
    BY <1>1, <1>11, <2>1, SaidStaysSaid DEF store
  <2>3. \A kind \in Kinds :
           Gives(d, kind) \in {NoData, Gives(c, kind)} \cup KindData(rows', p, kind, "Unknown")
    BY <1>10, <1>13
  <2> QED
    BY <1>6, <1>7, <1>8, <2>2, <2>3, PageIsSaid DEF d
<1>19. SaidLast(candidates', last_rx', fell_back')
  <2>1. SaidLast(store, last_rx, fell_back')
    <3>1. FallBack(t) = Overtaken(candidates, t)
      BY <1>1, <1>2, FallBackIsOvertaken
    <3> QED
      BY <1>1, <1>2, <1>3, <1>11, <3>1, CleanupSaidLast DEF store
  <2>2. ASSUME NEW q \in Prns, NEW kind \in Kinds
        PROVE  \/ last_rx'[<<q, kind>>] = last_rx[<<q, kind>>]
                  /\ (q = p => Gives(d, kind) \in {NoData, Gives(c, kind), last_rx[<<q, kind>>]})
               \/ q = p /\ last_rx'[<<q, kind>>] = Gives(d, kind)
    <3>1. offered[kind] # NoRow => offered[kind].prn = p /\ offered[kind].kind = kind
      BY <1>10 DEF Offers
    <3>2. CASE q # p
      BY <1>14, <3>2
    <3>3. CASE q = p /\ offered[kind] = NoRow
      <4>1. ~IsNews(offered[kind], last_rx)
        BY <3>3 DEF IsNews
      <4> QED
        BY <1>10, <1>14, <3>3, <4>1
    <3>4. CASE q = p /\ offered[kind] # NoRow
      <4>1. offered[kind].data = Gives(d, kind)
        BY <1>10, <3>4
      <4>2. ~IsNews(offered[kind], last_rx) => last_rx[<<q, kind>>] = offered[kind].data
        BY <3>1, <3>4 DEF IsNews
      <4> QED
        BY <1>14, <3>4, <4>1, <4>2
    <3> QED
      BY <3>2, <3>3, <3>4
  <2> QED
    BY <1>6, <1>7, <1>8, <2>1, <2>2, PageSaidLast DEF d
<1>20. SaidOnce(rows', authenticated_objects)
  BY <1>11, <1>13 DEF SaidOnce
<1> QED
  BY <1>3, <1>5, <1>13, <1>15, <1>16, <1>17, <1>18, <1>19, <1>20 DEF OutputInv

-----------------------------------------------------------------------------
(* A candidate gives an ephemeris when its CED is complete and of one issue. *)
LEMMA EphemerisGiven ==
    ASSUME NEW c \in Candidates
    PROVE  Gives(c, "eph") # NoData <=> HasCedData(c) /\ IodnavConsistent(c)
<1>1. ASSUME HasCedData(c) PROVE EphFingerprint(c) # NoData
  <2>1. \A w \in CedWords : c.words[w].valid /\ c.words[w] \in WordEntries
    BY <1>1, OutputWords DEF HasCedData, Candidates
  <2>2. \A w \in CedWords : c.words[w].content \in Contents
    BY <2>1, EntriesTyped
  <2>3. EphFingerprint(c) \in [CedWords -> Contents \cup {EphPart[x] : x \in Contents}]
    BY <2>2 DEF EphFingerprint
  <2> QED
    BY <2>3, NoDataAssumption DEF Data
<1> QED
  BY <1>1, GivenKinds

LEMMA DataKinds ==
    ASSUME NEW objects, NEW p
    PROVE  LET ced == ObjectsOf(objects, p, {"InavCed", "SlowMac"})
               timing == ObjectsOf(objects, p, {"InavTiming"})
               OneIssue(d) == \A v, w \in CedWords \ {WT5} : Iod[d[v]] = Iod[d[w]]
           IN  /\ DataIn(objects, p, "iono") = {IonoPart[d[WT5]] : d \in ced}
               /\ DataIn(objects, p, "utc") = {d[WT6] : d \in timing}
               /\ DataIn(objects, p, "ggto") = {d[WT10] : d \in timing} \ {NoGgto}
               /\ DataIn(objects, p, "eph") =
                      {[d EXCEPT ![WT5] = EphPart[@]] : d \in {d \in ced : OneIssue(d)}}
  BY DEF DataIn

(* What a tag that verified adds to the data authenticated.                *)
LEMMA AuthenticatedMore ==
    ASSUME NEW objects, NEW p \in Prns, NEW adkd \in Adkds, NEW c \in Candidates,
           IsCovered(c, adkd), NEW q \in Prns, NEW kind \in Kinds
    PROVE  DataIn(objects \cup {<<p, adkd, NavObject(adkd, c)>>}, q, kind) =
               DataIn(objects, q, kind) \cup
                   IF q = p /\ kind \in KindsUnder(adkd) /\ Gives(c, kind) # NoData
                   THEN {Gives(c, kind)} ELSE {}
<1> DEFINE x == NavObject(adkd, c)
<1> DEFINE more == objects \cup {<<p, adkd, x>>}
<1>1. ASSUME NEW A
      PROVE  ObjectsOf(more, q, A) =
                 ObjectsOf(objects, q, A) \cup IF q = p /\ adkd \in A THEN {x} ELSE {}
  <2> DEFINE o == <<p, adkd, x>>
  <2>1. o[1] = p /\ o[2] = adkd /\ o[3] = x /\ more = objects \cup {o}
    OBVIOUS
  <2> HIDE DEF o, more, x
  <2> QED
    BY <2>1 DEF ObjectsOf
<1>2. adkd = "InavTiming" => /\ x = [w \in {WT6, WT10} |-> c.words[w].content]
                             /\ c.words[WT6].valid /\ c.words[WT10].valid
  BY DEF NavObject, IsCovered
<1>3. adkd # "InavTiming" => /\ x = [w \in CedWords |-> c.words[w].content]
                             /\ HasCedData(c) /\ c.words[WT5].valid
  BY OutputWords DEF NavObject, IsCovered, HasCedData
<1> DEFINE ced == ObjectsOf(objects, q, {"InavCed", "SlowMac"})
<1> DEFINE timing == ObjectsOf(objects, q, {"InavTiming"})
<1> DEFINE isCed == q = p /\ adkd # "InavTiming"
<1> DEFINE isTiming == q = p /\ adkd = "InavTiming"
<1>4. /\ ObjectsOf(more, q, {"InavCed", "SlowMac"}) = ced \cup IF isCed THEN {x} ELSE {}
      /\ ObjectsOf(more, q, {"InavTiming"}) = timing \cup IF isTiming THEN {x} ELSE {}
  BY <1>1 DEF Adkds
<1> HIDE DEF x, more, ced, timing, isCed, isTiming
<1>5. CASE kind = "iono"
  <2>1. DataIn(objects, q, kind) = {IonoPart[d[WT5]] : d \in ced}
    BY <1>5, DataKinds DEF ced
  <2>2. DataIn(more, q, kind) = {IonoPart[d[WT5]] : d \in ced \cup IF isCed THEN {x} ELSE {}}
    BY <1>4, <1>5, DataKinds
  <2>3. isCed => Gives(c, kind) = IonoPart[x[WT5]] /\ Gives(c, kind) # NoData
    BY <1>3, <1>5, GivenKinds, GivenRows, OutputWords DEF isCed
  <2>4. kind \in KindsUnder(adkd) <=> adkd # "InavTiming"
    BY <1>5 DEF KindsUnder
  <2> QED
    BY <2>1, <2>2, <2>3, <2>4 DEF more, x, isCed
<1>6. CASE kind = "utc"
  <2>1. DataIn(objects, q, kind) = {d[WT6] : d \in timing}
    BY <1>6, DataKinds DEF timing
  <2>2. DataIn(more, q, kind) = {d[WT6] : d \in timing \cup IF isTiming THEN {x} ELSE {}}
    BY <1>4, <1>6, DataKinds
  <2>3. isTiming => Gives(c, kind) = x[WT6] /\ Gives(c, kind) # NoData
    BY <1>2, <1>6, GivenKinds, GivenRows, OutputWords DEF isTiming
  <2>4. kind \in KindsUnder(adkd) <=> adkd = "InavTiming"
    BY <1>6 DEF KindsUnder
  <2> QED
    BY <2>1, <2>2, <2>3, <2>4 DEF more, x, isTiming
<1>7. CASE kind = "ggto"
  <2>1. DataIn(objects, q, kind) = {d[WT10] : d \in timing} \ {NoGgto}
    BY <1>7, DataKinds DEF timing
  <2>2. DataIn(more, q, kind) =
            {d[WT10] : d \in timing \cup IF isTiming THEN {x} ELSE {}} \ {NoGgto}
    BY <1>4, <1>7, DataKinds
  <2>3. isTiming => /\ x[WT10] = NoGgto => Gives(c, kind) = NoData
                    /\ x[WT10] # NoGgto => Gives(c, kind) = x[WT10] /\ Gives(c, kind) # NoData
    <3>1. ASSUME isTiming PROVE x[WT10] = c.words[WT10].content /\ c.words[WT10].valid
      BY <1>2, <3>1, OutputWords DEF isTiming
    <3>2. c.words[WT10].valid => c.words[WT10].content \in Contents
      BY OutputWords, EntriesTyped DEF Candidates
    <3>3. \A content \in Contents : content # NoData
      BY NoDataAssumption DEF Data
    <3> QED
      BY <1>7, <3>1, <3>2, <3>3, GivenKinds
  <2>4. kind \in KindsUnder(adkd) <=> adkd = "InavTiming"
    BY <1>7 DEF KindsUnder
  <2> QED
    BY <2>1, <2>2, <2>3, <2>4 DEF more, x, isTiming
<1>8. CASE kind = "eph"
  <2> DEFINE OneIssue(d) == \A v, w \in CedWords \ {WT5} : Iod[d[v]] = Iod[d[w]]
  <2> DEFINE Dated(d) == [d EXCEPT ![WT5] = EphPart[@]]
  <2>1. DataIn(objects, q, kind) = {Dated(d) : d \in {d \in ced : OneIssue(d)}}
    BY <1>8, DataKinds DEF ced
  <2>2. DataIn(more, q, kind) =
            {Dated(d) : d \in {d \in ced \cup IF isCed THEN {x} ELSE {} : OneIssue(d)}}
    BY <1>4, <1>8, DataKinds
  <2>3. ASSUME isCed
        PROVE  /\ OneIssue(x) <=> Gives(c, kind) # NoData
               /\ Gives(c, kind) # NoData => Gives(c, kind) = Dated(x)
    <3>1. x = [w \in CedWords |-> c.words[w].content] /\ HasCedData(c)
      BY <1>3, <2>3 DEF isCed
    <3>2. OneIssue(x) <=> IodnavConsistent(c)
      BY <3>1 DEF IodnavConsistent
    <3>3. EphFingerprint(c) = Dated(x)
      BY <3>1, OutputWords DEF EphFingerprint
    <3> QED
      BY <1>8, <3>1, <3>2, <3>3, EphemerisGiven, GivenKinds
  <2>4. kind \in KindsUnder(adkd) <=> adkd # "InavTiming"
    BY <1>8 DEF KindsUnder
  <2> HIDE DEF OneIssue, Dated
  <2> QED
    BY <2>1, <2>2, <2>3, <2>4 DEF more, x, isCed
<1> QED
  BY <1>5, <1>6, <1>7, <1>8 DEF Kinds

(* A candidate that is found for a tag has what the tag covers.            *)
LEMMA FoundIsCovered ==
    ASSUME NavInv, NEW p \in Prns, NEW e \in SubframeTimes, NEW adkd \in Adkds, Found(p, e, adkd)
    PROVE  LET c == candidates[<<p, e>>]
           IN  <<p, e>> \in Keys /\ c # NoCandidate /\ c \in Candidates /\ IsCovered(c, adkd)
<1> DEFINE c == candidates[<<p, e>>]
<1>1. <<p, e>> \in Keys /\ candidates \in Stores
  BY DEF Keys, NavInv, NavTypeOK
<1>2. CASE adkd = "InavTiming"
  <2>1. c # NoCandidate /\ HasTimingPair(c)
    BY <1>2 DEF Found, FindTiming
  <2> QED
    BY <1>1, <1>2, <2>1 DEF Stores, IsCovered, HasTimingPair
<1>3. CASE adkd # "InavTiming"
  <2>1. c # NoCandidate /\ HasCedData(c)
    BY <1>3 DEF Found, FindComplete
  <2> QED
    BY <1>1, <1>3, <2>1 DEF Stores, IsCovered
<1> QED
  BY <1>2, <1>3

(* Something stored was received.                                          *)
LEMMA NewestIsATime ==
    ASSUME NavInv, NEW k \in Keys, candidates[k] # NoCandidate
    PROVE  newest \in PageTimes
<1>1. newest \in PageTimes \cup {0}
  BY DEF NavInv, NavTypeOK
<1>2. PICK p \in Prns, e \in SubframeTimes : k = <<p, e>>
  BY DEF Keys
<1> DEFINE c == candidates[k]
<1>3. c \in Candidates /\ GoodCandidate(c, e, newest)
  BY <1>2 DEF NavInv, NavTypeOK, Stores, GoodStore
<1> HIDE DEF c
<1>4. c.last_update \in PageTimes /\ c.last_update \in Nat /\ c.last_update <= newest
  BY <1>3, TimesAssumption DEF Candidates, GoodCandidate
<1> QED
  BY <1>1, <1>4

(* Data that a tag authenticates keeps the invariant.                      *)
LEMMA RegisterKeeps ==
    ASSUME OutputInv, NEW p \in Prns, NEW e \in SubframeTimes, NEW adkd \in Adkds,
           RegisterMacSuccess(p, e, adkd)
    PROVE  OutputInv'
<1> DEFINE c == candidates[<<p, e>>]
<1> DEFINE offered == AuthenticatedRows(p, c, adkd)
<1> DEFINE object == <<p, adkd, NavObject(adkd, c)>>
<1>1. /\ NavInv /\ late_pages = 0 /\ OutputTypeOK /\ files = NoFiles
      /\ rows \in [Files -> Seq(RowSet)] /\ last_auth \in Lasts
      /\ newest \in PageTimes \cup {0}
  BY DEF OutputInv, NavInv, NavTypeOK, OutputTypeOK, RegisterMacSuccess
<1>2. /\ Found(p, e, adkd)
      /\ authenticated_objects' = authenticated_objects \cup {object}
      /\ Push(offered, last_auth) /\ last_auth' = Remember(offered, last_auth)
      /\ candidates' = candidates /\ newest' = newest /\ latest' = latest
      /\ late_pages' = late_pages
      /\ last_rx' = last_rx /\ files' = NoFiles /\ fell_back' = fell_back
  BY <1>1 DEF RegisterMacSuccess, navVars
<1>3. <<p, e>> \in Keys /\ c # NoCandidate /\ c \in Candidates /\ IsCovered(c, adkd)
  BY <1>1, <1>2, FoundIsCovered
<1>4. newest \in PageTimes /\ newest \in Nat /\ newest <= newest
  BY <1>1, <1>3, NewestIsATime, TimesAssumption
<1>5. /\ offered \in Offers(p, "Yes", newest)
      /\ \A kind \in Kinds :
            /\ offered[kind] # NoRow <=> kind \in KindsUnder(adkd) /\ Gives(c, kind) # NoData
            /\ offered[kind] # NoRow =>
                  /\ offered[kind].prn = p /\ offered[kind].kind = kind
                  /\ offered[kind].data = Gives(c, kind) /\ Gives(c, kind) \in Data
  <2>1. offered \in Offers(p, "Yes", newest)
    BY <1>3, <1>4, AuthenticatedGiven
  <2>2. \A kind \in Kinds :
           /\ offered[kind] # NoRow <=> kind \in KindsUnder(adkd) /\ Gives(c, kind) # NoData
           /\ offered[kind] # NoRow =>
                 offered[kind].data = Gives(c, kind) /\ Gives(c, kind) \in Data
    BY <1>3, <1>4, AuthenticatedGiven
  <2> HIDE DEF c, offered
  <2>3. \A kind \in Kinds : offered[kind] # NoRow =>
           offered[kind].prn = p /\ offered[kind].kind = kind
    BY <2>1 DEF Offers
  <2> QED
    BY <2>1, <2>2, <2>3
<1>6. /\ Deques = rows /\ GoodDeques(rows, newest) /\ Told(rows, last_rx, last_auth)
      /\ SaidBefore(rows, candidates) /\ SaidLast(candidates, last_rx, fell_back)
      /\ SaidOnce(rows, authenticated_objects)
  <2>1. Deques = rows
    BY <1>1, ListedRows
  <2> QED
    BY <2>1 DEF OutputInv
<1>7. \A kind \in Kinds : Gives(c, kind) # NoData => Gives(c, kind) \in KindData(rows, p, kind, "Unknown")
  <2> DEFINE k == <<p, e>>
  <2>1. k \in Keys /\ k[1] = p /\ candidates[k] = c
    BY <1>3
  <2> HIDE DEF k, c
  <2> QED
    BY <1>3, <1>6, <2>1 DEF SaidBefore
<1>8. \A q \in Prns, kind \in Kinds :
         DataIn(authenticated_objects', q, kind) =
             DataIn(authenticated_objects, q, kind) \cup
                 IF q = p /\ kind \in KindsUnder(adkd) /\ Gives(c, kind) # NoData
                 THEN {Gives(c, kind)} ELSE {}
  BY <1>2, <1>3, AuthenticatedMore
<1> HIDE DEF c, offered, object
<1>9. /\ GoodDeques(rows', newest)
      /\ \A q \in Prns, kind \in Kinds, z \in {"Unknown", "Yes"} :
            KindData(rows', q, kind, z) =
                KindData(rows, q, kind, z) \cup
                    IF offered[kind] # NoRow /\ q = p /\ z = "Yes"
                    THEN {offered[kind].data} ELSE {}
      /\ \A q \in Prns, kind \in Kinds :
            LastOfKind(rows', q, kind) =
                IF IsNews(offered[kind], last_auth) /\ q = p /\ "Yes" = "Unknown"
                THEN offered[kind].data ELSE LastOfKind(rows, q, kind)
  <2>1. ASSUME NEW kind \in Kinds, offered[kind] # NoRow
        PROVE  /\ offered[kind].data \in KindData(rows, p, kind, "Unknown")
               /\ last_auth[<<p, kind>>] = offered[kind].data =>
                     offered[kind].data \in KindData(rows, p, kind, "Yes")
    <3>1. offered[kind].data = Gives(c, kind) /\ Gives(c, kind) # NoData
      BY <1>5, <2>1, NoDataAssumption
    <3> QED
      BY <1>6, <1>7, <3>1, LeftOutIsSaid
  <2>2. "Yes" \in {"Unknown", "Yes"}
    OBVIOUS
  <2> QED
    BY <1>2, <1>4, <1>5, <1>6, <2>1, <2>2, PushedRows
<1>10. /\ last_auth' \in Lasts
       /\ \A q \in Prns, kind \in Kinds :
             /\ IsNews(offered[kind], last_auth) /\ q = p => last_auth'[<<q, kind>>] = offered[kind].data
             /\ ~(IsNews(offered[kind], last_auth) /\ q = p) =>
                   last_auth'[<<q, kind>>] = last_auth[<<q, kind>>]
  <2>1. \A kind \in Kinds : offered[kind] # NoRow =>
           offered[kind].prn = p /\ offered[kind].data \in Data
    BY <1>5
  <2>2. last_auth' = Remember(offered, last_auth)
    BY <1>2
  <2> QED
    BY <1>1, <2>1, <2>2, Remembered, SMT
<1>11. rows' \in [Files -> Seq(RowSet)] /\ Deques' = rows'
  <2>1. rows' \in [Files -> Seq(RowSet)]
    BY <1>9 DEF GoodDeques
  <2> QED
    BY <1>2, <2>1, ListedRowsNext
<1>12. NavInv'
  BY <1>1, <1>2 DEF NavInv, NavTypeOK, GoodStore, NoStaleWord, Stored
<1>13. OutputTypeOK'
  BY <1>1, <1>2, <1>10, <1>11 DEF OutputTypeOK
<1>14. Told(rows', last_rx, last_auth')
  <2> SUFFICES ASSUME NEW q \in Prns, NEW kind \in Kinds
               PROVE  /\ LastOfKind(rows', q, kind) = last_rx[<<q, kind>>]
                      /\ last_auth'[<<q, kind>>] # NoData =>
                            last_auth'[<<q, kind>>] \in KindData(rows', q, kind, "Yes")
    BY DEF Told
  <2>1. /\ LastOfKind(rows, q, kind) = last_rx[<<q, kind>>]
        /\ last_auth[<<q, kind>>] # NoData =>
              last_auth[<<q, kind>>] \in KindData(rows, q, kind, "Yes")
    BY <1>6 DEF Told
  <2>2. IsNews(offered[kind], last_auth) => offered[kind] # NoRow
    BY DEF IsNews
  <2> QED
    BY <1>9, <1>10, <2>1, <2>2
<1>15. SaidBefore(rows', candidates)
  <2>1. \A k \in Keys : k[1] \in Prns
    BY DEF Keys
  <2> QED
    BY <1>6, <1>9, <2>1 DEF SaidBefore
<1>16. SaidOnce(rows', authenticated_objects')
  <2> SUFFICES ASSUME NEW q \in Prns, NEW kind \in Kinds
               PROVE  KindData(rows', q, kind, "Yes") = DataIn(authenticated_objects', q, kind)
    BY DEF SaidOnce
  <2>1. KindData(rows, q, kind, "Yes") = DataIn(authenticated_objects, q, kind)
    BY <1>6 DEF SaidOnce
  <2>2. KindData(rows', q, kind, "Yes") =
            KindData(rows, q, kind, "Yes") \cup
                IF offered[kind] # NoRow /\ q = p /\ "Yes" = "Yes" THEN {offered[kind].data} ELSE {}
    BY <1>9
  <2>3. DataIn(authenticated_objects', q, kind) =
            DataIn(authenticated_objects, q, kind) \cup
                IF q = p /\ kind \in KindsUnder(adkd) /\ Gives(c, kind) # NoData
                THEN {Gives(c, kind)} ELSE {}
    BY <1>8
  <2>4. CASE offered[kind] # NoRow /\ q = p
    <3>1. /\ kind \in KindsUnder(adkd) /\ Gives(c, kind) # NoData
          /\ offered[kind].data = Gives(c, kind)
      BY <1>5, <2>4
    <3> QED
      BY <2>1, <2>2, <2>3, <2>4, <3>1
  <2>5. CASE ~(offered[kind] # NoRow /\ q = p)
    <3>1. ~(q = p /\ kind \in KindsUnder(adkd) /\ Gives(c, kind) # NoData)
      BY <1>5, <2>5
    <3> QED
      BY <2>1, <2>2, <2>3, <2>5, <3>1
  <2> QED
    BY <2>4, <2>5
<1> QED
  BY <1>1, <1>2, <1>6, <1>9, <1>11, <1>12, <1>13, <1>14, <1>15, <1>16 DEF OutputInv

(* The files are the rows in the order they came.                          *)
LEMMA WrittenAsTheyCame ==
    ASSUME OutputInv, WriteFiles
    PROVE  /\ rows \in [Files -> Seq(RowSet)] /\ files = NoFiles /\ Deques = rows
           /\ files' = rows
<1>1. rows \in [Files -> Seq(RowSet)] /\ files = NoFiles
  BY DEF OutputInv, OutputTypeOK, WriteFiles
<1>2. Deques = rows /\ GoodDeques(rows, newest)
  BY <1>1, ListedRows DEF OutputInv
<1>3. \A f \in Files : SortedByRx(rows[f]) = rows[f]
  BY <1>2, SortedAlready DEF GoodDeques, GoodDeque
<1> QED
  BY <1>1, <1>2, <1>3 DEF WriteFiles

(* Writing the files keeps the invariant.                                  *)
LEMMA WriteKeeps ==
    ASSUME OutputInv, WriteFiles
    PROVE  OutputInv'
<1>1. /\ rows \in [Files -> Seq(RowSet)] /\ files = NoFiles /\ Deques = rows
      /\ files' = rows
  BY WrittenAsTheyCame
<1>3. files' # NoFiles
  BY <1>1, FilesAreWritten
<1>4. Deques' = Deques
  BY <1>1, <1>3 DEF Deques, Listed
<1>5. rows' \in [Files -> Seq(RowSet)]
  BY DEF WriteFiles, NoRows
<1>6. /\ candidates' = candidates /\ newest' = newest /\ latest' = latest
      /\ late_pages' = late_pages /\ last_rx' = last_rx /\ last_auth' = last_auth
      /\ authenticated_objects' = authenticated_objects /\ fell_back' = fell_back
  BY DEF WriteFiles, navVars
<1>7. NavInv'
  BY <1>6 DEF OutputInv, NavInv, NavTypeOK, GoodStore, NoStaleWord, Stored
<1>8. OutputTypeOK'
  BY <1>1, <1>5, <1>6 DEF OutputInv, OutputTypeOK
<1> QED
  BY <1>4, <1>6, <1>7, <1>8 DEF OutputInv

(* The invariant holds at first and after a restart.                       *)
LEMMA OutputInvAtFirst == OutputInit => OutputInv
<1> SUFFICES ASSUME candidates = [k \in Prns \X SubframeTimes |-> NoCandidate], newest = 0,
                    latest = [k \in Prns \X Words |-> NoWord], late_pages = 0,
                    rows = NoRows, last_rx = Nothing, last_auth = Nothing,
                    authenticated_objects = {}, files = NoFiles, fell_back = {}
             PROVE  OutputInv
  BY DEF OutputInit, NavInit
<1>1. NavInv
  BY InvOfEmpty
<1>2. rows \in [Files -> Seq(RowSet)] /\ \A f \in Files : rows[f] = <<>>
  BY DEF NoRows
<1>3. Deques = rows
  BY <1>2, ListedRows
<1>4. OutputTypeOK
  BY <1>2 DEF OutputTypeOK, Lasts, Nothing
<1>5. \A kind \in Kinds : FileOf(kind) \in Files
  BY DEF Kinds, Files, FileOf
<1>6. /\ \A f : GoodDeque(<<>>, f, newest) /\ InitialFirst(<<>>)
      /\ \A p, kind, state : RowsOf(<<>>, p, kind, state) = {}
  BY DEF GoodDeque, InitialFirst, RowsOf
<1>7. GoodDeques(rows, newest)
  BY <1>2, <1>6 DEF GoodDeques
<1>8. /\ \A p, kind, state : DataOf(<<>>, p, kind, state) = {}
      /\ \A p, kind : LastInitial(<<>>, p, kind) = NoData
  BY <1>6 DEF DataOf, LastInitial
<1>9. ASSUME NEW p \in Prns, NEW kind \in Kinds
      PROVE  /\ LastOfKind(rows, p, kind) = NoData /\ KindData(rows, p, kind, "Yes") = {}
             /\ last_rx[<<p, kind>>] = NoData /\ last_auth[<<p, kind>>] = NoData
  BY <1>2, <1>5, <1>8 DEF LastOfKind, KindData, Nothing
<1>10. Told(rows, last_rx, last_auth)
  BY <1>9 DEF Told
<1>11. SaidBefore(rows, candidates)
  BY DEF SaidBefore, Keys
<1>12. SaidLast(candidates, last_rx, fell_back)
  <2>1. \A p \in Prns : StoredIn(candidates, p) = {}
    BY DEF StoredIn
  <2> QED
    BY <2>1 DEF SaidLast
<1>13. SaidOnce(rows, authenticated_objects)
  <2>1. \A p, A : ObjectsOf({}, p, A) = {}
    BY DEF ObjectsOf
  <2>2. \A p \in Prns, kind \in Kinds : DataIn({}, p, kind) = {}
    BY <2>1, DataKinds DEF Kinds
  <2> QED
    BY <1>9, <2>2 DEF SaidOnce
<1> QED
  BY <1>1, <1>3, <1>4, <1>7, <1>10, <1>11, <1>12, <1>13 DEF OutputInv

LEMMA OutputInvAgain == OutputInit' => OutputInv'
  BY OutputInvAtFirst, PTL

LEMMA OutputInvStep ==
    ASSUME OutputInv, [OutputNext]_<<navVars, outputVars>>
    PROVE  OutputInv'
<1>1. ASSUME NEW p \in Prns, NEW page \in Pages, FeedNavigationPage(p, page[1], page[2], page[3])
      PROVE  OutputInv'
  <2>1. page[1] \in Words /\ page[2] \in Contents /\ page[3] \in PageTimes
    BY PagesAssumption
  <2> QED
    BY <1>1, <2>1, FeedKeeps
<1>2. ASSUME NEW p \in Prns, NEW e \in SubframeTimes, NEW adkd \in Adkds,
             RegisterMacSuccess(p, e, adkd)
      PROVE  OutputInv'
  BY <1>2, RegisterKeeps
<1>3. CASE WriteFiles
  BY <1>3, WriteKeeps
<1>4. CASE Restart
  <2>1. OutputInit'
    BY <1>4 DEF Restart, Reset, OutputInit, NavInit
  <2> QED
    BY <2>1, OutputInvAgain
<1>5. CASE UNCHANGED <<navVars, outputVars>>
  BY <1>5 DEF navVars, outputVars, OutputInv, NavInv, NavTypeOK, GoodStore, NoStaleWord, Stored,
              OutputTypeOK, Deques, Listed
<1> QED
  BY <1>1, <1>2, <1>3, <1>4, <1>5 DEF OutputNext, Adkds

-----------------------------------------------------------------------------
(* In every reachable state the rows are in the order of their times, every *)
(* authenticated one after an initial one that it repeats; all that the    *)
(* store holds was said by an initial row, and by the last ones when the   *)
(* newest candidate was not overtaken; and the authenticated rows say what *)
(* tags authenticated.                                                     *)
THEOREM OutputInvariance == OutputSpec => []OutputInv
<1>1. OutputInit => OutputInv
  BY OutputInvAtFirst
<1>2. OutputInv /\ [OutputNext]_<<navVars, outputVars>> => OutputInv'
  BY OutputInvStep
<1> QED
  BY <1>1, <1>2, PTL DEF OutputSpec

(* In a written file every authenticated row comes after the initial row   *)
(* of the same data that it repeats, whatever rows were left out as        *)
(* repeated and however the file was sorted.                               *)
THEOREM InitialRowsComeFirst == OutputSpec => []AuthenticatedAfterInitial
<1>1. OutputInv => AuthenticatedAfterInitial
  <2> SUFFICES ASSUME OutputInv, files # NoFiles, NEW f \in Files,
                      NEW i \in DOMAIN files[f], files[f][i].state = "Yes"
               PROVE  \E j \in 1 .. i - 1 :
                         files[f][j] = [files[f][i] EXCEPT !.state = "Unknown", !.rx = files[f][j].rx]
    BY DEF AuthenticatedAfterInitial
  <2> DEFINE deque == files[f]
  <2>1. InitialFirst(deque) /\ deque \in Seq(RowSet)
    BY DEF OutputInv, GoodDeques, GoodDeque, Deques, Listed
  <2> HIDE DEF deque
  <2>2. i \in DOMAIN deque /\ deque[i].state = "Yes"
    BY DEF deque
  <2>3. PICK j \in DOMAIN deque :
           /\ j < i /\ deque[j].state = "Unknown" /\ deque[j].prn = deque[i].prn
           /\ deque[j].kind = deque[i].kind /\ deque[j].data = deque[i].data
    BY <2>1, <2>2 DEF InitialFirst
  <2>4. deque[i] \in RowSet /\ deque[j] \in RowSet /\ j \in 1 .. i - 1
    BY <2>1, <2>2, <2>3
  <2>5. deque[j] = [deque[i] EXCEPT !.state = "Unknown", !.rx = deque[j].rx]
    BY <2>3, <2>4 DEF RowSet
  <2> QED
    BY <2>4, <2>5 DEF deque
<1> QED
  BY <1>1, OutputInvariance, PTL

(* The last initial rows say what the newest candidate of a satellite      *)
(* holds, as long as no candidate of the satellite was left in the store   *)
(* by a newer one.                                                         *)
THEOREM LastRowsAreCurrent == OutputSpec => []LastInitialIsCurrent
<1>1. OutputInv => LastInitialIsCurrent
  <2> SUFFICES ASSUME OutputInv, NEW p \in Prns, p \notin fell_back, Stored(p) # {}
               PROVE  LET c == candidates[<<p, Max(Stored(p))>>]
                          Says(kind, data) == LastInitial(Listed(FileOf(kind)), p, kind) = data
                      IN  /\ HasCedData(c) /\ IodnavConsistent(c) => Says("eph", EphFingerprint(c))
                          /\ c.words[WT5].valid => Says("iono", IonoPart[c.words[WT5].content])
                          /\ c.words[WT6].valid => Says("utc", c.words[WT6].content)
                          /\ c.words[WT10].valid /\ c.words[WT10].content # NoGgto =>
                                 Says("ggto", c.words[WT10].content)
    BY DEF LastInitialIsCurrent
  <2> DEFINE c == candidates[<<p, Max(Stored(p))>>]
  <2>1. Stored(p) = StoredIn(candidates, p)
    BY DEF Stored, StoredIn
  <2>2. c = NewestOf(candidates, p)
    BY <2>1 DEF NewestOf
  <2>3. c \in Candidates
    <3>1. newest \in Nat /\ candidates \in Stores /\ GoodStore(candidates, newest)
      BY TimesAssumption DEF OutputInv, NavInv, NavTypeOK
    <3> QED
      BY <2>1, <3>1, StoredBounds
  <2> HIDE DEF c
  <2>4. ASSUME NEW kind \in Kinds, Gives(c, kind) # NoData
        PROVE  LastInitial(Listed(FileOf(kind)), p, kind) = Gives(c, kind)
    <3>1. FileOf(kind) \in Files
      BY DEF Kinds, Files, FileOf
    <3>2. LastOfKind(Deques, p, kind) = LastInitial(Listed(FileOf(kind)), p, kind)
      BY <3>1 DEF LastOfKind, Deques
    <3>3. last_rx[<<p, kind>>] = Gives(c, kind)
      BY <2>1, <2>2, <2>4 DEF OutputInv, SaidLast
    <3> QED
      BY <3>2, <3>3 DEF OutputInv, Told
  <2>5. "eph" \in Kinds /\ "iono" \in Kinds /\ "utc" \in Kinds /\ "ggto" \in Kinds
    BY DEF Kinds
  <2>6. HasCedData(c) /\ IodnavConsistent(c) =>
            LastInitial(Listed(FileOf("eph")), p, "eph") = EphFingerprint(c)
    BY <2>3, <2>4, <2>5, EphemerisGiven, GivenKinds
  <2>7. c.words[WT5].valid =>
            LastInitial(Listed(FileOf("iono")), p, "iono") = IonoPart[c.words[WT5].content]
    BY <2>3, <2>4, <2>5, GivenRows, GivenKinds
  <2>8. c.words[WT6].valid =>
            LastInitial(Listed(FileOf("utc")), p, "utc") = c.words[WT6].content
    BY <2>3, <2>4, <2>5, GivenRows, GivenKinds
  <2>9. c.words[WT10].valid /\ c.words[WT10].content # NoGgto =>
            LastInitial(Listed(FileOf("ggto")), p, "ggto") = c.words[WT10].content
    <3>1. c.words[WT10] \in WordEntries
      BY <2>3, OutputWords DEF Candidates
    <3>2. c.words[WT10].valid => c.words[WT10].content # NoData
      BY <3>1, EntriesTyped, NoDataAssumption DEF Data
    <3> QED
      BY <2>4, <2>5, <3>2, GivenKinds
  <2> QED
    BY <2>6, <2>7, <2>8, <2>9 DEF c
<1> QED
  BY <1>1, OutputInvariance, PTL

(* The authenticated rows of a satellite are exactly the data that tags    *)
(* authenticated.                                                          *)
THEOREM AuthenticatedRowsAreExact == OutputSpec => []AuthenticatedIsReported
<1>1. OutputInv => AuthenticatedIsReported
  <2> SUFFICES ASSUME OutputInv, NEW p \in Prns
               PROVE  LET ced == {o[3] : o \in Objects(p, {"InavCed", "SlowMac"})}
                          timing == {o[3] : o \in Objects(p, {"InavTiming"})}
                      IN  /\ AuthenticatedData(p, "iono") = {IonoPart[d[WT5]] : d \in ced}
                          /\ AuthenticatedData(p, "utc") = {d[WT6] : d \in timing}
                          /\ AuthenticatedData(p, "ggto") = {d[WT10] : d \in timing} \ {NoGgto}
                          /\ AuthenticatedData(p, "eph") =
                                 {[d EXCEPT ![WT5] = EphPart[@]] :
                                     d \in {d \in ced : \A v, w \in CedWords \ {WT5} :
                                                           Iod[d[v]] = Iod[d[w]]}}
    BY DEF AuthenticatedIsReported
  <2>1. ASSUME NEW A
        PROVE  {o[3] : o \in Objects(p, A)} = ObjectsOf(authenticated_objects, p, A)
    BY DEF Objects, ObjectsOf
  <2>2. ASSUME NEW kind \in Kinds
        PROVE  AuthenticatedData(p, kind) = DataIn(authenticated_objects, p, kind)
    <3>1. FileOf(kind) \in Files
      BY DEF Kinds, Files, FileOf
    <3>2. Deques[FileOf(kind)] = Listed(FileOf(kind))
      BY <3>1 DEF Deques
    <3>3. AuthenticatedData(p, kind) = KindData(Deques, p, kind, "Yes")
      BY <3>2 DEF AuthenticatedData, KindData, DataOf
    <3> QED
      BY <3>3 DEF OutputInv, SaidOnce
  <2>3. "eph" \in Kinds /\ "iono" \in Kinds /\ "utc" \in Kinds /\ "ggto" \in Kinds
    BY DEF Kinds
  <2> QED
    BY <2>1, <2>2, <2>3, DataKinds
<1> QED
  BY <1>1, OutputInvariance, PTL

(* Rows come in the order of their times: sorting by RX time, in which     *)
(* rows of the same time could change places, leaves each file as it is.   *)
THEOREM SortingChangesNothing ==
    OutputSpec => [][WriteFiles => files' = rows]_<<navVars, outputVars>>
<1>1. OutputInv => [WriteFiles => files' = rows]_<<navVars, outputVars>>
  BY WrittenAsTheyCame
<1> QED
  BY <1>1, OutputInvariance, PTL
=============================================================================

---------------------------- MODULE InputPipeline ----------------------------
(***************************************************************************)
(* The ways into OsnmaAuthenticator::FeedRawInavPage: pages received live, *)
(* a JSON recording, and an official test vector.  Whatever the source,    *)
(* the pages come to the assembler of SubframeAssembler; the JSON reader   *)
(* is JsonReorder, the reader of test vectors TestVectorReader.            *)
(***************************************************************************)
EXTENDS JsonReorder, SubframeAssembler, TestVectorReader

CONSTANTS
    LineContents,   \* what a JSON line can have
    FileNames,      \* names of test vectors: [date, second]
    Files           \* contents of test vectors: sequences of rows

(* A list has at most the pages of a subframe, the PRNs of rows and lines  *)
(* are in range or not, and recordings start with a page.                  *)
ASSUME LinesAssumption ==
    \A line \in LineContents : \A n \in DOMAIN line :
        line[n].prn \in Prns \cup BadPrns /\ DOMAIN line[n].items \subseteq 1 .. PageCount
ASSUME FilesAssumption ==
    \A rows \in Files : \A n \in DOMAIN rows :
        /\ rows[n].prn \in Prns \cup BadPrns \cup {0}
        /\ DOMAIN rows[n].pages \subseteq Nat \ {0}
ASSUME NamesAssumption ==
    \A name \in FileNames :
        /\ name.date \in Dates /\ name.second \in Nat \ {0} /\ PageSeconds = 2
        /\ (name.second - 1) % PageSeconds = 0

VARIABLE source     \* "live", "json" or "vectors"

vars == <<jsonVars, pending, ended, assemblerVars, source>>

Shift(mode) == IF mode = "OfficialCsvE1B" THEN 1 ELSE 0

Init ==
    /\ source \in {"live", "json", "vectors"}
    /\ shift \in IF source = "live" THEN ModeShifts ELSE {Shift("Standard")}
    /\ JsonInit
    /\ AssemblerInit

-----------------------------------------------------------------------------
ReceiveLive ==
    /\ source = "live"
    /\ \/ ReceivePage
       \/ BadPrns # {} /\ RejectPage
       \/ Reset
    /\ UNCHANGED <<jsonVars, pending, ended, shift, source>>

ReadJson ==
    /\ source = "json"
    /\ \/ \E e \in Epochs, line \in LineContents : InFile(e) /\ ReadLine(e, line)
       \/ SkipMalformedLine
       \/ EndOfFile
    /\ UNCHANGED <<assemblerVars, source>>

(* FeedFileToAuthenticator sets the timing mode, then calls ReadFile.      *)
ReadTestVector ==
    /\ source = "vectors" /\ ~ended
    /\ shift' = Shift("OfficialCsvE1B")
    /\ ended' = TRUE
    /\ \E name \in FileNames :
          LET offset == (name.second - 1) % SubframeSeconds
              day == GalileoDays(name.date)
          IN  \E rows \in Files :
                  pending' = IF ~HasStartTime(name) THEN {}
                             ELSE {[prn |-> page.prn, k |-> page.k, row |-> page.row,
                                    time |-> SinceRecording(day, name.second, SubframeSeconds,
                                                            PageTime(name, page.k)),
                                    sent |-> offset + 2 * page.k] : page \in DecodedPages(rows)}
    /\ UNCHANGED <<jsonVars, sats, status, subframe, newest, ordered, heard, delivered, source>>

(* The next page the reader calls back with.  Readers say every CRC is     *)
(* right.                                                                  *)
ComesBefore(a, b) == IF source = "json" THEN IsFedBefore(a, b) ELSE IsDecodedBefore(a, b)
Feed(page) ==
    IF page.prn \in BadPrns THEN RejectPage
    ELSE IF source = "json"
    THEN FeedGoodPage(page.prn, PageStart(page.epoch, page.index), PageStart(page.epoch, page.sent))
    ELSE FeedGoodPage(page.prn, page.time, page.sent)

FeedNextPage ==
    /\ \E page \in pending :
          /\ \A other \in pending \ {page} : ComesBefore(page, other)
          /\ pending' = pending \ {page}
          /\ Feed(page)
    /\ UNCHANGED <<jsonVars, ended, shift, source>>

Next == ReceiveLive \/ ReadJson \/ ReadTestVector \/ FeedNextPage

Spec == Init /\ [][Next]_vars

-----------------------------------------------------------------------------
(* "The reader reorders them before feeding pages to the caller"           *)
(* (osnma_raw_json_reader.h 68-69) and "Pages are emitted in chronological *)
(* order" (osnma_official_test_vector_reader.h 67): pages come to the      *)
(* authenticator in the order of time, from a test vector always, from a   *)
(* JSON recording as long as its lines are less than the window late and a *)
(* window of lines fits the buffer.                                        *)
FedInOrder ==
    source = "vectors" \/ (source = "json" /\ Orderly) => ordered
=============================================================================

----------------------------- MODULE JsonReorder -----------------------------
(***************************************************************************)
(* The reorder buffer of the JSON reader: OsnmaRawJsonReader::ReadFile.    *)
(*                                                                         *)
(* Every line of the file has the pages of a 30 s subframe.  Lines need    *)
(* not be in order of time; the reader buffers them and feeds the pages of *)
(* the oldest subframe when it is a window older than the newest line, or  *)
(* when too many lines are buffered; at the end of the file it feeds the   *)
(* rest.  The lines of one subframe are fed together, their pages sorted   *)
(* by time.                                                                *)
(*                                                                         *)
(* A line is a sequence of satellites, each with the items of its list of  *)
(* E1-B pages: "page", "null", "malformed", or "cut" where the line is no  *)
(* longer JSON.  A list has an item for every page of the subframe.  The   *)
(* callback gets the flushed pages one after the other, with no line read  *)
(* in between: `pending` is what is left of them, and the order they come  *)
(* in is IsFedBefore.                                                      *)
(***************************************************************************)
EXTENDS Integers, Sequences, FiniteSets, Functions

CONSTANTS
    MaxEpoch,       \* last subframe in the file
    MaxLines,       \* lines in the file
    Window,         \* JSON_REORDER_WINDOW_SECONDS, in subframes
    MaxBuffered,    \* JSON_REORDER_MAX_BUFFERED_SUBFRAMES
    Disorder,       \* by how many subframes a line may be late
    LinesPerEpoch   \* lines that a subframe can have

ASSUME BoundsAssumption ==
    /\ MaxEpoch \in Nat /\ MaxLines \in Nat /\ Window \in Nat /\ Disorder \in Nat
    /\ MaxBuffered \in Nat /\ LinesPerEpoch \in Nat

VARIABLES
    line_count,         \* line_count: lines read so far
    reorder_buffer,     \* reorder_buffer: lines by subframe
    newest_seen,        \* newest_seen, 0 before the first line
    pending,            \* pages the callback is called with next
    ended,              \* the end of the file was reached
    fed,                \* history: the lines of each flush, and their subframes
    lines               \* history: the subframe of each line read

jsonVars == <<line_count, reorder_buffer, newest_seen, fed, lines>>

-----------------------------------------------------------------------------
Epochs == 1 .. MaxEpoch
Buffered(buffer) == UNION {buffer[e] : e \in Epochs}
LinesFrom(buffer, e) == UNION {buffer[d] : d \in e .. MaxEpoch}

(* When e is the oldest subframe buffered.                                 *)
BufferTooDeep(buffer, e) == Cardinality(LinesFrom(buffer, e)) > MaxBuffered

WatermarkLate(e, latest) == latest - e > Window
WatermarkReady(e, latest) == latest - e >= Window

(* flush_ready goes through the subframes from the oldest on and stops at  *)
(* the first that is not ready; those after it are not ready either.       *)
Ready(buffer, latest) ==
    {e \in Epochs : buffer[e] # {} /\ (WatermarkReady(e, latest) \/ BufferTooDeep(buffer, e))}

(* ParseLine: an item that gives no page still takes its place in time;    *)
(* what comes before a cut stays.  A page is its satellite, the index it   *)
(* is given, and the place where it was sent.                              *)
CountPages(items, i) == Cardinality({j \in 1 .. (i - 1) : items[j] = "page"})
PageIndex(items, i) == i - 1

IsCut(items) == "cut" \in Range(items)
ParseLine(line) ==
    UNION {LET items == line[n].items IN
           {[prn |-> line[n].prn, index |-> PageIndex(items, i), sent |-> i - 1] :
                i \in {j \in DOMAIN items :
                        items[j] = "page" /\ ~IsCut(SubSeq(items, 1, j))}} :
           n \in {m \in DOMAIN line : \A k \in 1 .. (m - 1) : ~IsCut(line[k].items)}}

(* flush_ready: the oldest subframe first.  flush_one_oldest: its pages by *)
(* time, then by satellite; the sort is stable.                            *)
NewestFirst(a, b) == a > b
OldestFirst(a, b) == a < b

IsFedBefore(a, b) ==
    \/ OldestFirst(a.epoch, b.epoch)
    \/ /\ a.epoch = b.epoch
       /\ \/ a.index < b.index
          \/ a.index = b.index /\ a.prn < b.prn
          \/ a.index = b.index /\ a.prn = b.prn /\ a.line < b.line

PageOf(e, n, page) ==
    [prn |-> page.prn, index |-> page.index, sent |-> page.sent, epoch |-> e, line |-> n]
PagesOf(buffer, epochs) ==
    UNION {UNION {{PageOf(e, line.number, page) : page \in line.pages} : line \in buffer[e]} :
              e \in epochs}
Batch(buffer, epochs) ==
    UNION {{[epoch |-> e, line |-> line.number] : line \in buffer[e]} : e \in epochs}

KeepFlushed(buffer, epochs) == buffer
Without(buffer, epochs) == [e \in Epochs |-> IF e \in epochs THEN {} ELSE buffer[e]]

JsonInit ==
    /\ line_count = 0
    /\ reorder_buffer = [e \in Epochs |-> {}]
    /\ newest_seen = 0
    /\ pending = {}
    /\ ended = FALSE
    /\ fed = <<>>
    /\ lines = <<>>

(* A line of subframe e.                                                   *)
ReadLine(e, line) ==
    LET pending_line == [number |-> line_count + 1, pages |-> ParseLine(line)]
        buffer == [reorder_buffer EXCEPT ![e] = @ \cup {pending_line}]
        latest == IF e > newest_seen THEN e ELSE newest_seen
        ready == Ready(buffer, latest)
    IN  /\ ~ended /\ pending = {} /\ line_count < MaxLines
        /\ line_count' = line_count + 1
        /\ newest_seen' = latest
        /\ reorder_buffer' = Without(buffer, ready)
        /\ pending' = PagesOf(buffer, ready)
        /\ fed' = Append(fed, Batch(buffer, ready))
        /\ lines' = Append(lines, e)
        /\ UNCHANGED ended

(* A line whose time cannot be read is counted and left out.               *)
SkipMalformedLine ==
    /\ ~ended /\ pending = {} /\ line_count < MaxLines
    /\ line_count' = line_count + 1
    /\ lines' = Append(lines, 0)
    /\ UNCHANGED <<reorder_buffer, newest_seen, pending, ended, fed>>

EndOfFile ==
    LET rest == {e \in Epochs : reorder_buffer[e] # {}}
    IN  /\ ~ended /\ pending = {}
        /\ ended' = TRUE
        /\ reorder_buffer' = Without(reorder_buffer, rest)
        /\ pending' = PagesOf(reorder_buffer, rest)
        /\ fed' = Append(fed, Batch(reorder_buffer, rest))
        /\ UNCHANGED <<line_count, newest_seen, lines>>

(* Recordings: no line is more than Disorder subframes late, and none of   *)
(* the subframes has more than LinesPerEpoch lines.                        *)
InFile(e) ==
    /\ e >= newest_seen - Disorder
    /\ Cardinality({n \in 1 .. Len(lines) : lines[n] = e}) < LinesPerEpoch

-----------------------------------------------------------------------------
(* Lines less than the window late, and a window that fits the buffer.     *)
Orderly ==
    \A n \in 1 .. Len(lines) : \E latest \in {0} \cup {lines[m] : m \in 1 .. n} :
        /\ \A m \in 1 .. n : lines[m] <= latest
        /\ lines[n] # 0 => latest - lines[n] < Window
        /\ Cardinality({m \in 1 .. n : lines[m] > latest - Window /\ lines[m] # 0}) <= MaxBuffered

(* No line is lost or fed twice, whatever its order: a line that was read  *)
(* waits in the buffer or was flushed once, and at the end all were.       *)
Feeds(n) == {m \in DOMAIN fed : \E entry \in fed[m] : entry.line = n}
EveryLineFedOnce ==
    \A n \in DOMAIN lines : lines[n] # 0 =>
        /\ \A m \in DOMAIN fed : \A entry \in fed[m] : entry.line = n => entry.epoch = lines[n]
        /\ Cardinality(Feeds(n)) =
               IF n \in {line.number : line \in Buffered(reorder_buffer)} THEN 0 ELSE 1
        /\ ended => Feeds(n) # {}

(* Memory stays bounded: between lines no more lines are buffered than     *)
(* the limit, and none is older than the window.                           *)
BufferBounded ==
    /\ Cardinality(Buffered(reorder_buffer)) <= MaxBuffered
    /\ \A e \in Epochs : reorder_buffer[e] # {} => newest_seen - e < Window
=============================================================================

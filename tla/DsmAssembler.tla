---------------------------- MODULE DsmAssembler ----------------------------
(***************************************************************************)
(* Reassembly of the DSM messages (DSM-KROOT and DSM-PKR) from the blocks  *)
(* that the satellites spread over their subframes: OsnmaDsmAssembler.     *)
(*                                                                         *)
(* There is one assembly per satellite and DSM id.  The number of blocks   *)
(* of a DSM is written inside its block 0 (the NB field), so nothing is    *)
(* complete before block 0 is there.  Time is counted in subframes.        *)
(*                                                                         *)
(* The message type follows from the id and assemblies are indexed by id,  *)
(* so FeedBlock's tests for another id or type in the same assembly never  *)
(* fire and are left out, like the tests for impossible PRNs and ids.      *)
(***************************************************************************)
EXTENDS Integers

CONSTANTS
    Prns,           \* satellites
    KrootIds,       \* DSM ids of DSM-KROOT messages (0..11)
    PkrIds,         \* DSM ids of DSM-PKR messages (12..15)
    MaxBlocks,      \* MAX_BLOCKS: block ids are 0 .. MaxBlocks-1
    NbOffset,       \* number of blocks = NB + NbOffset, for the NB in use
    KrootNbs,       \* NB values defined for a DSM-KROOT
    PkrNbs,         \* NB values defined for a DSM-PKR
    NbValues,       \* NB values a block 0 may carry, undefined ones included
    KrootMaxAge,    \* KROOT_MAX_ASSEMBLY_AGE_S, in subframes
    PkrMaxAge,      \* PKR_MAX_ASSEMBLY_AGE_S, in subframes
    MaxEpoch,       \* last subframe of the input
    MaxLateness     \* by how many subframes an input may be late (0: in order)

DsmIds == KrootIds \cup PkrIds
BlockIds == 0 .. (MaxBlocks - 1)
Epochs == 1 .. MaxEpoch

ASSUME IdsAssumption == KrootIds \cap PkrIds = {}
ASSUME SizesAssumption ==
    /\ MaxBlocks \in Nat \ {0} /\ NbOffset \in Nat /\ MaxEpoch \in Nat
    /\ KrootMaxAge \in Nat \ {0} /\ PkrMaxAge \in Nat \ {0} /\ MaxLateness \in Nat
    /\ KrootNbs \cup PkrNbs \subseteq NbValues /\ NbValues \subseteq Nat

VARIABLES
    sats,       \* sats_: the assembly of each satellite and DSM id
    message,    \* the message the last FeedBlock returned, or NoMessage
    now,        \* newest subframe seen: the clock of the input stream
    emitted,    \* history: `now` at the last message of each assembly
    heard       \* history: the blocks of each id heard since then

vars == <<sats, message, now, emitted, heard>>

-----------------------------------------------------------------------------
(* A block as it is kept: the subframe it came in and, of its data, the NB *)
(* field, which only means something in block 0.                           *)
NoBlock == [epoch |-> 0, nb |-> 0]
Blocks == [epoch : Epochs, nb : NbValues]

Idle == [active |-> FALSE, done |-> FALSE, first |-> 0,
         blocks |-> [b \in BlockIds |-> NoBlock]]
Assemblies == [active : BOOLEAN, done : BOOLEAN, first : Epochs \cup {0},
               blocks : [BlockIds -> Blocks \cup {NoBlock}]]

Received(a) == {b \in BlockIds : a.blocks[b] # NoBlock}

NoMessage == [prn |-> "none"]

NumberOfBlocks(id, nb) ==
    IF nb \in (IF id \in KrootIds THEN KrootNbs ELSE PkrNbs) THEN nb + NbOffset ELSE -1

MaximumAssemblyAge(id) == IF id \in KrootIds THEN KrootMaxAge ELSE PkrMaxAge

OneMoreSubframe(a, id, epoch) ==
    a.active /\ ~a.done /\ epoch - a.first > MaximumAssemblyAge(id)
LateIsExpired(a, id, epoch) ==
    /\ a.active /\ ~a.done
    /\ epoch < a.first \/ epoch - a.first >= MaximumAssemblyAge(id)

(* IsExpired: the assembly is unfinished and its first block is too old.   *)
(* A block from before the first one gives a negative age, which never     *)
(* expires anything.                                                       *)
IsExpired(a, id, epoch) ==
    a.active /\ ~a.done /\ epoch - a.first >= MaximumAssemblyAge(id)

KeepOldBlocks(a, id, epoch) ==
    IF ~a.active \/ a.done \/ IsExpired(a, id, epoch)
    THEN [a EXCEPT !.active = TRUE, !.done = FALSE, !.first = epoch]
    ELSE a

(* The assembly FeedBlock goes on with: the one it has or, when that is    *)
(* idle, done or expired, a fresh one (StartAssembly).                     *)
CurrentAssembly(a, id, epoch) ==
    IF ~a.active \/ a.done \/ IsExpired(a, id, epoch)
    THEN [Idle EXCEPT !.active = TRUE, !.first = epoch]
    ELSE a

CountBlocks(a, id) ==
    LET n == NumberOfBlocks(id, a.blocks[0].nb) IN
    /\ 0 \in Received(a) /\ n > 0 /\ n <= MaxBlocks
    /\ \E b \in Received(a) : b >= n - 1

(* BuildIfComplete: block 0 is there, declares a length, and all blocks    *)
(* below that length are there.                                            *)
IsComplete(a, id) ==
    LET n == NumberOfBlocks(id, a.blocks[0].nb) IN
    /\ 0 \in Received(a)
    /\ n > 0 /\ n <= MaxBlocks
    /\ \A b \in 0 .. (n - 1) : b \in Received(a)

Message(p, id, a) ==
    LET n == NumberOfBlocks(id, a.blocks[0].nb)
    IN  [prn |-> p, id |-> id, blocks |-> [b \in 0 .. (n - 1) |-> a.blocks[b]]]

OnlyAtLastBlock(p, id, b, block) ==
    LET a == [CurrentAssembly(sats[p, id], id, block.epoch) EXCEPT !.blocks[b] = block]
        complete == IsComplete(a, id) /\ b # 0
    IN  /\ sats' = [sats EXCEPT ![<<p, id>>] = [a EXCEPT !.done = complete]]
        /\ message' = IF complete THEN Message(p, id, a) ELSE NoMessage

(* FeedBlock: block b of DSM id, received from satellite p.                *)
FeedBlock(p, id, b, block) ==
    LET a == [CurrentAssembly(sats[p, id], id, block.epoch) EXCEPT !.blocks[b] = block]
    IN  /\ sats' = [sats EXCEPT ![<<p, id>>] = [a EXCEPT !.done = IsComplete(a, id)]]
        /\ message' = IF IsComplete(a, id) THEN Message(p, id, a) ELSE NoMessage

-----------------------------------------------------------------------------
(* What a listener remembers of a satellite and id: which blocks it heard  *)
(* since the last message or, when the retention time of the first of them *)
(* is over, since then; and the length the newest block 0 declared.        *)
NothingHeard == [first |-> 0, ids |-> {}, nb |-> 0]

Hear(h, id, b, block) ==
    LET over == h.ids = {} \/ block.epoch - h.first >= MaximumAssemblyAge(id)
        kept == IF over THEN [NothingHeard EXCEPT !.first = block.epoch] ELSE h
    IN  [kept EXCEPT !.ids = @ \cup {b}, !.nb = IF b = 0 THEN block.nb ELSE @]

HeardWhole(h, id) ==
    LET n == NumberOfBlocks(id, h.nb)
    IN  0 \in h.ids /\ n > 0 /\ n <= MaxBlocks /\ 0 .. (n - 1) \subseteq h.ids

Init ==
    /\ sats = [k \in Prns \X DsmIds |-> Idle]
    /\ message = NoMessage
    /\ now = 1
    /\ emitted = [k \in Prns \X DsmIds |-> 0]
    /\ heard = [k \in Prns \X DsmIds |-> NothingHeard]

(* Blocks are lost, repeated (the same subframe handed over twice) and, up *)
(* to MaxLateness subframes, late.                                         *)
ReceiveBlock ==
    \E p \in Prns, id \in DsmIds, b \in BlockIds, nb \in NbValues, epoch \in Epochs :
        /\ epoch >= now - MaxLateness
        /\ b # 0 => nb = 0
        /\ FeedBlock(p, id, b, [epoch |-> epoch, nb |-> nb])
        /\ now' = IF epoch > now THEN epoch ELSE now
        /\ emitted' = IF message' = NoMessage THEN emitted
                      ELSE [emitted EXCEPT ![<<p, id>>] = now']
        /\ heard' = [heard EXCEPT ![<<p, id>>] =
                        IF message' # NoMessage THEN NothingHeard
                        ELSE Hear(@, id, b, [epoch |-> epoch, nb |-> nb])]

Next == ReceiveBlock

Spec == Init /\ [][Next]_vars

-----------------------------------------------------------------------------
(* A message handed to the decoder has exactly the blocks its block 0      *)
(* declares, none of them missing, in whatever order they arrived.         *)
MessagesAreWhole ==
    message # NoMessage =>
        LET n == NumberOfBlocks(message.id, message.blocks[0].nb)
        IN  n > 0 /\ DOMAIN message.blocks = 0 .. (n - 1)
                  /\ \A b \in 0 .. (n - 1) : message.blocks[b] # NoBlock

(* A message whose blocks are all heard within the retention time of the   *)
(* first one (osnma_dsm.h 71-75) is handed over with the last of them: in  *)
(* whatever order they come, block 0 last, late or repeated, and also when *)
(* a message before it was completed or given up.                          *)
HeardIsHandedOver == \A k \in Prns \X DsmIds : ~HeardWhole(heard[k], k[2])

(* The blocks of one message span less than the retention time of the      *)
(* OSNMA Receiver Guidelines (osnma_dsm.h 71-75), apart from what the      *)
(* input itself is late: an older block never ends up in a message.        *)
MessagesSpanRetention ==
    message # NoMessage =>
        \A b, c \in DOMAIN message.blocks :
            message.blocks[b].epoch - message.blocks[c].epoch
                < MaximumAssemblyAge(message.id) + MaxLateness

(* A block is used for one message: after a message the next one of that   *)
(* satellite and id is built from blocks received later.  (The block of    *)
(* the same subframe may be handed over again.)                            *)
BlocksUsedOnce ==
    [][\A k \in Prns \X DsmIds :
          message' # NoMessage /\ k = <<message'.prn, message'.id>> =>
              \A b \in DOMAIN message'.blocks :
                  message'.blocks[b].epoch >= emitted[k] - MaxLateness]_vars

(* "Do not discard useful state here" (osnma_dsm.cpp 53-56): whatever the  *)
(* order of the input, a block of an unfinished assembly younger than its  *)
(* retention time is lost only to a newer copy of the same block.          *)
UsefulBlocksKept ==
    [][\A k \in Prns \X DsmIds :
          ~sats[k].done /\ now' - sats[k].first < MaximumAssemblyAge(k[2]) =>
              Received(sats[k]) \subseteq Received(sats'[k])]_vars
=============================================================================

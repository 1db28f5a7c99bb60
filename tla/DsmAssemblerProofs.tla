------------------------- MODULE DsmAssemblerProofs -------------------------
(* Proofs about DsmAssembler, for every number of satellites, blocks and   *)
(* subframes, every retention time and every lateness of the input.        *)
EXTENDS DsmAssembler, TLAPS

Keys == Prns \X DsmIds

(***************************************************************************)
(* The inductive invariant.  Every block of an unfinished assembly came in *)
(* before the retention time of its first block was over, not before that  *)
(* block by more than the lateness of the input, and not before the        *)
(* message that was built before it.                                       *)
(***************************************************************************)
Timely(a, id, since) ==
    \A b \in Received(a) :
        /\ a.blocks[b].epoch - a.first < MaximumAssemblyAge(id)
        /\ a.blocks[b].epoch >= a.first - MaxLateness
        /\ a.blocks[b].epoch >= since - MaxLateness

Unfinished(a, id) == ~a.done => ~IsComplete(a, id)

DsmTypeOK ==
    /\ sats \in [Keys -> Assemblies]
    /\ now \in Nat
    /\ emitted \in [Keys -> Nat]

DsmInv ==
    /\ DsmTypeOK
    /\ \A k \in Keys :
          /\ emitted[k] <= now /\ sats[k].first <= now
          /\ ~sats[k].active => Received(sats[k]) = {}
          /\ ~sats[k].done => Timely(sats[k], k[2], emitted[k])
          /\ Unfinished(sats[k], k[2])

-----------------------------------------------------------------------------
LEMMA IdleAssembly ==
    /\ Idle \in Assemblies
    /\ Received(Idle) = {} /\ ~Idle.active /\ ~Idle.done /\ Idle.first = 0
  BY DEF Idle, Assemblies, Received

LEMMA MaximumAges ==
    \A id : MaximumAssemblyAge(id) \in Nat \ {0}
  BY SizesAssumption DEF MaximumAssemblyAge

(* The assembly a block goes into is the old one, or a fresh one.          *)
LEMMA CurrentAssemblyTyped ==
    ASSUME NEW a \in Assemblies, NEW id, NEW epoch \in Epochs
    PROVE  LET c == CurrentAssembly(a, id, epoch) IN
           /\ c \in Assemblies /\ c.active /\ ~c.done
           /\ \/ c = a
              \/ c.first = epoch /\ Received(c) = {}
<1>1. CASE ~a.active \/ a.done \/ IsExpired(a, id, epoch)
  <2> DEFINE fresh == [Idle EXCEPT !.active = TRUE, !.first = epoch]
  <2>1. CurrentAssembly(a, id, epoch) = fresh
    BY <1>1 DEF CurrentAssembly
  <2>2. /\ fresh \in Assemblies
        /\ fresh.active /\ ~fresh.done /\ fresh.first = epoch
        /\ fresh.blocks = Idle.blocks
    BY IdleAssembly DEF Assemblies
  <2>3. Received(fresh) = {}
    BY <2>2, IdleAssembly DEF Received
  <2> QED
    BY <2>1, <2>2, <2>3
<1>2. CASE ~(~a.active \/ a.done \/ IsExpired(a, id, epoch))
  BY <1>2 DEF CurrentAssembly
<1> QED
  BY <1>1, <1>2

(* The assembly with the new block in it, as FeedBlock leaves it.          *)
Extended(k, b, block) ==
    [CurrentAssembly(sats[k], k[2], block.epoch) EXCEPT !.blocks[b] = block]

(* A block that is not too late keeps the assembly timely.                 *)
LEMMA ExtendedTimely ==
    ASSUME NEW k \in Keys, NEW b \in BlockIds, NEW block \in Blocks, DsmInv,
           block.epoch >= now - MaxLateness
    PROVE  LET a == Extended(k, b, block) IN
           /\ a \in Assemblies /\ a.active /\ ~a.done
           /\ a.first = block.epoch \/ a.first = sats[k].first
           /\ Timely(a, k[2], emitted[k])
           /\ 0 \in BlockIds
<1> DEFINE c == CurrentAssembly(sats[k], k[2], block.epoch)
<1> DEFINE a == [c EXCEPT !.blocks[b] = block]
<1>1. sats[k] \in Assemblies /\ block.epoch \in Epochs /\ now \in Nat /\ emitted[k] \in Nat
  BY DEF DsmInv, DsmTypeOK, Blocks
<1>2. /\ c \in Assemblies /\ c.active /\ ~c.done
      /\ \/ c = sats[k]
         \/ c.first = block.epoch /\ Received(c) = {}
  BY <1>1, CurrentAssemblyTyped
<1>3. c = sats[k] => block.epoch - c.first < MaximumAssemblyAge(k[2])
  <2>1. CASE ~sats[k].active \/ sats[k].done
    BY <1>2, <2>1
  <2>2. CASE IsExpired(sats[k], k[2], block.epoch)
    <3>1. c = [Idle EXCEPT !.active = TRUE, !.first = block.epoch]
      BY <2>2 DEF CurrentAssembly
    <3>2. c.first = block.epoch
      BY <3>1 DEF Idle
    <3> QED
      BY <1>1, <3>2, MaximumAges DEF Epochs
  <2>3. CASE sats[k].active /\ ~sats[k].done /\ ~IsExpired(sats[k], k[2], block.epoch)
    <3>1. sats[k].first \in Int
      BY <1>1 DEF Assemblies, Epochs
    <3> QED
      BY <1>1, <2>3, <3>1, MaximumAges DEF IsExpired, Epochs
  <2> QED
    BY <2>1, <2>2, <2>3
<1>4. Timely(c, k[2], emitted[k])
  <2>1. CASE c = sats[k]
    BY <1>2, <2>1 DEF DsmInv
  <2>2. CASE Received(c) = {}
    BY <2>2 DEF Timely
  <2> QED
    BY <1>2, <2>1, <2>2
<1>5. /\ c.first \in Nat /\ block.epoch \in Nat
      /\ MaximumAssemblyAge(k[2]) \in Nat \ {0} /\ MaxLateness \in Nat
  BY <1>1, <1>2, MaximumAges, SizesAssumption DEF Assemblies, Epochs
<1>6. block.epoch - c.first < MaximumAssemblyAge(k[2])
  BY <1>2, <1>3, <1>5
<1>7. sats[k].first <= now /\ emitted[k] <= now
  BY DEF DsmInv
<1>8. block.epoch >= c.first - MaxLateness /\ block.epoch >= emitted[k] - MaxLateness
  <2>1. block.epoch >= emitted[k] - MaxLateness
    BY <1>1, <1>5, <1>7
  <2>2. CASE c = sats[k]
    BY <1>1, <1>5, <1>7, <2>2
  <2>3. CASE c.first = block.epoch
    <3> HIDE DEF c
    <3> QED BY <1>5, <2>1, <2>3
  <2> QED
    BY <1>2, <2>1, <2>2, <2>3
<1>9. /\ a \in Assemblies /\ a.active = c.active /\ a.done = c.done /\ a.first = c.first
      /\ a.blocks = [c.blocks EXCEPT ![b] = block]
  BY <1>2 DEF Assemblies
<1>10. Timely(a, k[2], emitted[k])
  <2> SUFFICES ASSUME NEW x \in Received(a)
               PROVE  /\ a.blocks[x].epoch - a.first < MaximumAssemblyAge(k[2])
                      /\ a.blocks[x].epoch >= a.first - MaxLateness
                      /\ a.blocks[x].epoch >= emitted[k] - MaxLateness
    BY DEF Timely
  <2>1. x \in BlockIds /\ c.blocks \in [BlockIds -> Blocks \cup {NoBlock}]
    BY <1>2 DEF Received, Assemblies
  <2>2. CASE x = b
    BY <1>6, <1>8, <1>9, <2>1, <2>2
  <2>3. CASE x # b
    <3>1. a.blocks[x] = c.blocks[x]
      BY <1>9, <2>1, <2>3
    <3>2. x \in Received(c)
      BY <2>1, <3>1 DEF Received
    <3> QED
      BY <1>4, <1>9, <3>1, <3>2 DEF Timely
  <2> QED
    BY <2>2, <2>3
<1>11. 0 \in BlockIds
  BY SizesAssumption DEF BlockIds
<1> QED
  BY <1>2, <1>9, <1>10, <1>11 DEF Extended

-----------------------------------------------------------------------------
(* What a step does: one block goes into one assembly, which is reported   *)
(* exactly when that makes it complete.                                    *)
BlockFed(k, b, block) ==
    LET a == Extended(k, b, block) IN
    /\ block.epoch >= now - MaxLateness
    /\ sats' = [sats EXCEPT ![k] = [a EXCEPT !.done = IsComplete(a, k[2])]]
    /\ message' = IF IsComplete(a, k[2]) THEN Message(k[1], k[2], a) ELSE NoMessage
    /\ now' = IF block.epoch > now THEN block.epoch ELSE now
    /\ emitted' = IF message' = NoMessage THEN emitted ELSE [emitted EXCEPT ![k] = now']
    /\ heard' = [heard EXCEPT ![k] = IF message' # NoMessage THEN NothingHeard
                                     ELSE Hear(heard[k], k[2], b, block)]

(* Every step feeds a block.                                               *)
LEMMA StepFeedsBlock ==
    ASSUME Next
    PROVE  \E k \in Keys, b \in BlockIds, block \in Blocks : BlockFed(k, b, block)
<1>1. PICK p \in Prns, id \in DsmIds, b \in BlockIds, nb \in NbValues, epoch \in Epochs :
        /\ epoch >= now - MaxLateness
        /\ FeedBlock(p, id, b, [epoch |-> epoch, nb |-> nb])
        /\ now' = IF epoch > now THEN epoch ELSE now
        /\ emitted' = IF message' = NoMessage THEN emitted
                      ELSE [emitted EXCEPT ![<<p, id>>] = now']
        /\ heard' = [heard EXCEPT ![<<p, id>>] =
                        IF message' # NoMessage THEN NothingHeard
                        ELSE Hear(@, id, b, [epoch |-> epoch, nb |-> nb])]
  BY DEF Next, ReceiveBlock
<1> DEFINE k == <<p, id>>
<1> DEFINE block == [epoch |-> epoch, nb |-> nb]
<1>2. k \in Keys /\ k[1] = p /\ k[2] = id /\ sats[k] = sats[p, id]
  BY DEF Keys
<1>3. block \in Blocks /\ block.epoch = epoch
  BY DEF Blocks
<1> HIDE DEF block
<1>4. FeedBlock(p, id, b, block)
  BY <1>1 DEF block
<1>5. Extended(k, b, block) =
        [CurrentAssembly(sats[p, id], id, block.epoch) EXCEPT !.blocks[b] = block]
  BY <1>2 DEF Extended
<1>6. heard' = [heard EXCEPT ![k] = IF message' # NoMessage THEN NothingHeard
                                    ELSE Hear(heard[k], k[2], b, block)]
  BY <1>1, <1>2 DEF block
<1>7. BlockFed(k, b, block)
  BY <1>1, <1>2, <1>3, <1>4, <1>5, <1>6 DEF BlockFed, FeedBlock
<1> QED
  BY <1>1, <1>2, <1>3, <1>7

(* Completeness depends on the blocks of an assembly only.                 *)
LEMMA CompleteByBlocks ==
    ASSUME NEW a \in Assemblies, NEW id, NEW done \in BOOLEAN
    PROVE  LET d == [a EXCEPT !.done = done] IN
           /\ d \in Assemblies /\ d.done = done /\ d.active = a.active
           /\ d.first = a.first /\ d.blocks = a.blocks
           /\ Received(d) = Received(a) /\ IsComplete(d, id) = IsComplete(a, id)
<1> DEFINE d == [a EXCEPT !.done = done]
<1>1. /\ d \in Assemblies /\ d.done = done /\ d.active = a.active
      /\ d.first = a.first /\ d.blocks = a.blocks
  BY DEF Assemblies
<1>2. Received(d) = Received(a)
  BY <1>1 DEF Received
<1> HIDE DEF d
<1>3. IsComplete(d, id) = IsComplete(a, id)
  BY <1>1, <1>2 DEF IsComplete
<1> QED
  BY <1>1, <1>2, <1>3 DEF d

LEMMA InitDsmInv == Init => DsmInv
<1> SUFFICES ASSUME Init PROVE DsmInv
  OBVIOUS
<1>1. DsmTypeOK
  BY IdleAssembly DEF Init, DsmTypeOK, Keys
<1>2. ASSUME NEW k \in Keys
      PROVE  sats[k] = Idle /\ emitted[k] = 0
  BY DEF Init, Keys
<1>3. \A id : ~IsComplete(Idle, id)
  BY IdleAssembly DEF IsComplete
<1>4. \A id, since : Timely(Idle, id, since)
  BY IdleAssembly DEF Timely
<1> QED
  BY <1>1, <1>2, <1>3, <1>4, IdleAssembly DEF DsmInv, Unfinished, Init

LEMMA NextDsmInv == DsmInv /\ [Next]_vars => DsmInv'
<1> SUFFICES ASSUME DsmInv, [Next]_vars PROVE DsmInv'
  OBVIOUS
<1>1. CASE UNCHANGED vars
  BY <1>1 DEF vars, DsmInv, DsmTypeOK
<1>2. CASE Next
  <2>1. PICK k \in Keys, b \in BlockIds, block \in Blocks : BlockFed(k, b, block)
    BY <1>2, StepFeedsBlock
  <2> DEFINE a == Extended(k, b, block)
  <2> DEFINE complete == IsComplete(a, k[2])
  <2> DEFINE d == [a EXCEPT !.done = complete]
  <2>2. /\ a \in Assemblies /\ a.active /\ ~a.done
        /\ a.first = block.epoch \/ a.first = sats[k].first
        /\ Timely(a, k[2], emitted[k])
    BY <2>1, ExtendedTimely DEF BlockFed
  <2>3. /\ sats' = [sats EXCEPT ![k] = d]
        /\ message' = IF complete THEN Message(k[1], k[2], a) ELSE NoMessage
        /\ now' = IF block.epoch > now THEN block.epoch ELSE now
        /\ emitted' = IF message' = NoMessage THEN emitted ELSE [emitted EXCEPT ![k] = now']
    BY <2>1 DEF BlockFed
  <2>4. complete \in BOOLEAN
    BY DEF IsComplete
  <2>5. /\ d \in Assemblies /\ d.done = complete /\ d.active = a.active
        /\ d.first = a.first /\ d.blocks = a.blocks
        /\ Received(d) = Received(a) /\ IsComplete(d, k[2]) = complete
    BY <2>2, <2>4, CompleteByBlocks
  <2> HIDE DEF a, complete, d
  <2>6. /\ sats \in [Keys -> Assemblies] /\ now \in Nat /\ emitted \in [Keys -> Nat]
        /\ block.epoch \in Nat
    BY DEF DsmInv, DsmTypeOK, Blocks, Epochs
  <2>7. now' \in Nat /\ now' >= now /\ now' >= block.epoch
    BY <2>3, <2>6
  <2>8. DsmTypeOK'
    BY <2>3, <2>5, <2>6, <2>7 DEF DsmTypeOK
  <2>9. ASSUME NEW m \in Keys, m # k
        PROVE  sats'[m] = sats[m] /\ emitted'[m] = emitted[m]
    BY <2>3, <2>6, <2>9
  <2>10. sats'[k] = d /\ (emitted'[k] = emitted[k] \/ (complete /\ emitted'[k] = now'))
    BY <2>3, <2>6
  <2>11. ASSUME NEW m \in Keys
         PROVE  emitted'[m] <= now' /\ sats'[m].first <= now'
    <3>1. emitted[m] <= now /\ sats[m].first <= now /\ emitted[m] \in Nat /\ sats[m].first \in Nat
      BY <2>6 DEF DsmInv, Assemblies, Epochs
    <3>2. CASE m = k
      BY <2>2, <2>5, <2>6, <2>7, <2>10, <3>1, <3>2
    <3>3. CASE m # k
      BY <2>6, <2>7, <2>9, <3>1, <3>3
    <3> QED
      BY <3>2, <3>3
  <2>12. ASSUME NEW m \in Keys
         PROVE  /\ ~sats'[m].active => Received(sats'[m]) = {}
                /\ ~sats'[m].done => Timely(sats'[m], m[2], emitted'[m])
                /\ Unfinished(sats'[m], m[2])
    <3>1. CASE m # k
      BY <2>9, <3>1 DEF DsmInv
    <3>2. CASE m = k /\ complete
      BY <2>2, <2>5, <2>10, <3>2 DEF Unfinished
    <3>3. CASE m = k /\ ~complete
      <4>1. emitted'[k] = emitted[k] /\ sats'[k] = d
        BY <2>10, <3>3
      <4>2. Timely(d, k[2], emitted[k])
        BY <2>2, <2>5 DEF Timely
      <4> QED
        BY <2>2, <2>5, <3>3, <4>1, <4>2 DEF Unfinished
    <3> QED
      BY <3>1, <3>2, <3>3
  <2> QED
    BY <2>8, <2>11, <2>12 DEF DsmInv
<1> QED
  BY <1>1, <1>2

(* Every state keeps the inductive invariant.                              *)
THEOREM DsmInvariance == Spec => []DsmInv
  BY InitDsmInv, NextDsmInv, PTL DEF Spec

-----------------------------------------------------------------------------
(* A message has the blocks its block 0 declares, as they were received.   *)
LEMMA MessageBlocks ==
    ASSUME NEW a \in Assemblies, NEW p, NEW id, IsComplete(a, id)
    PROVE  LET m == Message(p, id, a)
               n == NumberOfBlocks(id, a.blocks[0].nb)
           IN  /\ n \in Nat \ {0} /\ m.prn = p /\ m.id = id
               /\ DOMAIN m.blocks = 0 .. (n - 1)
               /\ \A b \in 0 .. (n - 1) : b \in Received(a) /\ m.blocks[b] = a.blocks[b]
               /\ NumberOfBlocks(m.id, m.blocks[0].nb) = n
<1> DEFINE n == NumberOfBlocks(id, a.blocks[0].nb)
<1> DEFINE m == Message(p, id, a)
<1>1. 0 \in Received(a) /\ n > 0 /\ \A b \in 0 .. (n - 1) : b \in Received(a)
  BY DEF IsComplete
<1>2. n \in Int
  <2>1. KrootNbs \subseteq Nat /\ PkrNbs \subseteq Nat /\ NbOffset \in Nat
    BY SizesAssumption
  <2> DEFINE nb == a.blocks[0].nb
  <2> DEFINE nbs == IF id \in KrootIds THEN KrootNbs ELSE PkrNbs
  <2> HIDE DEF nb, nbs
  <2>2. nbs \subseteq Nat
    BY <2>1 DEF nbs
  <2>3. n = IF nb \in nbs THEN nb + NbOffset ELSE -1
    BY DEF NumberOfBlocks, nb, nbs
  <2> HIDE DEF n
  <2>4. CASE nb \in nbs
    BY <2>1, <2>2, <2>3, <2>4
  <2>5. CASE nb \notin nbs
    BY <2>3, <2>5
  <2> QED
    BY <2>4, <2>5
<1> HIDE DEF n
<1>3. n \in Nat \ {0} /\ 0 \in 0 .. (n - 1)
  BY <1>1, <1>2
<1>4. m = [prn |-> p, id |-> id, blocks |-> [b \in 0 .. (n - 1) |-> a.blocks[b]]]
  BY DEF Message, n
<1>5. /\ m.prn = p /\ m.id = id /\ DOMAIN m.blocks = 0 .. (n - 1)
      /\ \A b \in 0 .. (n - 1) : m.blocks[b] = a.blocks[b]
  BY <1>4
<1>6. NumberOfBlocks(m.id, m.blocks[0].nb) = n
  BY <1>3, <1>5 DEF n
<1> QED
  BY <1>1, <1>3, <1>5, <1>6 DEF n

(* A message returned by a step is the assembly the step fed, which was    *)
(* timely.                                                                 *)
LEMMA StepMessage ==
    ASSUME DsmInv, Next, message' # NoMessage
    PROVE  \E k \in Keys, a \in Assemblies :
              /\ message' = Message(k[1], k[2], a) /\ IsComplete(a, k[2])
              /\ Timely(a, k[2], emitted[k]) /\ k = <<k[1], k[2]>>
              /\ a.first \in Nat
<1>1. PICK k \in Keys, b \in BlockIds, block \in Blocks : BlockFed(k, b, block)
  BY StepFeedsBlock
<1> DEFINE a == Extended(k, b, block)
<1>2. a \in Assemblies /\ Timely(a, k[2], emitted[k])
  BY <1>1, ExtendedTimely DEF BlockFed
<1>3. message' = Message(k[1], k[2], a) /\ IsComplete(a, k[2])
  BY <1>1 DEF BlockFed
<1>4. k = <<k[1], k[2]>>
  BY DEF Keys
<1> HIDE DEF a
<1>5. a.first \in Nat
  BY <1>2 DEF Assemblies, Epochs
<1> QED
  BY <1>2, <1>3, <1>4, <1>5

(* A message handed to the decoder has exactly the blocks its block 0      *)
(* declares (BuildIfComplete), for every number of blocks and any order.   *)
THEOREM WholeMessages == Spec => []MessagesAreWhole
<1>1. Init => MessagesAreWhole
  BY DEF Init, MessagesAreWhole
<1>2. DsmInv /\ MessagesAreWhole /\ [Next]_vars => MessagesAreWhole'
  <2> SUFFICES ASSUME DsmInv, MessagesAreWhole, Next, message' # NoMessage
               PROVE  MessagesAreWhole'
    BY DEF MessagesAreWhole, vars
  <2>1. PICK k \in Keys, a \in Assemblies :
            message' = Message(k[1], k[2], a) /\ IsComplete(a, k[2])
    BY StepMessage
  <2> DEFINE m == Message(k[1], k[2], a)
  <2> DEFINE n == NumberOfBlocks(k[2], a.blocks[0].nb)
  <2>2. /\ n \in Nat \ {0}
        /\ DOMAIN m.blocks = 0 .. (n - 1)
        /\ \A b \in 0 .. (n - 1) : b \in Received(a) /\ m.blocks[b] = a.blocks[b]
        /\ NumberOfBlocks(m.id, m.blocks[0].nb) = n
    BY <2>1, MessageBlocks
  <2> HIDE DEF m, n
  <2>3. \A b \in 0 .. (n - 1) : m.blocks[b] # NoBlock
    BY <2>2 DEF Received
  <2>4. message' = m
    BY <2>1 DEF m
  <2> QED
    BY <2>2, <2>3, <2>4 DEF MessagesAreWhole
<1> QED
  BY <1>1, <1>2, DsmInvariance, PTL DEF Spec

(***************************************************************************)
(* What was heard since the last message or expiry is what the unfinished  *)
(* assembly holds: nothing of it was dropped, and nothing it had to drop   *)
(* is counted.  An unfinished assembly is not complete (DsmInv), so what   *)
(* was heard does not make up a message.                                   *)
(***************************************************************************)
Agrees(h, a) ==
    /\ ~a.active \/ a.done => h.ids = {}
    /\ a.active /\ ~a.done => /\ h.ids # {} /\ h.ids = Received(a) /\ h.first = a.first
                              /\ 0 \in h.ids => h.nb = a.blocks[0].nb

HeardInv ==
    /\ DOMAIN heard = Keys /\ heard = [k \in Keys |-> heard[k]]
    /\ \A k \in Keys : Agrees(heard[k], sats[k])

LEMMA NothingWholeHeard == DsmInv /\ HeardInv => HeardIsHandedOver
<1> SUFFICES ASSUME DsmInv, HeardInv, NEW k \in Keys, HeardWhole(heard[k], k[2])
             PROVE  FALSE
  BY DEF HeardIsHandedOver, Keys
<1>1. Agrees(heard[k], sats[k]) /\ 0 \in heard[k].ids
  BY DEF HeardInv, HeardWhole
<1>2. /\ ~sats[k].done /\ heard[k].ids = Received(sats[k])
      /\ heard[k].nb = sats[k].blocks[0].nb
  BY <1>1 DEF Agrees
<1>3. IsComplete(sats[k], k[2])
  BY <1>1, <1>2 DEF HeardWhole, IsComplete
<1> QED
  BY <1>2, <1>3 DEF DsmInv, Unfinished

(* A listener starts anew exactly when the assembly does.                  *)
LEMMA HearAgrees ==
    ASSUME DsmInv, NEW k \in Keys, NEW b \in BlockIds, NEW block \in Blocks, NEW h,
           Agrees(h, sats[k])
    PROVE  LET e == Hear(h, k[2], b, block)
               a == Extended(k, b, block)
           IN  /\ e.ids # {} /\ e.ids = Received(a) /\ e.first = a.first
               /\ 0 \in e.ids => e.nb = a.blocks[0].nb
<1> DEFINE c == CurrentAssembly(sats[k], k[2], block.epoch)
<1> DEFINE a == [c EXCEPT !.blocks[b] = block]
<1> DEFINE over == h.ids = {} \/ block.epoch - h.first >= MaximumAssemblyAge(k[2])
<1> DEFINE kept == IF over THEN [NothingHeard EXCEPT !.first = block.epoch] ELSE h
<1> DEFINE e == Hear(h, k[2], b, block)
<1>1. sats[k] \in Assemblies /\ block.epoch \in Epochs /\ block # NoBlock
  BY DEF DsmInv, DsmTypeOK, Blocks, NoBlock, Epochs
<1>2. c \in Assemblies
  BY <1>1, CurrentAssemblyTyped
<1>3. /\ kept.ids = Received(c) /\ kept.first = c.first
      /\ 0 \in kept.ids => kept.nb = c.blocks[0].nb
  <2>1. CASE ~sats[k].active \/ sats[k].done \/ IsExpired(sats[k], k[2], block.epoch)
    <3>1. over
      BY <2>1 DEF Agrees, IsExpired
    <3>2. kept.ids = {} /\ kept.first = block.epoch
      BY <3>1 DEF NothingHeard
    <3>3. c = [Idle EXCEPT !.active = TRUE, !.first = block.epoch]
      BY <2>1 DEF CurrentAssembly
    <3>4. c.first = block.epoch /\ c.blocks = Idle.blocks
      BY <3>3 DEF Idle
    <3>5. Received(c) = {}
      BY <3>4, IdleAssembly DEF Received
    <3> QED
      BY <3>2, <3>4, <3>5
  <2>2. CASE ~(~sats[k].active \/ sats[k].done \/ IsExpired(sats[k], k[2], block.epoch))
    <3>1. c = sats[k] /\ sats[k].active /\ ~sats[k].done
      BY <2>2 DEF CurrentAssembly
    <3>2. ~over
      BY <2>2, <3>1 DEF Agrees, IsExpired
    <3> QED
      BY <3>1, <3>2 DEF Agrees
  <2> QED
    BY <2>1, <2>2
<1>4. e = [kept EXCEPT !.ids = @ \cup {b}, !.nb = IF b = 0 THEN block.nb ELSE @]
  BY DEF Hear
<1>5. /\ a.first = c.first
      /\ \A x \in BlockIds : a.blocks[x] = IF x = b THEN block ELSE c.blocks[x]
  BY <1>2 DEF Assemblies
<1>6. Received(a) = Received(c) \cup {b}
  BY <1>1, <1>5 DEF Received
<1>7. 0 \in BlockIds
  BY SizesAssumption DEF BlockIds
<1> QED
  BY <1>3, <1>4, <1>5, <1>6, <1>7 DEF Extended

LEMMA InitHeardInv == Init => HeardInv
  BY DEF Init, HeardInv, Agrees, Idle, NothingHeard, Keys

LEMMA NextHeardInv == DsmInv /\ HeardInv /\ [Next]_vars => HeardInv'
<1> SUFFICES ASSUME DsmInv, HeardInv, [Next]_vars PROVE HeardInv'
  OBVIOUS
<1>1. CASE UNCHANGED vars
  <2>1. heard' = heard /\ sats' = sats
    BY <1>1 DEF vars
  <2> QED
    BY <2>1 DEF HeardInv
<1>2. CASE Next
  <2>1. PICK k \in Keys, b \in BlockIds, block \in Blocks : BlockFed(k, b, block)
    BY <1>2, StepFeedsBlock
  <2> DEFINE a == Extended(k, b, block)
  <2> DEFINE complete == IsComplete(a, k[2])
  <2> DEFINE d == [a EXCEPT !.done = complete]
  <2> DEFINE e == Hear(heard[k], k[2], b, block)
  <2>2. a \in Assemblies /\ a.active
    BY <2>1, ExtendedTimely DEF BlockFed
  <2>3. complete \in BOOLEAN
    BY DEF IsComplete
  <2>4. /\ d \in Assemblies /\ d.done = complete /\ d.active = a.active
        /\ d.first = a.first /\ d.blocks = a.blocks /\ Received(d) = Received(a)
    BY <2>2, <2>3, CompleteByBlocks
  <2>5. /\ e.ids # {} /\ e.ids = Received(a) /\ e.first = a.first
        /\ 0 \in e.ids => e.nb = a.blocks[0].nb
    BY HearAgrees DEF HeardInv
  <2>6. message' # NoMessage <=> complete
    <3>1. complete => Message(k[1], k[2], a).prn = k[1] /\ Message(k[1], k[2], a) # NoMessage
      BY DEF Message, NoMessage
    <3> QED
      BY <2>1, <3>1 DEF BlockFed
  <2>7. /\ sats' = [sats EXCEPT ![k] = d]
        /\ heard' = [heard EXCEPT ![k] = IF message' # NoMessage THEN NothingHeard ELSE e]
    BY <2>1 DEF BlockFed
  <2> HIDE DEF a, complete, d, e
  <2>8. sats \in [Keys -> Assemblies]
    BY DEF DsmInv, DsmTypeOK
  <2>9. DOMAIN heard' = Keys /\ heard' = [m \in Keys |-> heard'[m]]
    BY <2>7 DEF HeardInv
  <2>10. ASSUME NEW m \in Keys
         PROVE  Agrees(heard'[m], sats'[m])
    <3>1. CASE m # k
      <4>1. heard'[m] = heard[m] /\ sats'[m] = sats[m]
        BY <2>7, <2>8, <3>1 DEF HeardInv
      <4> QED
        BY <4>1 DEF HeardInv
    <3>2. CASE m = k /\ complete
      <4>1. heard'[m] = NothingHeard /\ sats'[m] = d
        BY <2>6, <2>7, <2>8, <3>2 DEF HeardInv
      <4>2. d.done
        BY <2>4, <3>2, Zenon
      <4>3. NothingHeard.ids = {}
        BY DEF NothingHeard
      <4> QED
        BY <4>1, <4>2, <4>3, Zenon DEF Agrees
    <3>3. CASE m = k /\ ~complete
      <4>1. heard'[m] = e /\ sats'[m] = d
        BY <2>6, <2>7, <2>8, <3>3 DEF HeardInv
      <4> QED
        BY <2>2, <2>4, <2>5, <3>3, <4>1 DEF Agrees
    <3> QED
      BY <3>1, <3>2, <3>3
  <2> QED
    BY <2>9, <2>10 DEF HeardInv
<1> QED
  BY <1>1, <1>2

(* Whatever the order of the blocks, a message that was heard whole within *)
(* its retention time has been handed over, for every number of blocks.    *)
THEOREM HeardMessagesLeave == Spec => []HeardIsHandedOver
  BY InitHeardInv, NextHeardInv, NothingWholeHeard, DsmInvariance, PTL DEF Spec

(* The blocks of a message span less than the retention time, apart from   *)
(* what the input itself is late.                                          *)
THEOREM BoundedSpan == Spec => []MessagesSpanRetention
<1>1. Init => MessagesSpanRetention
  BY DEF Init, MessagesSpanRetention
<1>2. DsmInv /\ MessagesSpanRetention /\ [Next]_vars => MessagesSpanRetention'
  <2> SUFFICES ASSUME DsmInv, MessagesSpanRetention, Next, message' # NoMessage
               PROVE  MessagesSpanRetention'
    BY DEF MessagesSpanRetention, vars
  <2>1. PICK k \in Keys, a \in Assemblies :
            /\ message' = Message(k[1], k[2], a) /\ IsComplete(a, k[2])
            /\ Timely(a, k[2], emitted[k]) /\ a.first \in Nat
    BY StepMessage
  <2> DEFINE m == Message(k[1], k[2], a)
  <2>2. /\ m.id = k[2]
        /\ \A b \in DOMAIN m.blocks : b \in Received(a) /\ m.blocks[b] = a.blocks[b]
    BY <2>1, MessageBlocks
  <2> HIDE DEF m
  <2>3. MaximumAssemblyAge(k[2]) \in Nat /\ MaxLateness \in Nat
    BY MaximumAges, SizesAssumption
  <2>4. ASSUME NEW b \in DOMAIN m.blocks
        PROVE  /\ m.blocks[b].epoch \in Nat
               /\ m.blocks[b].epoch - a.first < MaximumAssemblyAge(k[2])
               /\ m.blocks[b].epoch >= a.first - MaxLateness
    <3>1. b \in Received(a) /\ m.blocks[b] = a.blocks[b]
      BY <2>2
    <3>2. a.blocks[b] \in Blocks
      BY <3>1 DEF Received, Assemblies
    <3> QED
      BY <2>1, <3>1, <3>2 DEF Timely, Blocks, Epochs
  <2>5. ASSUME NEW b \in DOMAIN m.blocks, NEW c \in DOMAIN m.blocks
        PROVE  m.blocks[b].epoch - m.blocks[c].epoch
                   < MaximumAssemblyAge(m.id) + MaxLateness
    BY <2>1, <2>2, <2>3, <2>4
  <2>6. message' = m
    BY <2>1 DEF m
  <2> QED
    BY <2>5, <2>6 DEF MessagesSpanRetention
<1> QED
  BY <1>1, <1>2, DsmInvariance, PTL DEF Spec

(* A block is used for one message.                                        *)
THEOREM BlockUsedOnce == Spec => BlocksUsedOnce
<1> DEFINE Step ==
        \A k \in Prns \X DsmIds :
            message' # NoMessage /\ k = <<message'.prn, message'.id>> =>
                \A b \in DOMAIN message'.blocks :
                    message'.blocks[b].epoch >= emitted[k] - MaxLateness
<1>1. DsmInv /\ Next => Step
  <2> SUFFICES ASSUME DsmInv, Next, NEW k \in Keys,
                      message' # NoMessage, k = <<message'.prn, message'.id>>,
                      NEW b \in DOMAIN message'.blocks
               PROVE  message'.blocks[b].epoch >= emitted[k] - MaxLateness
    BY DEF Keys
  <2>1. PICK j \in Keys, a \in Assemblies :
            /\ message' = Message(j[1], j[2], a) /\ IsComplete(a, j[2])
            /\ Timely(a, j[2], emitted[j]) /\ j = <<j[1], j[2]>>
    BY StepMessage
  <2> DEFINE m == Message(j[1], j[2], a)
  <2>2. /\ m.prn = j[1] /\ m.id = j[2]
        /\ \A c \in DOMAIN m.blocks : c \in Received(a) /\ m.blocks[c] = a.blocks[c]
    BY <2>1, MessageBlocks
  <2> HIDE DEF m
  <2>3. message' = m
    BY <2>1 DEF m
  <2>4. k = j
    BY <2>1, <2>2, <2>3
  <2> QED
    BY <2>1, <2>2, <2>3, <2>4 DEF Timely
<1>2. DsmInv /\ [Next]_vars => [Step]_vars
  BY <1>1
<1> QED
  BY <1>2, DsmInvariance, PTL DEF Spec, BlocksUsedOnce

(* No useful block is lost.                                                *)
THEOREM UsefulBlocksSurvive == Spec => UsefulBlocksKept
<1> DEFINE Step ==
        \A k \in Prns \X DsmIds :
            ~sats[k].done /\ now' - sats[k].first < MaximumAssemblyAge(k[2]) =>
                Received(sats[k]) \subseteq Received(sats'[k])
<1>1. DsmInv /\ Next => Step
  <2> SUFFICES ASSUME DsmInv, Next, NEW m \in Keys,
                      ~sats[m].done, now' - sats[m].first < MaximumAssemblyAge(m[2])
               PROVE  Received(sats[m]) \subseteq Received(sats'[m])
    BY DEF Keys
  <2>1. PICK k \in Keys, b \in BlockIds, block \in Blocks : BlockFed(k, b, block)
    BY StepFeedsBlock
  <2> DEFINE a == Extended(k, b, block)
  <2>2. /\ sats \in [Keys -> Assemblies] /\ now \in Nat /\ block.epoch \in Nat
    BY DEF DsmInv, DsmTypeOK, Blocks, Epochs
  <2>3. sats' = [sats EXCEPT ![k] = [a EXCEPT !.done = IsComplete(a, k[2])]]
    BY <2>1 DEF BlockFed
  <2>4. now' >= block.epoch /\ now' \in Nat
    BY <2>1, <2>2 DEF BlockFed
  <2>5. CASE m # k
    BY <2>2, <2>3, <2>5
  <2>6. CASE m = k /\ ~sats[k].active
    BY <2>6 DEF DsmInv
  <2>7. CASE m = k /\ sats[k].active
    <3>1. sats[k] \in Assemblies /\ sats[k].first \in Nat
      BY <2>2 DEF Assemblies, Epochs
    <3>2. ~IsExpired(sats[k], k[2], block.epoch)
      BY <2>2, <2>4, <2>7, <3>1, MaximumAges DEF IsExpired
    <3>3. CurrentAssembly(sats[k], k[2], block.epoch) = sats[k]
      BY <2>7, <3>2 DEF CurrentAssembly
    <3>4. a = [sats[k] EXCEPT !.blocks[b] = block]
      BY <3>3 DEF Extended
    <3>5. a \in Assemblies /\ a.blocks = [sats[k].blocks EXCEPT ![b] = block]
      BY <3>1, <3>4 DEF Assemblies
    <3>6. block # NoBlock
      BY DEF Blocks, Epochs, NoBlock
    <3>7. Received(sats[k]) \subseteq Received(a)
      BY <3>1, <3>5, <3>6 DEF Received, Assemblies
    <3> HIDE DEF a
    <3>8. IsComplete(a, k[2]) \in BOOLEAN
      BY DEF IsComplete
    <3>9. Received([a EXCEPT !.done = IsComplete(a, k[2])]) = Received(a)
      BY <3>5, <3>8, CompleteByBlocks
    <3>10. sats'[k] = [a EXCEPT !.done = IsComplete(a, k[2])]
      BY <2>2, <2>3
    <3> QED
      BY <2>7, <3>7, <3>9, <3>10
  <2> QED
    BY <2>5, <2>6, <2>7
<1>2. DsmInv /\ [Next]_vars => [Step]_vars
  BY <1>1
<1> QED
  BY <1>2, DsmInvariance, PTL DEF Spec, UsefulBlocksKept
=============================================================================

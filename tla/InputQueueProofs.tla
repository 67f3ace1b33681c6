-------------------------- MODULE InputQueueProofs --------------------------
(***************************************************************************)
(* What the input path guarantees for any number of packet holders, any    *)
(* bound of the queue and any sets of buttons, sticks and key codes, until *)
(* a packet is discarded: the packet that `current` points at is the       *)
(* newest controller packet and on its way, only its sticks are updated,   *)
(* and the host's pad will be the last reading.                            *)
(***************************************************************************)
EXTENDS InputQueue, TLAPS

\* A holder has one owner.
Ownership ==
  /\ \A i, j \in DOMAIN queue : queue[i] = queue[j] => i = j
  /\ mine # None => mine # out /\ \A i \in DOMAIN queue : queue[i] # mine
  /\ out # None => \A i \in DOMAIN queue : queue[i] # out

\* What the positions of the threads imply.
Positions ==
  /\ mine # None <=> pc \in {"offer", "keyOffer"}
  /\ out # None <=> sender \in {"latch", "send"}
  /\ stream = "off" => queue = <<>> /\ sender = "none"
  /\ pc = "keyFill" => key \in KeyEvent

\* A key packet names a key.
Named == \A c \in Cells : cell[c].kind = "key" => cell[c].key \in Keys

\* No controller packet waits behind the i-th of the queue.
Newest(i) == \A j \in DOMAIN queue : j > i => ~IsPad(queue[j])

\* The packet to update is the newest controller packet; a packet that is being
\* offered holds the event.
Batch ==
  ~lost =>
    /\ current # None =>
         /\ IsPad(current) /\ OnItsWay(current)
         /\ \A i \in DOMAIN queue : queue[i] = current => Newest(i)
         /\ current = out => Newest(0)
    /\ pc = "offer" => current = mine /\ PadOf(mine) = ev
    /\ pc = "keyOffer" => ~IsPad(mine)

\* The reading the host is to be told of.
Reading == IF pc = "state" THEN ev ELSE g_pad_state

\* The newest controller packet holds it, or the host has it.
Truth ==
  ~lost /\ stream = "open" /\ sender # "none" /\ told =>
    /\ \A i \in DOMAIN queue : IsPad(queue[i]) /\ Newest(i) => PadOf(queue[i]) = Reading
    /\ out # None /\ IsPad(out) /\ Newest(0) => PadOf(out) = Reading
    /\ Newest(0) /\ (out = None \/ ~IsPad(out)) => hostPad = Reading

IInv == TypeOK /\ Named /\ Ownership /\ Positions /\ Batch /\ Truth

-----------------------------------------------------------------------------
(* Types. *)

LEMMA VkType ==
  ASSUME NEW codes \in SUBSET Codes
  PROVE  {Vk(c) : c \in codes} \ {NoKey} \in SUBSET Keys
  BY DEF Keys

LEMMA BlankType == Blank \in Packet /\ Neutral \in Pad
  BY InputAssumption DEF Blank, Packet, Neutral, Pad

LEMMA PadPacket ==
  ASSUME NEW p \in Packet, NEW e \in Pad
  PROVE  LET q == [p EXCEPT !.kind = "pad", !.buttons = e.buttons, !.axis = e.axis] IN
         /\ q \in Packet
         /\ q.kind = "pad" /\ q.buttons = e.buttons /\ q.axis = e.axis
         /\ p.kind = "pad" /\ p.buttons = e.buttons => q = [p EXCEPT !.axis = e.axis]
<1> DEFINE q == [p EXCEPT !.kind = "pad", !.buttons = e.buttons, !.axis = e.axis]
<1>1. q \in Packet /\ q.kind = "pad" /\ q.buttons = e.buttons /\ q.axis = e.axis
  BY DEF Packet, Pad
<1>2. ASSUME p.kind = "pad", p.buttons = e.buttons PROVE q = [p EXCEPT !.axis = e.axis]
  BY <1>2 DEF Packet, Pad
<1> QED BY <1>1, <1>2

LEMMA KeyPacket ==
  ASSUME NEW p \in Packet, NEW e \in KeyEvent
  PROVE  /\ [p EXCEPT !.kind = "key", !.key = e.key, !.down = e.down] \in Packet
         /\ [p EXCEPT !.kind = "key", !.key = e.key, !.down = e.down].kind = "key"
  BY DEF Packet, KeyEvent

LEMMA FreedType ==
  ASSUME TypeOK, NEW cs
  PROVE  Freed(cs) \in [Cells -> Packet]
  BY BlankType DEF Freed, TypeOK

LEMMA QueueType ==
  ASSUME TypeOK
  PROVE  /\ \A i \in DOMAIN queue : queue[i] \in Cells
         /\ DOMAIN queue = 1 .. Len(queue) /\ Len(queue) \in Nat
         /\ ToSet(queue) = {queue[i] : i \in DOMAIN queue}
  BY DEF TypeOK, ToSet

LEMMA OfferType ==
  ASSUME TypeOK, mine \in Cells, Offer
  PROVE  /\ queue' \in Seq(Cells) /\ Len(queue') \in 0 .. QueueMax
         /\ cell' \in [Cells -> Packet] /\ lost' \in BOOLEAN
<1>1. CASE Offered
  BY <1>1, InputAssumption DEF Offer, Offered, TypeOK
<1>2. CASE ~Offered
  BY <1>2, FreedType DEF Offer, TypeOK
<1> QED BY <1>1, <1>2

LEMMA TypeInput ==
  ASSUME TypeOK, Positions, InputThread
  PROVE  TypeOK'
<1> USE DEF inputVars, hostVars
<1>1. CASE PadPoll
  BY <1>1 DEF TypeOK, PadPoll
<1>2. CASE SendCheck
  BY <1>2 DEF TypeOK, SendCheck
<1>3. CASE SendBatch
  <2>1. CASE Compatible
    <3>1. cell' = [cell EXCEPT ![current] =
                     [@ EXCEPT !.kind = "pad", !.buttons = ev.buttons, !.axis = ev.axis]]
      BY <1>3, <2>1 DEF SendBatch
    <3>2. current \in Cells /\ cell[current] \in Packet /\ ev \in Pad
      BY <2>1 DEF Compatible, TypeOK
    <3>3. cell' \in [Cells -> Packet]
      BY <3>1, <3>2, PadPacket DEF TypeOK
    <3> QED BY <1>3, <2>1, <3>3 DEF TypeOK, SendBatch
  <2>2. CASE ~Compatible
    BY <1>3, <2>2 DEF TypeOK, SendBatch
  <2> QED BY <2>1, <2>2
<1>4. CASE SendFill
  <2>1. CASE QueuesOpen
    <3>1. PICK c \in Free :
            /\ mine' = c /\ current' = c
            /\ cell' = [cell EXCEPT ![c] = [Blank EXCEPT !.kind = "pad",
                                              !.buttons = ev.buttons, !.axis = ev.axis]]
      BY <1>4, <2>1 DEF SendFill
    <3>2. c \in Cells
      BY DEF Free
    <3>3. cell' \in [Cells -> Packet]
      BY <3>1, <3>2, BlankType, PadPacket DEF TypeOK
    <3> QED BY <1>4, <2>1, <3>1, <3>2, <3>3 DEF TypeOK, SendFill
  <2>2. CASE ~QueuesOpen
    BY <1>4, <2>2 DEF TypeOK, SendFill
  <2> QED BY <2>1, <2>2
<1>5. CASE SendOffer
  <2>1. mine \in Cells
    BY <1>5 DEF SendOffer, Positions, TypeOK
  <2>2. told' \in BOOLEAN
    BY <1>5 DEF SendOffer, TypeOK, Offered
  <2> QED BY <1>5, <2>1, <2>2, OfferType DEF TypeOK, SendOffer
<1>6. CASE PadState
  BY <1>6, BlankType DEF TypeOK, PadState
<1>7. CASE KeyRead
  <2>1. PICK codes \in SUBSET Codes :
          LET pressed == {Vk(c) : c \in codes} \ {NoKey} IN
          /\ todo' = [key : pressed \ last_keys, down : {TRUE}]
                       \cup [key : last_keys \ pressed, down : {FALSE}]
          /\ last_keys' = pressed
    BY <1>7 DEF KeyRead
  <2>2. last_keys' \in SUBSET Keys
    BY <2>1, VkType
  <2>3. todo' = [key : last_keys' \ last_keys, down : {TRUE}]
                  \cup [key : last_keys \ last_keys', down : {FALSE}]
    BY <2>1
  <2>4. todo' \in SUBSET KeyEvent
    BY <2>2, <2>3 DEF KeyEvent, TypeOK
  <2> QED BY <1>7, <2>2, <2>4 DEF TypeOK, KeyRead
<1>8. CASE KeyNext
  BY <1>8 DEF TypeOK, KeyNext
<1>9. CASE KeyFill
  <2>1. CASE QueuesOpen
    <3>1. PICK c \in Free :
            /\ mine' = c
            /\ cell' = [cell EXCEPT ![c] = [@ EXCEPT !.kind = "key", !.key = key.key,
                                                     !.down = key.down]]
      BY <1>9, <2>1 DEF KeyFill
    <3>2. c \in Cells
      BY DEF Free
    <3>3. key \in KeyEvent
      BY <1>9 DEF KeyFill, Positions
    <3>4. cell' \in [Cells -> Packet]
      BY <3>1, <3>2, <3>3, KeyPacket DEF TypeOK
    <3> QED BY <1>9, <2>1, <3>1, <3>2, <3>4 DEF TypeOK, KeyFill
  <2>2. CASE ~QueuesOpen
    BY <1>9, <2>2 DEF TypeOK, KeyFill
  <2> QED BY <2>1, <2>2
<1>10. CASE KeyOffer
  <2>1. mine \in Cells
    BY <1>10 DEF KeyOffer, Positions, TypeOK
  <2> QED BY <1>10, <2>1, OfferType DEF TypeOK, KeyOffer
<1> QED BY <1>1, <1>2, <1>3, <1>4, <1>5, <1>6, <1>7, <1>8, <1>9, <1>10 DEF InputThread

LEMMA TypeSend ==
  ASSUME TypeOK, Named, Positions, InputSend
  PROVE  TypeOK'
<1> USE DEF inputVars, hostVars
<1>1. CASE SenderTake
  <2>1. queue' \in Seq(Cells) /\ Len(queue') = Len(queue) - 1 /\ Len(queue) > 0
    BY <1>1 DEF TypeOK, SenderTake
  <2>2. out' \in Cells
    BY <1>1 DEF TypeOK, SenderTake
  <2>3. Len(queue') \in 0 .. QueueMax
    BY <2>1, InputAssumption DEF TypeOK
  <2> QED BY <1>1, <2>1, <2>2, <2>3 DEF TypeOK, SenderTake
<1>2. CASE SenderLatch
  BY <1>2 DEF TypeOK, SenderLatch
<1>3. CASE SenderSend
  <2>1. out \in Cells
    BY <1>3 DEF TypeOK, Positions, SenderSend
  <2>2. cell[out] \in Packet
    BY <2>1 DEF TypeOK
  <2>3. hostPad' \in Pad
    BY <1>3, <2>2 DEF SenderSend, TypeOK, Packet, Pad
  <2>4. hostKeys' \in SUBSET Keys
    <3>1. CASE cell[out].kind # "key"
      BY <1>3, <3>1 DEF SenderSend, TypeOK
    <3>2. CASE cell[out].kind = "key"
      BY <1>3, <2>1, <3>2 DEF SenderSend, TypeOK, Named
    <3> QED BY <3>1, <3>2
  <2>5. cell' \in [Cells -> Packet]
    BY <1>3, FreedType DEF SenderSend
  <2> QED BY <1>3, <2>3, <2>4, <2>5 DEF TypeOK, SenderSend
<1>4. CASE SenderFail
  BY <1>4, FreedType DEF TypeOK, SenderFail
<1>5. CASE SenderExit
  BY <1>5 DEF TypeOK, SenderExit
<1> QED BY <1>1, <1>2, <1>3, <1>4, <1>5 DEF InputSend

LEMMA TypeMain ==
  ASSUME TypeOK, Main
  PROVE  TypeOK'
<1> USE DEF inputVars, hostVars
<1>1. CASE Start
  <2>1. queue' \in Seq(Cells) /\ Len(queue') = 0
    BY <1>1 DEF Start
  <2>2. Len(queue') \in 0 .. QueueMax
    BY <2>1, InputAssumption
  <2> QED BY <1>1, <2>1, <2>2, BlankType DEF TypeOK, Start
<1>2. CASE StopFlag
  BY <1>2 DEF TypeOK, StopFlag
<1>3. CASE StopDrain
  BY <1>3 DEF TypeOK, StopDrain
<1>4. CASE Stopped
  <2>1. PICK b \in SUBSET Buttons :
          cell' = [c \in Cells |-> IF c = current /\ c # mine
                                   THEN [cell[c] EXCEPT !.buttons = b]
                                   ELSE Freed(ToSet(queue))[c]]
    BY <1>4 DEF Stopped
  <2>2. \A p \in Packet : [p EXCEPT !.buttons = b] \in Packet
    BY DEF Packet
  <2>3. cell' \in [Cells -> Packet]
    BY <2>1, <2>2, FreedType DEF TypeOK
  <2> QED BY <1>4, <2>3, InputAssumption DEF TypeOK, Stopped
<1> QED BY <1>1, <1>2, <1>3, <1>4 DEF Main

-----------------------------------------------------------------------------
(* Names, owners and positions. *)

\* What Freed leaves of a packet.
LEMMA FreedCell ==
  ASSUME TypeOK, NEW cs, NEW c \in Cells
  PROVE  /\ Freed(cs)[c] \in {cell[c], Blank}
         /\ c \notin cs \/ c = current => Freed(cs)[c] = cell[c]
  BY DEF Freed

LEMMA NamedStep ==
  ASSUME TypeOK, Named, Positions, Next
  PROVE  Named'
<1> USE DEF inputVars, hostVars
<1>1. Blank.kind # "key"
  BY DEF Blank
<1>2. ASSUME NEW cs, cell' = Freed(cs) PROVE Named'
  BY <1>1, <1>2, FreedCell DEF Named
<1>3. CASE UNCHANGED cell
  BY <1>3 DEF Named
<1>4. CASE SendBatch
  <2>1. CASE Compatible
    <3>1. cell' = [cell EXCEPT ![current] =
                     [@ EXCEPT !.kind = "pad", !.buttons = ev.buttons, !.axis = ev.axis]]
      BY <1>4, <2>1 DEF SendBatch
    <3>2. current \in Cells /\ cell[current] \in Packet /\ ev \in Pad
      BY <2>1 DEF Compatible, TypeOK
    <3>3. cell'[current].kind = "pad" /\ \A c \in Cells \ {current} : cell'[c] = cell[c]
      BY <3>1, <3>2, PadPacket DEF TypeOK
    <3> QED BY <3>3 DEF Named
  <2> QED BY <1>3, <1>4, <2>1 DEF SendBatch
<1>5. CASE SendFill
  <2>1. CASE QueuesOpen
    <3>1. PICK c \in Free :
            cell' = [cell EXCEPT ![c] = [Blank EXCEPT !.kind = "pad",
                                           !.buttons = ev.buttons, !.axis = ev.axis]]
      BY <1>5, <2>1 DEF SendFill
    <3>2. c \in Cells /\ ev \in Pad
      BY DEF Free, TypeOK
    <3>3. cell'[c].kind = "pad" /\ \A d \in Cells \ {c} : cell'[d] = cell[d]
      BY <3>1, <3>2, BlankType, PadPacket DEF TypeOK
    <3> QED BY <3>3 DEF Named
  <2> QED BY <1>3, <1>5, <2>1 DEF SendFill
<1>6. CASE KeyFill
  <2>1. CASE QueuesOpen
    <3>1. PICK c \in Free :
            cell' = [cell EXCEPT ![c] = [@ EXCEPT !.kind = "key", !.key = key.key,
                                                  !.down = key.down]]
      BY <1>6, <2>1 DEF KeyFill
    <3>2. c \in Cells /\ cell[c] \in Packet /\ key \in KeyEvent
      BY <1>6 DEF Free, TypeOK, KeyFill, Positions
    <3>3. /\ cell'[c].key = key.key
          /\ \A d \in Cells \ {c} : cell'[d] = cell[d]
      BY <3>1, <3>2 DEF TypeOK, Packet
    <3> QED BY <3>2, <3>3 DEF Named, KeyEvent
  <2> QED BY <1>3, <1>6, <2>1 DEF KeyFill
<1>7. CASE Stopped
  <2>1. PICK b \in SUBSET Buttons :
          cell' = [c \in Cells |-> IF c = current /\ c # mine
                                   THEN [cell[c] EXCEPT !.buttons = b]
                                   ELSE Freed(ToSet(queue))[c]]
    BY <1>7 DEF Stopped
  <2>2. \A p \in Packet : LET q == [p EXCEPT !.buttons = b] IN q.kind = p.kind /\ q.key = p.key
    BY DEF Packet
  <2>3. \A c \in Cells : /\ cell'[c].kind = "key" => cell[c].kind = "key"
                         /\ cell'[c].kind = "key" => cell'[c].key = cell[c].key
    BY <1>1, <2>1, <2>2, FreedCell DEF TypeOK
  <2> QED BY <2>3 DEF Named
<1>8. CASE SendOffer \/ KeyOffer
  BY <1>2, <1>3, <1>8 DEF SendOffer, KeyOffer, Offer
<1>9. CASE SenderSend \/ SenderFail
  BY <1>2, <1>9 DEF SenderSend, SenderFail
<1>10. CASE PadPoll \/ SendCheck \/ PadState \/ KeyRead \/ KeyNext
  BY <1>3, <1>10 DEF PadPoll, SendCheck, PadState, KeyRead, KeyNext
<1>11. CASE SenderTake \/ SenderLatch \/ SenderExit \/ Start \/ StopFlag \/ StopDrain
  BY <1>3, <1>11 DEF SenderTake, SenderLatch, SenderExit, Start, StopFlag, StopDrain
<1> QED BY <1>4, <1>5, <1>6, <1>7, <1>8, <1>9, <1>10, <1>11
        DEF Next, InputThread, InputSend, Main

LEMMA PositionsStep ==
  ASSUME TypeOK, Positions, Next
  PROVE  Positions'
<1> USE InputAssumption DEF inputVars, hostVars, Positions, TypeOK
<1>1. CASE InputThread
  <2>1. CASE SendFill \/ KeyFill
    BY <2>1 DEF SendFill, KeyFill, Free, QueuesOpen
  <2>2. CASE SendOffer \/ KeyOffer
    BY <2>2 DEF SendOffer, KeyOffer, Offer, Offered, QueuesOpen
  <2>3. CASE KeyNext
    BY <2>3 DEF KeyNext
  <2>4. CASE PadPoll \/ SendCheck \/ SendBatch \/ PadState \/ KeyRead
    BY <2>4 DEF PadPoll, SendCheck, SendBatch, PadState, KeyRead
  <2> QED BY <1>1, <2>1, <2>2, <2>3, <2>4 DEF InputThread
<1>2. CASE InputSend
  <2>1. CASE SenderTake
    <3>1. Head(queue) \in Cells
      BY <2>1 DEF SenderTake
    <3> QED BY <2>1, <3>1 DEF SenderTake
  <2>2. CASE SenderLatch \/ SenderSend \/ SenderFail \/ SenderExit
    BY <2>2 DEF SenderLatch, SenderSend, SenderFail, SenderExit
  <2> QED BY <1>2, <2>1, <2>2 DEF InputSend
<1>3. CASE Main
  BY <1>3 DEF Main, Start, StopFlag, StopDrain, Stopped
<1> QED BY <1>1, <1>2, <1>3 DEF Next

LEMMA OwnershipStep ==
  ASSUME TypeOK, Ownership, Positions, Next
  PROVE  Ownership'
<1> USE DEF inputVars, hostVars
<1>1. CASE UNCHANGED <<mine, out, queue>>
  BY <1>1 DEF Ownership
<1>2. CASE SendFill \/ KeyFill
  <2>1. CASE QueuesOpen
    <3>1. mine' \in Free /\ UNCHANGED <<queue, out>>
      BY <1>2, <2>1 DEF SendFill, KeyFill
    <3>2. mine' # out' /\ \A i \in DOMAIN queue' : queue'[i] # mine'
      BY <3>1, QueueType DEF Free, Used
    <3> QED BY <3>1, <3>2 DEF Ownership
  <2> QED BY <1>1, <1>2, <2>1 DEF SendFill, KeyFill
<1>3. CASE SendOffer \/ KeyOffer
  <2>1. mine' = None /\ UNCHANGED out /\ mine \in Cells
    BY <1>3 DEF SendOffer, KeyOffer, Positions, TypeOK
  <2>2. CASE UNCHANGED queue
    BY <2>1, <2>2 DEF Ownership
  <2>3. CASE queue' = Append(queue, mine)
    <3>1. /\ DOMAIN queue' = 1 .. Len(queue) + 1
          /\ \A i \in 1 .. Len(queue) + 1 :
               queue'[i] = IF i = Len(queue) + 1 THEN mine ELSE queue[i]
      BY <2>1, <2>3, QueueType DEF TypeOK
    <3>2. mine # None
      BY <2>1, InputAssumption
    <3> QED BY <2>1, <3>1, <3>2, QueueType DEF Ownership
  <2> QED BY <1>3, <2>2, <2>3 DEF SendOffer, KeyOffer, Offer
<1>4. CASE SenderTake
  <2>1. /\ out' = queue[1] /\ UNCHANGED mine
        /\ DOMAIN queue' = 1 .. Len(queue) - 1 /\ Len(queue) > 0
        /\ \A i \in 1 .. Len(queue) - 1 : queue'[i] = queue[i + 1]
    BY <1>4 DEF SenderTake, TypeOK
  <2>2. mine # None => mine # queue[1]
    BY <2>1, QueueType DEF Ownership
  <2>3. \A i, j \in DOMAIN queue' : queue'[i] = queue'[j] => i = j
    <3> SUFFICES ASSUME NEW i \in DOMAIN queue', NEW j \in DOMAIN queue',
                        queue'[i] = queue'[j]
                 PROVE  i = j
      OBVIOUS
    <3>1. i + 1 \in DOMAIN queue /\ j + 1 \in DOMAIN queue
      BY <2>1, QueueType
    <3>2. i + 1 = j + 1
      BY <2>1, <3>1 DEF Ownership
    <3> QED BY <2>1, <3>2, QueueType
  <2>4. \A i \in DOMAIN queue' : i + 1 \in DOMAIN queue /\ 1 \in DOMAIN queue /\ i + 1 # 1
    BY <2>1, QueueType
  <2>5. \A i \in DOMAIN queue' : queue'[i] # out' /\ (mine # None => queue'[i] # mine)
    BY <2>1, <2>4 DEF Ownership
  <2> QED BY <2>1, <2>2, <2>3, <2>5 DEF Ownership
<1>5. CASE SenderSend \/ SenderFail
  BY <1>5 DEF SenderSend, SenderFail, Ownership, TypeOK
<1>6. CASE Start \/ Stopped
  BY <1>6 DEF Start, Stopped, Ownership
<1>7. CASE PadPoll \/ SendCheck \/ SendBatch \/ PadState \/ KeyRead \/ KeyNext
  BY <1>1, <1>7 DEF PadPoll, SendCheck, SendBatch, PadState, KeyRead, KeyNext
<1>8. CASE SenderLatch \/ SenderExit \/ StopFlag \/ StopDrain
  BY <1>1, <1>8 DEF SenderLatch, SenderExit, StopFlag, StopDrain
<1> QED BY <1>2, <1>3, <1>4, <1>5, <1>6, <1>7, <1>8 DEF Next, InputThread, InputSend, Main

-----------------------------------------------------------------------------
(* What a step may write to. *)

\* Only a batched event writes to a packet that is queued, and to one that was taken
\* only a batched event or its sending.
LEMMA Untouched ==
  ASSUME TypeOK, Ownership, Positions, Next, ~SendBatch, ~Stopped
  PROVE  /\ \A i \in DOMAIN queue : cell'[queue[i]] = cell[queue[i]]
         /\ out # None /\ out' = out => cell'[out] = cell[out]
<1> USE DEF inputVars, hostVars
<1>1. CASE UNCHANGED cell
  BY <1>1
<1>2. CASE SendFill \/ KeyFill
  <2>1. CASE QueuesOpen
    <3>1. PICK c \in Free : \A d \in Cells \ {c} : cell'[d] = cell[d]
      BY <1>2, <2>1 DEF SendFill, KeyFill, TypeOK
    <3>2. \A i \in DOMAIN queue : queue[i] # c
      BY <3>1, QueueType DEF Free, Used
    <3>3. out # c
      BY <3>1 DEF Free, Used
    <3> QED BY <3>1, <3>2, <3>3, QueueType DEF TypeOK
  <2> QED BY <1>1, <1>2, <2>1 DEF SendFill, KeyFill
<1>3. CASE SendOffer \/ KeyOffer
  <2>1. mine \in Cells
    BY <1>3 DEF SendOffer, KeyOffer, Positions, TypeOK
  <2>2. CASE cell' = Freed({mine})
    <3>1. \A i \in DOMAIN queue : queue[i] \notin {mine}
      BY <2>1, InputAssumption DEF Ownership
    <3>2. out # None => out \notin {mine}
      BY <2>1, InputAssumption DEF Ownership
    <3>3. \A c \in Cells : c \notin {mine} => cell'[c] = cell[c]
      BY <2>2, FreedCell
    <3> QED BY <3>1, <3>2, <3>3, QueueType DEF TypeOK
  <2> QED BY <1>1, <1>3, <2>2 DEF SendOffer, KeyOffer, Offer
<1>4. CASE SenderSend \/ SenderFail
  <2>1. out' = None /\ cell' = Freed({out}) /\ out # None
    BY <1>4 DEF SenderSend, SenderFail, Positions
  <2>2. \A i \in DOMAIN queue : queue[i] \notin {out}
    BY <2>1 DEF Ownership
  <2>3. \A c \in Cells : c \notin {out} => cell'[c] = cell[c]
    BY <2>1, FreedCell
  <2> QED BY <2>1, <2>2, <2>3, QueueType
<1>5. CASE PadPoll \/ SendCheck \/ PadState \/ KeyRead \/ KeyNext
  BY <1>1, <1>5 DEF PadPoll, SendCheck, PadState, KeyRead, KeyNext
<1>6. CASE SenderTake \/ SenderLatch \/ SenderExit \/ Start \/ StopFlag \/ StopDrain
  BY <1>1, <1>6 DEF SenderTake, SenderLatch, SenderExit, Start, StopFlag, StopDrain
<1> QED BY <1>2, <1>3, <1>4, <1>5, <1>6 DEF Next, InputThread, InputSend, Main

\* A batched event is written to the packet to update.
LEMMA Batched ==
  ASSUME TypeOK, SendBatch, Compatible
  PROVE  /\ current \in Cells
         /\ \A c \in Cells \ {current} : cell'[c] = cell[c]
         /\ IsPad(current)' /\ PadOf(current)' = ev
         /\ IsPad(current) => cell'[current] = [cell[current] EXCEPT !.axis = ev.axis]
<1>1. cell' = [cell EXCEPT ![current] =
                 [@ EXCEPT !.kind = "pad", !.buttons = ev.buttons, !.axis = ev.axis]]
      /\ current' = current
  BY DEF SendBatch
<1>2. current \in Cells /\ cell[current] \in Packet /\ ev \in Pad
  BY DEF Compatible, TypeOK
<1>3. cell'[current] =
        [cell[current] EXCEPT !.kind = "pad", !.buttons = ev.buttons, !.axis = ev.axis]
  BY <1>1, <1>2 DEF TypeOK
<1>4. /\ cell'[current].kind = "pad"
      /\ cell'[current].buttons = ev.buttons /\ cell'[current].axis = ev.axis
  BY <1>2, <1>3 DEF Packet
<1>5. IsPad(current)' /\ PadOf(current)' = ev
  BY <1>1, <1>2, <1>4 DEF IsPad, PadOf, Pad
<1>6. IsPad(current) => cell'[current] = [cell[current] EXCEPT !.axis = ev.axis]
  BY <1>2, <1>3, PadPacket DEF IsPad, Compatible
<1> QED BY <1>1, <1>2, <1>5, <1>6 DEF TypeOK

\* A packet is queued.
LEMMA Queued ==
  ASSUME TypeOK, mine \in Cells, queue' = Append(queue, mine)
  PROVE  /\ DOMAIN queue' = 1 .. Len(queue) + 1
         /\ queue'[Len(queue) + 1] = mine
         /\ \A i \in DOMAIN queue : queue'[i] = queue[i]
         /\ ToSet(queue') = ToSet(queue) \cup {mine}
<1>1. /\ DOMAIN queue' = 1 .. Len(queue) + 1
      /\ \A i \in 1 .. Len(queue) + 1 :
           queue'[i] = IF i = Len(queue) + 1 THEN mine ELSE queue[i]
  BY QueueType DEF TypeOK
<1>2. ToSet(queue') = {queue'[i] : i \in DOMAIN queue'}
  BY DEF ToSet
<1> QED BY <1>1, <1>2, QueueType

\* A packet is taken.
LEMMA Taken ==
  ASSUME TypeOK, SenderTake
  PROVE  /\ 1 \in DOMAIN queue /\ out' = queue[1]
         /\ DOMAIN queue' = 1 .. Len(queue) - 1
         /\ \A i \in DOMAIN queue' : i + 1 \in DOMAIN queue /\ queue'[i] = queue[i + 1]
         /\ ToSet(queue) = ToSet(queue') \cup {out'}
<1>1. /\ out' = queue[1] /\ DOMAIN queue' = 1 .. Len(queue) - 1 /\ Len(queue) > 0
      /\ \A i \in 1 .. Len(queue) - 1 : queue'[i] = queue[i + 1]
  BY DEF SenderTake, TypeOK
<1>2. ASSUME NEW i \in DOMAIN queue, i # 1
      PROVE  i - 1 \in DOMAIN queue' /\ queue[i] = queue'[i - 1]
  <2>1. i - 1 \in 1 .. Len(queue) - 1 /\ (i - 1) + 1 = i
    BY <1>1, <1>2, QueueType
  <2> QED BY <1>1, <2>1
<1>3. ToSet(queue') = {queue'[i] : i \in DOMAIN queue'}
  BY DEF ToSet
<1>4. /\ 1 \in DOMAIN queue
      /\ \A i \in DOMAIN queue' : i + 1 \in DOMAIN queue /\ queue'[i] = queue[i + 1]
  BY <1>1, QueueType
<1>5. ToSet(queue) = ToSet(queue') \cup {out'}
  BY <1>1, <1>2, <1>3, <1>4, QueueType
<1> QED BY <1>1, <1>4, <1>5

-----------------------------------------------------------------------------
(* The packet to update. *)

\* A packet that was discarded stays so.
LEMMA LostStays ==
  ASSUME TypeOK, Next, ~lost'
  PROVE  ~lost
BY DEF TypeOK, Next, InputThread, InputSend, Main, PadPoll, SendCheck, SendBatch, SendFill,
   SendOffer, PadState, KeyRead, KeyNext, KeyFill, KeyOffer, Offer, SenderTake, SenderLatch,
   SenderSend, SenderFail, SenderExit, Start, StopFlag, StopDrain, Stopped

\* The input thread keeps the packet to update the newest on its way.
LEMMA BatchInput ==
  ASSUME TypeOK, Ownership, Positions, Batch, InputThread, ~lost, ~lost'
  PROVE  Batch'
<1> USE DEF inputVars, hostVars
<1>1. CASE PadPoll \/ SendCheck \/ PadState \/ KeyRead \/ KeyNext
  BY <1>1 DEF PadPoll, SendCheck, PadState, KeyRead, KeyNext, Batch, IsPad, PadOf, OnItsWay, Newest
<1>2. CASE SendBatch
  <2>1. CASE Compatible
    <3>1. \A c \in Cells : IsPad(c)' <=> IsPad(c)
      BY <1>2, <2>1, Batched DEF Batch, IsPad, Compatible, SendBatch
    <3>2. /\ pc = "batch" /\ pc' = "state"
          /\ UNCHANGED <<mine, queue, current, sender, out>>
      BY <1>2, <2>1 DEF SendBatch
    <3> QED BY <2>1, <3>1, <3>2, Batched, QueueType, <1>2 DEF Batch, OnItsWay, Newest
  <2>2. CASE ~Compatible
    BY <1>2, <2>2 DEF SendBatch, Batch, IsPad, PadOf, OnItsWay, Newest
  <2> QED BY <2>1, <2>2
<1>3. CASE SendFill
  <2>1. CASE QueuesOpen
    <3>1. PICK c \in Free :
            /\ mine' = c /\ current' = c
            /\ cell' = [cell EXCEPT ![c] = [Blank EXCEPT !.kind = "pad",
                                              !.buttons = ev.buttons, !.axis = ev.axis]]
      BY <1>3, <2>1 DEF SendFill
    <3>2. c \in Cells /\ c # out /\ \A i \in DOMAIN queue : queue[i] # c
      BY <3>1, QueueType DEF Free, Used
    <3>3. cell'[c].kind = "pad" /\ cell'[c].buttons = ev.buttons /\ cell'[c].axis = ev.axis
      BY <3>1, <3>2, BlankType, PadPacket DEF TypeOK
    <3>4. IsPad(current)' /\ PadOf(mine)' = ev
      BY <3>1, <3>3 DEF IsPad, PadOf, Pad, TypeOK
    <3>5. /\ pc' = "offer"
          /\ UNCHANGED <<ev, queue, sender, out>>
      BY <1>3, <2>1 DEF SendFill
    <3> QED BY <3>1, <3>2, <3>4, <3>5 DEF Batch, OnItsWay
  <2>2. CASE ~QueuesOpen
    BY <1>3, <2>2 DEF SendFill, Batch, IsPad, PadOf, OnItsWay, Newest
  <2> QED BY <2>1, <2>2
<1>4. CASE SendOffer
  <2>1. /\ queue' = Append(queue, mine) /\ UNCHANGED <<cell, current, sender, out>>
        /\ pc = "offer" /\ pc' = "state" /\ mine \in Cells
    BY <1>4 DEF SendOffer, Offer, TypeOK, Positions
  <2>2. current = mine /\ mine # None /\ mine # out
    BY <2>1, InputAssumption DEF Batch, Ownership
  <2>3. IsPad(current)' /\ OnItsWay(current)'
    BY <2>1, <2>2, Queued DEF Batch, IsPad, OnItsWay
  <2>4. \A i \in DOMAIN queue' : queue'[i] = current' => Newest(i)'
    <3>1. \A i \in DOMAIN queue' : queue'[i] = current' => i = Len(queue) + 1
      BY <2>1, <2>2, Queued, QueueType DEF Ownership
    <3> QED BY <2>1, <3>1, Queued, QueueType DEF Newest
  <2> QED BY <2>1, <2>2, <2>3, <2>4 DEF Batch
<1>5. CASE KeyFill
  <2>1. CASE QueuesOpen
    <3>1. PICK c \in Free :
            /\ mine' = c
            /\ cell' = [cell EXCEPT ![c] = [@ EXCEPT !.kind = "key", !.key = key.key,
                                                     !.down = key.down]]
      BY <1>5, <2>1 DEF KeyFill
    <3>2. c \in Cells /\ c # out /\ c \notin ToSet(queue)
          /\ \A i \in DOMAIN queue : queue[i] # c
      BY <3>1, QueueType DEF Free, Used
    <3>3. ~IsPad(c)' /\ \A d \in Cells \ {c} : cell'[d] = cell[d]
      <4>1. cell \in [Cells -> Packet] /\ cell[c] \in Packet
        BY <3>2 DEF TypeOK
      <4>2. cell'[c].kind = "key" /\ \A d \in Cells \ {c} : cell'[d] = cell[d]
        BY <3>1, <3>2, <4>1 DEF Packet
      <4> QED BY <4>2 DEF IsPad
    <3>4. /\ pc = "keyFill" /\ pc' = "keyOffer"
          /\ UNCHANGED <<queue, current, sender, out>>
      BY <1>5, <2>1 DEF KeyFill
    <3>5. current # None => current # c /\ current \in Cells
      BY <3>2, <3>4 DEF Batch, OnItsWay, TypeOK
    <3>6. current # None => IsPad(current)' /\ OnItsWay(current)'
      BY <3>3, <3>4, <3>5 DEF Batch, OnItsWay, IsPad
    <3>7. \A i \in DOMAIN queue : Newest(i) => Newest(i)'
      BY <3>2, <3>3, <3>4, QueueType DEF Newest, IsPad
    <3>8. Newest(0) => Newest(0)'
      BY <3>2, <3>3, <3>4, QueueType DEF Newest, IsPad
    <3> QED BY <3>1, <3>3, <3>4, <3>6, <3>7, <3>8 DEF Batch, IsPad
  <2>2. CASE ~QueuesOpen
    BY <1>5, <2>2 DEF KeyFill, Batch, IsPad, PadOf, OnItsWay, Newest
  <2> QED BY <2>1, <2>2
<1>6. CASE KeyOffer
  <2>1. /\ queue' = Append(queue, mine) /\ UNCHANGED <<cell, current, sender, out>>
        /\ pc = "keyOffer" /\ pc' = "keys" /\ mine \in Cells /\ ~IsPad(mine)
    BY <1>6 DEF KeyOffer, Offer, TypeOK, Positions, Batch
  <2>2. \A i \in Nat : Newest(i) => Newest(i)'
    BY <2>1, Queued, QueueType DEF Newest, IsPad
  <2>3. \A i \in DOMAIN queue' : IsPad(queue'[i]) => i \in DOMAIN queue /\ queue'[i] = queue[i]
    BY <2>1, Queued, QueueType
  <2>4. current # None => IsPad(current)' /\ OnItsWay(current)'
    BY <2>1, Queued DEF Batch, OnItsWay, IsPad
  <2>5. current # None => \A i \in DOMAIN queue' : queue'[i] = current' => Newest(i)'
    BY <2>1, <2>2, <2>3, QueueType DEF Batch
  <2> QED BY <2>1, <2>2, <2>4, <2>5 DEF Batch
<1> QED BY <1>1, <1>2, <1>3, <1>4, <1>5, <1>6 DEF InputThread

\* So do the sender ...
LEMMA BatchSend ==
  ASSUME TypeOK, Ownership, Positions, Batch, InputSend, ~lost, ~lost'
  PROVE  Batch'
<1> USE DEF inputVars, hostVars
<1>1. CASE SenderTake
  <2>1. /\ sender = "wait" /\ sender' = "latch"
        /\ UNCHANGED <<pc, ev, mine, cell, current>>
    BY <1>1 DEF SenderTake
  <2>2. \A i \in DOMAIN queue' : Newest(i + 1) => Newest(i)'
    BY <1>1, <2>1, Taken, QueueType DEF Newest, IsPad
  <2>3. Newest(1) => Newest(0)'
    BY <1>1, <2>1, Taken, QueueType DEF Newest, IsPad
  <2>4. current # None => OnItsWay(current)'
    BY <1>1, <2>1, Taken DEF Batch, OnItsWay
  <2>5. current # None => \A i \in DOMAIN queue' : queue'[i] = current' => Newest(i)'
    BY <1>1, <2>1, <2>2, Taken DEF Batch
  <2>6. current # None /\ current' = out' => Newest(0)'
    BY <1>1, <2>1, <2>3, Taken DEF Batch
  <2> QED BY <2>1, <2>4, <2>5, <2>6 DEF Batch, IsPad, PadOf
<1>2. CASE SenderLatch
  <2>1. /\ sender = "latch" /\ out # None
        /\ current' = IF cell[out].kind = "pad" /\ current = out THEN None ELSE current
        /\ UNCHANGED <<pc, ev, mine, cell, queue, out>>
    BY <1>2 DEF SenderLatch, Positions
  <2>2. current' # None => current' = current /\ current # out
    BY <2>1 DEF Batch, IsPad
  <2>3. current' # None => OnItsWay(current)' /\ IsPad(current)'
    BY <2>1, <2>2 DEF Batch, OnItsWay, IsPad
  <2>4. pc = "offer" => current' = mine
    BY <2>1, InputAssumption DEF Batch, Ownership, Positions
  <2> QED BY <2>1, <2>2, <2>3, <2>4 DEF Batch, Newest, IsPad, PadOf
<1>3. CASE SenderSend \/ SenderFail
  <2>1. /\ sender = "send" /\ out \in Cells /\ out' = None /\ cell' = Freed({out})
        /\ UNCHANGED <<pc, ev, mine, queue, current>>
    BY <1>3 DEF SenderSend, SenderFail, Positions, TypeOK
  <2>2. \A c \in Cells \ {out} : cell'[c] = cell[c]
    BY <2>1, FreedCell
  <2>3. \A i \in DOMAIN queue : queue[i] # out /\ queue[i] \in Cells
    BY <2>1, QueueType, InputAssumption DEF Ownership
  <2>4. mine # None => mine # out /\ mine \in Cells
    BY <2>1 DEF Ownership, TypeOK
  <2>5. current # None => current # out /\ current \in Cells
    BY <2>1, <2>3, <2>4, QueueType, InputAssumption DEF Batch, OnItsWay, TypeOK, Positions
  <2>6. \A i \in DOMAIN queue : Newest(i) => Newest(i)'
    BY <2>1, <2>2, <2>3 DEF Newest, IsPad
  <2>7. current # None => IsPad(current)' /\ OnItsWay(current)'
    BY <2>1, <2>2, <2>5 DEF Batch, OnItsWay, IsPad
  <2>8. /\ pc = "offer" => current = mine /\ PadOf(mine)' = ev
        /\ pc = "keyOffer" => ~IsPad(mine)'
    BY <2>1, <2>2, <2>4 DEF Batch, IsPad, PadOf, Positions
  <2>9. current' # None => current' # out'
    BY <2>1
  <2> QED BY <2>1, <2>6, <2>7, <2>8, <2>9 DEF Batch
<1>4. CASE SenderExit
  BY <1>4 DEF SenderExit, Batch, IsPad, PadOf, OnItsWay, Newest
<1> QED BY <1>1, <1>2, <1>3, <1>4 DEF InputSend

\* ... and the main thread: nothing is on its way but what the input thread holds.
LEMMA BatchMain ==
  ASSUME TypeOK, Ownership, Positions, Batch, Main, ~lost, ~lost'
  PROVE  Batch'
<1> USE DEF inputVars, hostVars
<1>1. CASE StopFlag \/ StopDrain
  BY <1>1 DEF StopFlag, StopDrain, Batch, IsPad, PadOf, OnItsWay, Newest
<1>2. CASE Start
  <2>1. queue = <<>> /\ queue' = <<>> /\ sender = "none"
        /\ UNCHANGED <<pc, ev, mine, cell, current, out>>
    BY <1>2 DEF Start, Positions
  <2> QED BY <2>1 DEF Batch, IsPad, PadOf, OnItsWay, Newest
<1>3. CASE Stopped
  <2>1. queue = <<>> /\ queue' = <<>> /\ sender = "none" /\ out = None
        /\ UNCHANGED <<pc, ev, mine, current, sender, out>>
    BY <1>3 DEF Stopped, Positions, TypeOK
  <2>2. \A c \in Cells : c \notin ToSet(queue)
    BY <2>1, QueueType
  <2>3. current # None => pc = "offer" /\ current = mine
    BY <2>1, <2>2, QueueType DEF Batch, OnItsWay, TypeOK
  <2>4. mine # None => mine \in Cells /\ Freed(ToSet(queue))[mine] = cell[mine]
    BY <2>2, FreedCell DEF TypeOK
  <2>5. mine # None => cell'[mine] = cell[mine]
    BY <1>3, <2>4 DEF Stopped
  <2> QED BY <2>1, <2>3, <2>5 DEF Batch, IsPad, PadOf, OnItsWay, Newest, Positions
<1> QED BY <1>1, <1>2, <1>3 DEF Main

LEMMA BatchStep ==
  ASSUME TypeOK, Ownership, Positions, Batch, Next
  PROVE  Batch'
<1>1. CASE lost'
  BY <1>1 DEF Batch
<1>2. CASE ~lost'
  BY <1>2, LostStays, BatchInput, BatchSend, BatchMain DEF Next
<1> QED BY <1>1, <1>2

-----------------------------------------------------------------------------
(* The reading the host is told of. *)

LEMMA TruthStep ==
  ASSUME TypeOK, Ownership, Positions, Batch, Truth, Next
  PROVE  Truth'
<1> USE DEF inputVars, hostVars
<1> SUFFICES ASSUME ~lost', stream' = "open", sender' # "none", told'
             PROVE  Truth'
  BY DEF Truth
<1>0. ~lost
  BY LostStays
<1>1. CASE PadPoll \/ SendCheck \/ PadState \/ KeyRead \/ KeyNext
  BY <1>0, <1>1 DEF PadPoll, SendCheck, PadState, KeyRead, KeyNext, Truth, Reading, IsPad, PadOf,
     Newest
<1>2. CASE SendBatch
  <2>1. CASE Compatible
    <3>1. /\ Reading' = ev /\ UNCHANGED <<queue, out, sender, mine, current>>
          /\ pc = "batch" /\ current \in Cells
      BY <1>2, <2>1, Batched DEF SendBatch, Reading
    <3>2. IsPad(current) /\ IsPad(current)' /\ PadOf(current)' = ev
      BY <1>0, <1>2, <2>1, Batched DEF Batch, Compatible
    <3>3. \A c \in Cells : c # current => cell'[c] = cell[c]
      BY <1>2, <2>1, Batched
    <3>4. \A c \in Cells : IsPad(c)' <=> IsPad(c)
      BY <3>1, <3>2, <3>3 DEF IsPad
    <3>5. \A i \in Nat : Newest(i)' <=> Newest(i)
      BY <3>1, <3>4, QueueType DEF Newest, IsPad
    <3>6. CASE \E k \in DOMAIN queue : queue[k] = current
      <4>1. PICK k \in DOMAIN queue : queue[k] = current
        BY <3>6
      <4>2. Newest(k) /\ k > 0 /\ k \in Nat
        BY <1>0, <3>1, <4>1, QueueType, InputAssumption DEF Batch
      <4>3. ~Newest(0)
        BY <3>2, <4>1, <4>2 DEF Newest
      <4>4. \A i \in DOMAIN queue : IsPad(queue[i]) /\ Newest(i) => i = k
        BY <3>2, <4>1, <4>2, QueueType DEF Newest
      <4> QED BY <3>1, <3>2, <3>4, <3>5, <4>1, <4>3, <4>4, QueueType DEF Truth
    <3>7. CASE \A k \in DOMAIN queue : queue[k] # current
      <4>1. current = out /\ Newest(0)
        BY <1>0, <3>1, <3>7, QueueType, InputAssumption DEF Batch, OnItsWay
      <4>2. \A i \in DOMAIN queue : ~IsPad(queue[i])
        BY <4>1, QueueType DEF Newest
      <4>3. /\ out' = current' /\ IsPad(out)' /\ PadOf(out)' = Reading'
        BY <3>1, <3>2, <4>1 DEF IsPad, PadOf
      <4> QED BY <3>1, <3>4, <4>2, <4>3, QueueType, InputAssumption DEF Truth, IsPad
    <3> QED BY <3>6, <3>7
  <2>2. CASE ~Compatible
    BY <1>0, <1>2, <2>2 DEF SendBatch, Truth, Reading, IsPad, PadOf, Newest
  <2> QED BY <2>1, <2>2
<1>3. CASE SendFill \/ KeyFill
  <2>1. /\ Reading' = Reading
        /\ UNCHANGED <<queue, out, sender, stream, told, hostPad>>
    BY <1>3 DEF SendFill, KeyFill, Reading, QueuesOpen
  <2>2. ~SendBatch /\ ~Stopped
    BY <1>3 DEF SendFill, KeyFill, SendBatch, Stopped
  <2>3. /\ \A i \in DOMAIN queue : cell'[queue[i]] = cell[queue[i]]
        /\ out # None => cell'[out] = cell[out]
    BY <2>1, <2>2, Untouched
  <2> QED BY <1>0, <2>1, <2>3 DEF Truth, IsPad, PadOf, Newest
<1>4. CASE SendOffer
  <2>1. /\ queue' = Append(queue, mine) /\ mine \in Cells /\ pc = "offer"
        /\ Reading' = ev /\ UNCHANGED <<cell, out>>
    BY <1>4 DEF SendOffer, Offer, Positions, TypeOK, Reading
  <2>2. IsPad(mine) /\ PadOf(mine) = ev
    BY <1>0, <2>1, InputAssumption DEF Batch
  <2>3. \A i \in 0 .. Len(queue) : ~Newest(i)'
    BY <2>1, <2>2, Queued, QueueType DEF Newest, IsPad
  <2>4. \A i \in DOMAIN queue' : Newest(i)' => i = Len(queue) + 1
    BY <2>1, <2>3, Queued, QueueType
  <2>5. ~Newest(0)'
    BY <2>3, QueueType
  <2> QED BY <2>1, <2>2, <2>4, <2>5, Queued DEF Truth, PadOf
<1>5. CASE KeyOffer
  <2>1. /\ queue' = Append(queue, mine) /\ mine \in Cells /\ ~IsPad(mine)
        /\ Reading' = Reading /\ UNCHANGED <<cell, out, sender, stream, told, hostPad>>
    BY <1>0, <1>5 DEF KeyOffer, Offer, Positions, TypeOK, Reading, Batch
  <2>2. \A i \in Nat : Newest(i)' => Newest(i)
    BY <2>1, Queued, QueueType DEF Newest, IsPad
  <2>3. \A i \in DOMAIN queue' : IsPad(queue'[i]) => i \in DOMAIN queue /\ queue'[i] = queue[i]
    BY <2>1, Queued, QueueType
  <2> QED BY <1>0, <2>1, <2>2, <2>3, QueueType DEF Truth, IsPad, PadOf
<1>6. CASE SenderTake
  <2>1. /\ out = None /\ Reading' = Reading /\ sender = "wait"
        /\ UNCHANGED <<cell, stream, told, hostPad>>
    BY <1>6 DEF SenderTake, Positions, Reading
  <2>2. \A i \in DOMAIN queue' : Newest(i)' => Newest(i + 1)
    <3> SUFFICES ASSUME NEW i \in DOMAIN queue', Newest(i)', NEW j \in DOMAIN queue, j > i + 1
                 PROVE  ~IsPad(queue[j])
      BY DEF Newest
    <3>1. j - 1 \in DOMAIN queue' /\ j - 1 > i /\ (j - 1) + 1 = j
      BY <1>6, Taken, QueueType
    <3> QED BY <1>6, <2>1, <3>1, Taken DEF Newest, IsPad
  <2>3. Newest(0)' => Newest(1)
    <3> SUFFICES ASSUME Newest(0)', NEW j \in DOMAIN queue, j > 1
                 PROVE  ~IsPad(queue[j])
      BY DEF Newest
    <3>1. j - 1 \in DOMAIN queue' /\ j - 1 > 0 /\ (j - 1) + 1 = j
      BY <1>6, Taken, QueueType
    <3> QED BY <1>6, <2>1, <3>1, Taken DEF Newest, IsPad
  <2>4. out' = queue[1] /\ 1 \in DOMAIN queue
    BY <1>6, Taken
  <2>5. Newest(1) /\ ~IsPad(queue[1]) => Newest(0)
    BY QueueType DEF Newest
  <2>6. \A i \in DOMAIN queue' : IsPad(queue[i])' /\ Newest(i)' => PadOf(queue[i])' = Reading'
    BY <1>0, <1>6, <2>1, <2>2, Taken DEF Truth, IsPad, PadOf
  <2>7. IsPad(out)' /\ Newest(0)' => PadOf(out)' = Reading'
    BY <1>0, <2>1, <2>3, <2>4 DEF Truth, IsPad, PadOf
  <2>8. Newest(0)' /\ (out' = None \/ ~IsPad(out)') => hostPad' = Reading'
    BY <1>0, <2>1, <2>3, <2>4, <2>5, QueueType, InputAssumption DEF Truth, IsPad
  <2> QED BY <2>6, <2>7, <2>8 DEF Truth
<1>7. CASE SenderLatch
  BY <1>0, <1>7 DEF SenderLatch, Truth, Reading, IsPad, PadOf, Newest
<1>8. CASE SenderSend
  <2>1. /\ out # None /\ out' = None /\ Reading' = Reading
        /\ UNCHANGED <<queue, stream, told>> /\ sender = "send"
        /\ ~SendBatch /\ ~Stopped
    BY <1>8 DEF SenderSend, Positions, Reading, SendBatch, Stopped
  <2>2. \A i \in DOMAIN queue : cell'[queue[i]] = cell[queue[i]]
    BY <2>1, Untouched
  <2>3. \A i \in Nat : Newest(i)' <=> Newest(i)
    BY <2>1, <2>2 DEF Newest, IsPad
  <2>4. hostPad' = IF IsPad(out) THEN PadOf(out) ELSE hostPad
    BY <1>8 DEF SenderSend, IsPad, PadOf
  <2> QED BY <1>0, <2>1, <2>2, <2>3, <2>4, QueueType DEF Truth, IsPad, PadOf
<1>9. CASE SenderFail \/ SenderExit \/ Start \/ StopFlag \/ StopDrain \/ Stopped
  BY <1>9 DEF SenderFail, SenderExit, Start, StopFlag, StopDrain, Stopped
<1> QED BY <1>1, <1>2, <1>3, <1>4, <1>5, <1>6, <1>7, <1>8, <1>9
        DEF Next, InputThread, InputSend, Main

-----------------------------------------------------------------------------
(* The keys. *)

\* No packet about key k waits behind the i-th of the queue.
LastAbout(i, k) == \A j \in DOMAIN queue : j > i => ~IsKey(queue[j], k)

\* WillHold, of the queue and the packet taken apart.
Held(k) ==
  \/ \E i \in DOMAIN queue : IsKey(queue[i], k) /\ cell[queue[i]].down /\ LastAbout(i, k)
  \/ out # None /\ IsKey(out, k) /\ cell[out].down /\ LastAbout(0, k)
  \/ k \in hostKeys /\ LastAbout(0, k) /\ (out = None \/ ~IsKey(out, k))

\* The events of a poll: presses are of keys that are down, a packet that is being
\* offered holds the event, and no event is left over for the next poll.
Events ==
  /\ \A e \in todo : e.down => e.key \in last_keys
  /\ key.down => key.key \in last_keys
  /\ pc = "keyOffer" => IsKey(mine, key.key) /\ cell[mine].down = key.down
  /\ pc \notin {"keyFill", "keyOffer"} => key = NoEvent
  /\ pc \notin {"keys", "keyFill", "keyOffer"} => todo = {}

KeyTruth ==
  ~lost /\ stream = "open" /\ sender # "none" => \A k \in Keys : Held(k) => k \in KnownKeys

KInv == IInv /\ Events /\ KeyTruth

\* A packet that is being offered is not written to.
LEMMA MineUntouched ==
  ASSUME IInv, Next, pc = "keyOffer", pc' = "keyOffer"
  PROVE  mine' = mine /\ cell'[mine] = cell[mine]
<1> USE DEF inputVars, hostVars, IInv
<1>1. mine \in Cells /\ mine # None
  BY InputAssumption DEF Positions, TypeOK
<1>2. InputSend \/ Main
  BY DEF Next, InputThread, PadPoll, SendCheck, SendBatch, SendFill, SendOffer, PadState,
         KeyRead, KeyNext, KeyFill, KeyOffer
<1>3. mine' = mine
  BY <1>2 DEF InputSend, SenderTake, SenderLatch, SenderSend, SenderFail, SenderExit,
              Main, Start, StopFlag, StopDrain, Stopped
<1>4. CASE SenderSend \/ SenderFail
  <2>1. cell' = Freed({out}) /\ mine \notin {out}
    BY <1>1, <1>4 DEF SenderSend, SenderFail, Ownership
  <2> QED BY <1>1, <1>3, <2>1, FreedCell
<1>5. CASE Stopped
  <2>1. mine \notin ToSet(queue)
    BY <1>1, QueueType DEF Ownership
  <2>2. cell'[mine] = Freed(ToSet(queue))[mine]
    BY <1>1, <1>5 DEF Stopped
  <2> QED BY <1>1, <1>3, <2>1, <2>2, FreedCell
<1>6. CASE UNCHANGED cell
  BY <1>3, <1>6
<1> QED BY <1>2, <1>4, <1>5, <1>6 DEF InputSend, SenderTake, SenderLatch, SenderExit,
                                      Main, Start, StopFlag, StopDrain

LEMMA EventsStep ==
  ASSUME IInv, Events, Next
  PROVE  Events'
<1> USE DEF inputVars, hostVars
<1>0. TypeOK /\ Positions
  BY DEF IInv
<1>1. CASE KeyRead
  <2>1. PICK pressed : /\ todo' = [key : pressed \ last_keys, down : {TRUE}]
                                    \cup [key : last_keys \ pressed, down : {FALSE}]
                       /\ last_keys' = pressed
    BY <1>1 DEF KeyRead
  <2>2. \A e \in todo' : e.down => e.key \in last_keys'
    BY <2>1
  <2> QED BY <1>1, <2>2 DEF KeyRead, Events, NoEvent
<1>2. CASE KeyNext
  BY <1>2 DEF KeyNext, Events, NoEvent
<1>3. CASE KeyFill
  <2>1. CASE QueuesOpen
    <3>1. PICK c \in Free :
            /\ mine' = c
            /\ cell' = [cell EXCEPT ![c] = [@ EXCEPT !.kind = "key", !.key = key.key,
                                                     !.down = key.down]]
      BY <1>3, <2>1 DEF KeyFill
    <3>2. c \in Cells /\ cell[c] \in Packet
      BY <1>0 DEF Free, TypeOK
    <3>3. IsKey(mine, key.key)' /\ cell'[mine'].down = key.down /\ key' = key
      BY <1>0, <1>3, <2>1, <3>1, <3>2 DEF KeyFill, TypeOK, Packet, IsKey
    <3> QED BY <1>3, <2>1, <3>3 DEF KeyFill, Events
  <2>2. CASE ~QueuesOpen
    <3>1. /\ pc' = "keys" /\ key' = NoEvent /\ UNCHANGED <<todo, last_keys>>
      BY <1>3, <2>2 DEF KeyFill
    <3> QED BY <3>1 DEF Events, NoEvent
  <2> QED BY <2>1, <2>2
<1>4. CASE KeyOffer
  BY <1>4 DEF KeyOffer, Events, NoEvent
<1>5. CASE UNCHANGED <<todo, last_keys, key>> /\ pc' = pc
  <2>1. pc = "keyOffer" => mine' = mine /\ cell'[mine] = cell[mine]
    BY <1>5, MineUntouched
  <2> QED BY <1>5, <2>1 DEF Events, IsKey
<1>6. CASE UNCHANGED <<todo, last_keys, key>>
           /\ pc' \notin {"keys", "keyFill", "keyOffer"} /\ pc \notin {"keys", "keyFill", "keyOffer"}
  BY <1>6 DEF Events
<1>7. CASE InputThread
  BY <1>1, <1>2, <1>3, <1>4, <1>6, <1>7 DEF InputThread, PadPoll, SendCheck, SendBatch, SendFill,
     SendOffer, PadState
<1>8. CASE InputSend \/ Main
  BY <1>5, <1>8 DEF InputSend, SenderTake, SenderLatch, SenderSend, SenderFail, SenderExit,
     Main, Start, StopFlag, StopDrain, Stopped
<1> QED BY <1>7, <1>8 DEF Next

\* What the host will believe of the keys follows from the packets on their way.
LEMMA SameHeld ==
  ASSUME TypeOK, UNCHANGED <<queue, out, hostKeys>>,
         \A i \in DOMAIN queue : \A k \in Keys :
           /\ IsKey(queue[i], k)' <=> IsKey(queue[i], k)
           /\ IsKey(queue[i], k) => cell'[queue[i]].down = cell[queue[i]].down,
         out # None => \A k \in Keys :
           /\ IsKey(out, k)' <=> IsKey(out, k)
           /\ IsKey(out, k) => cell'[out].down = cell[out].down
  PROVE  \A k \in Keys : Held(k)' => Held(k)
<1> SUFFICES ASSUME NEW k \in Keys, Held(k)' PROVE Held(k)
  OBVIOUS
<1>1. \A i \in 0 .. Len(queue) : LastAbout(i, k)' <=> LastAbout(i, k)
  BY DEF LastAbout
<1>2. 0 \in 0 .. Len(queue) /\ \A i \in DOMAIN queue : i \in 0 .. Len(queue)
  BY QueueType
<1> QED BY <1>1, <1>2 DEF Held

LEMMA KeyTruthStep ==
  ASSUME IInv, Events, KeyTruth, Next
  PROVE  KeyTruth'
<1> USE DEF inputVars, hostVars
<1> SUFFICES ASSUME ~lost', stream' = "open", sender' # "none", NEW k \in Keys, Held(k)'
             PROVE  k \in KnownKeys'
  BY DEF KeyTruth, KnownKeys, Keys
<1>0. /\ TypeOK /\ Ownership /\ Positions /\ Batch
      /\ ~lost
  BY LostStays DEF IInv
<1>1. CASE Start
  <2>1. queue' = <<>> /\ out' = None /\ hostKeys' = {}
    BY <1>0, <1>1 DEF Start, Positions
  <2> QED BY <2>1 DEF Held
<1>2. CASE StopFlag \/ StopDrain \/ Stopped \/ SenderFail \/ SenderExit
  BY <1>2 DEF StopFlag, StopDrain, Stopped, SenderFail, SenderExit
<1>3. ~Start /\ ~StopFlag /\ ~StopDrain /\ ~Stopped /\ ~SenderFail /\ ~SenderExit
      => stream = "open" /\ sender # "none"
  BY DEF Next, InputThread, InputSend, Main, PadPoll, SendCheck, SendBatch, SendFill,
     SendOffer, PadState, KeyRead, KeyNext, KeyFill, KeyOffer, SenderTake, SenderLatch, SenderSend
<1>4. ASSUME stream = "open", sender # "none", NEW l \in Keys, Held(l) PROVE l \in KnownKeys
  BY <1>0, <1>4 DEF KeyTruth
<1>5. ASSUME UNCHANGED <<queue, out, hostKeys>>, ~SendBatch, ~Stopped PROVE Held(k)
  <2>1. /\ \A i \in DOMAIN queue : cell'[queue[i]] = cell[queue[i]]
        /\ out # None => cell'[out] = cell[out]
    BY <1>0, <1>5, Untouched
  <2>2. \A i \in DOMAIN queue : \A l \in Keys :
          /\ IsKey(queue[i], l)' <=> IsKey(queue[i], l)
          /\ IsKey(queue[i], l) => cell'[queue[i]].down = cell[queue[i]].down
    BY <1>5, <2>1 DEF IsKey
  <2>3. out # None => \A l \in Keys :
          /\ IsKey(out, l)' <=> IsKey(out, l)
          /\ IsKey(out, l) => cell'[out].down = cell[out].down
    BY <1>5, <2>1 DEF IsKey
  <2> QED BY <1>0, <1>5, <2>2, <2>3, SameHeld
<1>6. CASE PadPoll \/ SendCheck \/ PadState \/ SendFill \/ KeyFill
  <2>1. UNCHANGED <<queue, out, hostKeys, last_keys, todo, stream, sender>>
    BY <1>6 DEF PadPoll, SendCheck, PadState, SendFill, KeyFill
  <2>2. ~SendBatch /\ ~Stopped
    BY <1>6 DEF PadPoll, SendCheck, PadState, SendFill, KeyFill, SendBatch, Stopped
  <2>3. key' = key
    BY <1>6, <2>1 DEF PadPoll, SendCheck, PadState, SendFill, KeyFill, QueuesOpen
  <2> QED BY <1>4, <1>5, <2>1, <2>2, <2>3 DEF KnownKeys
<1>7. CASE SendBatch
  <2>1. /\ UNCHANGED <<queue, out, hostKeys, last_keys, todo, key, stream, sender>>
        /\ Compatible \/ cell' = cell
    BY <1>7 DEF SendBatch
  <2>2. ASSUME NEW c \in Cells, NEW l \in Keys
        PROVE  /\ IsKey(c, l)' <=> IsKey(c, l)
               /\ IsKey(c, l) => cell'[c].down = cell[c].down
    <3>1. CASE Compatible
      <4>1. CASE c = current
        <5>1. IsPad(current) /\ IsPad(current)' /\ current' = current
          BY <1>0, <1>7, <3>1, Batched DEF Batch, Compatible, SendBatch
        <5> QED BY <4>1, <5>1 DEF IsPad, IsKey
      <4>2. CASE c # current
        BY <1>0, <1>7, <3>1, <4>2, Batched DEF IsKey
      <4> QED BY <4>1, <4>2
    <3>2. CASE cell' = cell
      BY <3>2 DEF IsKey
    <3> QED BY <2>1, <3>1, <3>2
  <2>3. Held(k)
    <3>1. \A i \in DOMAIN queue : \A l \in Keys :
            /\ IsKey(queue[i], l)' <=> IsKey(queue[i], l)
            /\ IsKey(queue[i], l) => cell'[queue[i]].down = cell[queue[i]].down
      BY <1>0, <2>1, <2>2, QueueType DEF IsKey
    <3>2. out # None => \A l \in Keys :
            /\ IsKey(out, l)' <=> IsKey(out, l)
            /\ IsKey(out, l) => cell'[out].down = cell[out].down
      BY <1>0, <2>1, <2>2 DEF IsKey, TypeOK
    <3> QED BY <1>0, <2>1, <3>1, <3>2, SameHeld
  <2> QED BY <1>4, <2>1, <2>3 DEF KnownKeys
<1>8. CASE KeyRead \/ KeyNext
  <2>1. UNCHANGED <<queue, out, hostKeys, cell, stream, sender>>
    BY <1>8 DEF KeyRead, KeyNext
  <2>2. k \in KnownKeys
    BY <1>4, <1>5, <1>8, <2>1 DEF KeyRead, KeyNext, SendBatch, Stopped
  <2>3. k # NoKey
    BY DEF Keys
  <2>4. CASE KeyRead
    <3>1. PICK pressed : /\ todo' = [key : pressed \ last_keys, down : {TRUE}]
                                      \cup [key : last_keys \ pressed, down : {FALSE}]
                         /\ last_keys' = pressed
      BY <2>4 DEF KeyRead
    <3>2. k \in last_keys
      BY <2>2, <2>3, <2>4 DEF KnownKeys, KeyRead, Events, NoEvent
    <3>3. k \notin pressed => \E e \in todo' : e.key = k
      <4> SUFFICES ASSUME k \notin pressed PROVE \E e \in todo' : e.key = k
        OBVIOUS
      <4>1. [key |-> k, down |-> FALSE] \in todo'
        BY <3>1, <3>2
      <4> QED BY <4>1
    <3> QED BY <3>1, <3>2, <3>3 DEF KnownKeys
  <2>5. CASE KeyNext
    <3>1. last_keys' = last_keys /\ key = NoEvent /\ k # key.key
      BY <2>3, <2>5 DEF KeyNext, Events, NoEvent
    <3>2. CASE todo = {}
      BY <2>2, <2>5, <3>1, <3>2 DEF KnownKeys, KeyNext
    <3>3. CASE todo # {}
      <4>1. PICK e \in todo : todo' = todo \ {e} /\ key' = e
        BY <2>1, <2>5, <3>3 DEF KeyNext
      <4> QED BY <2>2, <3>1, <4>1 DEF KnownKeys
    <3> QED BY <3>2, <3>3
  <2> QED BY <1>8, <2>4, <2>5
<1>9. CASE SendOffer
  <2>1. /\ queue' = Append(queue, mine) /\ mine \in Cells /\ IsPad(mine)
        /\ UNCHANGED <<cell, out, hostKeys, last_keys, todo, key, stream, sender>>
    BY <1>0, <1>9, InputAssumption DEF SendOffer, Offer, Positions, TypeOK, Batch
  <2>2. \A i \in DOMAIN queue' : IsKey(queue[i], k)' => i \in DOMAIN queue /\ queue'[i] = queue[i]
    BY <1>0, <2>1, Queued, QueueType DEF IsKey, IsPad
  <2>3. \A i \in Nat : LastAbout(i, k)' => LastAbout(i, k)
    BY <1>0, <2>1, Queued, QueueType DEF LastAbout, IsKey
  <2>4. Held(k)
    BY <1>0, <2>1, <2>2, <2>3, QueueType DEF Held, IsKey
  <2> QED BY <1>4, <2>1, <2>4 DEF KnownKeys
<1>10. CASE KeyOffer
  <2>1. /\ queue' = Append(queue, mine) /\ mine \in Cells
        /\ IsKey(mine, key.key) /\ cell[mine].down = key.down
        /\ UNCHANGED <<cell, out, hostKeys, last_keys, todo, stream, sender>>
    BY <1>0, <1>10 DEF KeyOffer, Offer, Positions, TypeOK, Events
  <2>2. \A i \in Nat : LastAbout(i, k)' => LastAbout(i, k)
    BY <1>0, <2>1, Queued, QueueType DEF LastAbout, IsKey
  <2>3. CASE k = key.key
    <3>1. \A i \in 0 .. Len(queue) : ~LastAbout(i, k)'
      BY <1>0, <2>1, <2>3, Queued, QueueType DEF LastAbout, IsKey
    <3>2. \A i \in DOMAIN queue' : i \in 0 .. Len(queue) \/ queue'[i] = mine
      BY <1>0, <2>1, Queued, QueueType
    <3>3. cell[mine].down
      BY <1>0, <2>1, <3>1, <3>2, QueueType DEF Held
    <3> QED BY <2>1, <2>3, <3>3 DEF Events, KnownKeys
  <2>4. CASE k # key.key
    <3>1. \A i \in DOMAIN queue' : IsKey(queue[i], k)' => i \in DOMAIN queue /\ queue'[i] = queue[i]
      BY <1>0, <2>1, <2>4, Queued, QueueType DEF IsKey
    <3>2. Held(k)
      BY <1>0, <2>1, <2>2, <3>1, QueueType DEF Held, IsKey
    <3> QED BY <1>4, <2>1, <2>4, <3>2 DEF KnownKeys
  <2> QED BY <2>3, <2>4
<1>11. CASE SenderTake
  <2>1. /\ out = None /\ out' = queue[1] /\ 1 \in DOMAIN queue
        /\ UNCHANGED <<cell, hostKeys, last_keys, todo, key, stream>>
        /\ sender # "none"
    BY <1>0, <1>11, Taken DEF SenderTake, Positions
  <2>2. \A i \in DOMAIN queue' : LastAbout(i, k)' => LastAbout(i + 1, k)
    <3> SUFFICES ASSUME NEW i \in DOMAIN queue', LastAbout(i, k)', NEW j \in DOMAIN queue, j > i + 1
                 PROVE  ~IsKey(queue[j], k)
      BY DEF LastAbout
    <3>1. j - 1 \in DOMAIN queue' /\ j - 1 > i /\ (j - 1) + 1 = j
      BY <1>0, <1>11, Taken, QueueType
    <3> QED BY <1>0, <1>11, <2>1, <3>1, Taken DEF LastAbout, IsKey
  <2>3. LastAbout(0, k)' => LastAbout(1, k)
    <3> SUFFICES ASSUME LastAbout(0, k)', NEW j \in DOMAIN queue, j > 1
                 PROVE  ~IsKey(queue[j], k)
      BY DEF LastAbout
    <3>1. j - 1 \in DOMAIN queue' /\ j - 1 > 0 /\ (j - 1) + 1 = j
      BY <1>0, <1>11, Taken, QueueType
    <3> QED BY <1>0, <1>11, <2>1, <3>1, Taken DEF LastAbout, IsKey
  <2>4. LastAbout(1, k) /\ ~IsKey(queue[1], k) => LastAbout(0, k)
    BY <1>0, QueueType DEF LastAbout
  <2>5. ASSUME NEW i \in DOMAIN queue', IsKey(queue[i], k)', cell'[queue'[i]].down, LastAbout(i, k)'
        PROVE  Held(k)
    BY <1>0, <1>11, <2>1, <2>2, <2>5, Taken DEF Held, IsKey
  <2>6. ASSUME IsKey(out, k)', cell'[out'].down, LastAbout(0, k)' PROVE Held(k)
    BY <2>1, <2>3, <2>6 DEF Held, IsKey
  <2>7. ASSUME k \in hostKeys', LastAbout(0, k)', ~IsKey(out, k)' \/ out' = None PROVE Held(k)
    <3>1. out' # None
      BY <1>0, <2>1, QueueType, InputAssumption
    <3> QED BY <2>1, <2>3, <2>4, <2>7, <3>1 DEF Held, IsKey
  <2>8. Held(k)
    BY <2>5, <2>6, <2>7 DEF Held
  <2> QED BY <1>4, <2>1, <2>8 DEF KnownKeys
<1>12. CASE SenderLatch
  BY <1>4, <1>5, <1>12 DEF SenderLatch, KnownKeys, SendBatch, Stopped
<1>13. CASE SenderSend
  <2>1. /\ out # None /\ out' = None /\ out \in Cells
        /\ UNCHANGED <<queue, last_keys, todo, key, stream>> /\ sender = "send"
        /\ ~SendBatch /\ ~Stopped
    BY <1>0, <1>13 DEF SenderSend, Positions, TypeOK, SendBatch, Stopped
  <2>2. \A i \in DOMAIN queue : cell'[queue[i]] = cell[queue[i]]
    BY <1>0, <2>1, Untouched
  <2>3. \A i \in Nat : LastAbout(i, k)' <=> LastAbout(i, k)
    BY <2>1, <2>2 DEF LastAbout, IsKey
  <2>4. IsKey(out, k) /\ k \in hostKeys' => cell[out].down
    BY <1>13 DEF SenderSend, IsKey
  <2>5. ~IsKey(out, k) /\ k \in hostKeys' => k \in hostKeys
    BY <1>13 DEF SenderSend, IsKey
  <2>6. Held(k)
    BY <1>0, <2>1, <2>2, <2>3, <2>4, <2>5, QueueType DEF Held, IsKey
  <2> QED BY <1>4, <2>1, <2>6 DEF KnownKeys
<1> QED BY <1>1, <1>2, <1>6, <1>7, <1>8, <1>9, <1>10, <1>11, <1>12, <1>13
        DEF Next, InputThread, InputSend, Main

-----------------------------------------------------------------------------
(* The theorems. *)

LEMMA Initial == Init => IInv
<1> SUFFICES ASSUME Init PROVE IInv
  OBVIOUS
<1>1. queue \in Seq(Cells) /\ Len(queue) = 0 /\ DOMAIN queue = {}
  BY DEF Init
<1>2. Len(queue) \in 0 .. QueueMax
  BY <1>1, InputAssumption
<1>3. cell \in [Cells -> Packet] /\ \A c \in Cells : cell[c] = Blank
  BY BlankType DEF Init
<1>4. TypeOK
  BY <1>1, <1>2, <1>3, BlankType DEF Init, TypeOK
<1>5. Named
  BY <1>3 DEF Named, Blank
<1>6. Ownership /\ Positions
  BY <1>1 DEF Init, Ownership, Positions
<1>7. Batch /\ Truth
  BY DEF Init, Batch, Truth
<1> QED BY <1>4, <1>5, <1>6, <1>7 DEF IInv

LEMMA Unchanged == IInv /\ UNCHANGED vars => IInv'
<1> SUFFICES ASSUME IInv, UNCHANGED vars PROVE IInv'
  OBVIOUS
<1> USE DEF vars, inputVars, hostVars, IInv
<1>1. TypeOK' /\ Named' /\ Ownership' /\ Positions'
  BY DEF TypeOK, Named, Ownership, Positions
<1>2. Batch' /\ Truth'
  BY DEF Batch, Truth, Reading, IsPad, PadOf, OnItsWay, Newest
<1> QED BY <1>1, <1>2

LEMMA Inductive == IInv /\ [Next]_vars => IInv'
<1> SUFFICES ASSUME IInv, Next PROVE IInv'
  BY Unchanged
<1>1. TypeOK'
  BY TypeInput, TypeSend, TypeMain DEF Next, IInv
<1>2. Named' /\ Ownership' /\ Positions' /\ Batch' /\ Truth'
  BY NamedStep, OwnershipStep, PositionsStep, BatchStep, TruthStep DEF IInv
<1> QED BY <1>1, <1>2 DEF IInv

\* The inductive invariant holds in every state of the input path (input.c 217-399,
\* InputStream.c 195-363, 886-1153).
THEOREM InvariantCorrect == Spec => []IInv
<1> QED BY Initial, Inductive, PTL DEF Spec

\* Every variable of the input path keeps its type: the queue within its bound, and no
\* key sent to the host that is not one (LinkedBlockingQueue.c 85-131).
THEOREM TypeCorrect == Spec => []TypeOK
<1>1. IInv => TypeOK
  BY DEF IInv
<1> QED BY <1>1, InvariantCorrect, PTL

\* The packets on their way are the one taken and those queued.
LEMMA InFlightIs ==
  ASSUME TypeOK
  PROVE  /\ out = None => InFlight = queue
         /\ out # None =>
              /\ DOMAIN InFlight = 1 .. Len(queue) + 1
              /\ InFlight[1] = out
              /\ \A i \in DOMAIN queue : InFlight[i + 1] = queue[i]
<1>1. CASE out = None
  BY <1>1 DEF InFlight, TypeOK
<1>2. CASE out # None
  <2>1. out \in Cells /\ <<out>> \in Seq(Cells) /\ queue \in Seq(Cells)
    BY <1>2 DEF TypeOK
  <2>2. InFlight = <<out>> \o queue
    BY <1>2 DEF InFlight
  <2>3. Len(<<out>>) = 1 /\ <<out>>[1] = out
    OBVIOUS
  <2>4. DOMAIN InFlight = 1 .. Len(queue) + 1
    BY <2>1, <2>2, <2>3
  <2>5. InFlight[1] = out
    BY <2>1, <2>2, <2>3
  <2>6. \A i \in DOMAIN queue : InFlight[i + 1] = queue[i]
    BY <2>1, <2>2, <2>3, QueueType
  <2> QED BY <1>2, <2>4, <2>5, <2>6
<1> QED BY <1>1, <1>2

\* What is later than a packet of the queue, and than the one taken.
LEMMA LaterIs ==
  ASSUME TypeOK
  PROVE  /\ out = None => \A i \in 0 .. Len(queue) : NoLaterPad(InFlight, i) <=> Newest(i)
         /\ out # None =>
              /\ \A i \in 0 .. Len(queue) : NoLaterPad(InFlight, i + 1) <=> Newest(i)
              /\ NoLaterPad(InFlight, 0) <=> ~IsPad(out) /\ Newest(0)
<1>1. CASE out = None
  BY <1>1, InFlightIs DEF NoLaterPad, Newest
<1>2. CASE out # None
  <2>1. \A j \in DOMAIN InFlight : j = 1 \/ j - 1 \in DOMAIN queue
    BY <1>2, InFlightIs, QueueType
  <2>2. \A j \in DOMAIN InFlight : j # 1 => InFlight[j] = queue[j - 1]
    <3> SUFFICES ASSUME NEW j \in DOMAIN InFlight, j # 1 PROVE InFlight[j] = queue[j - 1]
      OBVIOUS
    <3>1. j - 1 \in DOMAIN queue /\ (j - 1) + 1 = j
      BY <1>2, <2>1, InFlightIs, QueueType
    <3> QED BY <1>2, <3>1, InFlightIs
  <2>3. \A j \in DOMAIN queue : j + 1 \in DOMAIN InFlight /\ InFlight[j + 1] = queue[j]
    BY <1>2, InFlightIs, QueueType
  <2>4. ASSUME NEW i \in 0 .. Len(queue)
        PROVE  NoLaterPad(InFlight, i + 1) <=> Newest(i)
    <3>1. ASSUME NoLaterPad(InFlight, i + 1), NEW j \in DOMAIN queue, j > i
          PROVE  ~IsPad(queue[j])
      <4>1. j + 1 > i + 1
        BY <3>1, QueueType
      <4> QED BY <2>3, <3>1, <4>1 DEF NoLaterPad
    <3>2. ASSUME Newest(i), NEW j \in DOMAIN InFlight, j > i + 1
          PROVE  ~IsPad(InFlight[j])
      <4>1. j # 1 /\ j - 1 > i /\ j - 1 \in DOMAIN queue
        BY <1>2, <2>1, <3>2, InFlightIs, QueueType
      <4> QED BY <2>2, <3>2, <4>1 DEF Newest
    <3> QED BY <3>1, <3>2 DEF NoLaterPad, Newest
  <2>5. NoLaterPad(InFlight, 0) => ~IsPad(out)
    BY <1>2, InFlightIs, QueueType DEF NoLaterPad
  <2>6. NoLaterPad(InFlight, 0) => NoLaterPad(InFlight, 1)
    BY <1>2, InFlightIs, QueueType DEF NoLaterPad
  <2>7. NoLaterPad(InFlight, 1) /\ ~IsPad(out) => NoLaterPad(InFlight, 0)
    BY <1>2, <2>1, InFlightIs, QueueType DEF NoLaterPad
  <2>8. NoLaterPad(InFlight, 1) <=> Newest(0)
    BY <2>4, QueueType
  <2> QED BY <1>2, <2>4, <2>5, <2>6, <2>7, <2>8
<1> QED BY <1>1, <1>2

\* Until a packet is discarded, an event put into the waiting packet is in the newest
\* controller packet on its way, which the sender has not latched: for any number of
\* packets and any bound of the queue (InputStream.c 347-363, 1034-1144).
THEOREM BatchAlwaysQueued == Spec => []BatchIsQueued
<1>1. IInv => BatchIsQueued
  <2> SUFFICES ASSUME IInv, ~lost, current # None
               PROVE  /\ IsPad(current) /\ OnItsWay(current)
                      /\ \A i \in DOMAIN InFlight :
                           InFlight[i] = current => NoLaterPad(InFlight, i)
    BY DEF BatchIsQueued
  <2>1. TypeOK /\ Batch
    BY DEF IInv
  <2>2. CASE out = None
    BY <2>1, <2>2, InFlightIs, LaterIs, QueueType DEF Batch
  <2>3. CASE out # None
    <3>1. ASSUME NEW i \in DOMAIN InFlight, InFlight[i] = current
          PROVE  NoLaterPad(InFlight, i)
      <4>1. CASE i = 1
        <5>1. current = out /\ Newest(0)
          BY <2>1, <2>3, <3>1, <4>1, InFlightIs DEF Batch
        <5>2. 0 \in 0 .. Len(queue) /\ 0 + 1 = 1
          BY <2>1, QueueType
        <5> QED BY <2>1, <2>3, <4>1, <5>1, <5>2, LaterIs
      <4>2. CASE i # 1
        <5>1. i - 1 \in DOMAIN queue /\ (i - 1) + 1 = i /\ i - 1 \in 0 .. Len(queue)
          BY <2>1, <2>3, <3>1, <4>2, InFlightIs, QueueType
        <5>2. queue[i - 1] = current
          BY <2>1, <2>3, <3>1, <5>1, InFlightIs
        <5>3. Newest(i - 1)
          BY <2>1, <5>1, <5>2 DEF Batch
        <5> QED BY <2>1, <2>3, <5>1, <5>3, LaterIs
      <4> QED BY <4>1, <4>2
    <3> QED BY <2>1, <3>1 DEF Batch
  <2> QED BY <2>2, <2>3
<1> QED BY <1>1, InvariantCorrect, PTL

\* Until a packet is discarded, the host's pad will be the last reading, whatever is
\* batched, latched, queued or typed in between (input.c 264-288, InputStream.c 1034-1153).
THEOREM HostAlwaysSeesPad == Spec => []HostWillSeePad
<1>1. IInv => HostWillSeePad
  <2> SUFFICES ASSUME IInv, ~lost, stream = "open", sender # "none", told,
                      pc \in {"poll", "keys", "keyFill", "keyOffer"}
               PROVE  /\ \A i \in DOMAIN InFlight :
                           IsPad(InFlight[i]) /\ NoLaterPad(InFlight, i)
                             => PadOf(InFlight[i]) = g_pad_state
                      /\ NoLaterPad(InFlight, 0) => hostPad = g_pad_state
    BY DEF HostWillSeePad
  <2>1. TypeOK /\ Truth /\ Reading = g_pad_state
    BY DEF IInv, Reading
  <2>2. CASE out = None
    BY <2>1, <2>2, InFlightIs, LaterIs, QueueType DEF Truth
  <2>3. CASE out # None
    <3>1. ASSUME NEW i \in DOMAIN InFlight, IsPad(InFlight[i]), NoLaterPad(InFlight, i)
          PROVE  PadOf(InFlight[i]) = g_pad_state
      <4>1. CASE i = 1
        <5>1. 0 \in 0 .. Len(queue) /\ 0 + 1 = 1
          BY <2>1, QueueType
        <5>2. Newest(0)
          BY <2>1, <2>3, <3>1, <4>1, <5>1, LaterIs
        <5> QED BY <2>1, <2>3, <3>1, <4>1, <5>2, InFlightIs DEF Truth
      <4>2. CASE i # 1
        <5>1. i - 1 \in DOMAIN queue /\ (i - 1) + 1 = i /\ i - 1 \in 0 .. Len(queue)
          BY <2>1, <2>3, <3>1, <4>2, InFlightIs, QueueType
        <5>2. queue[i - 1] = InFlight[i]
          BY <2>1, <2>3, <3>1, <5>1, InFlightIs
        <5>3. Newest(i - 1)
          BY <2>1, <2>3, <3>1, <5>1, LaterIs
        <5> QED BY <2>1, <3>1, <5>1, <5>2, <5>3 DEF Truth
      <4> QED BY <4>1, <4>2
    <3>2. NoLaterPad(InFlight, 0) => hostPad = g_pad_state
      BY <2>1, <2>3, LaterIs DEF Truth
    <3> QED BY <3>1, <3>2
  <2> QED BY <2>2, <2>3
<1> QED BY <1>1, InvariantCorrect, PTL

\* Until a packet is discarded, a queued packet changes only as the newest controller
\* packet and only in its sticks (InputStream.c 1040-1055).
THEOREM OnlySticksChange == Spec => OnlySticksAreBatched
<1> DEFINE Step ==
  ~lost => \A i \in DOMAIN queue :
    LET c == queue[i] IN
    c \in ToSet(queue') /\ cell'[c] # cell[c]
      => /\ cell'[c] = [cell[c] EXCEPT !.axis = cell'[c].axis]
         /\ NoLaterPad(queue, i)
<1>1. IInv /\ [Next]_vars => [Step]_vars
  <2> SUFFICES ASSUME IInv, Next, ~lost, NEW i \in DOMAIN queue,
                      queue[i] \in ToSet(queue'), cell'[queue[i]] # cell[queue[i]]
               PROVE  /\ cell'[queue[i]] = [cell[queue[i]] EXCEPT !.axis = cell'[queue[i]].axis]
                      /\ NoLaterPad(queue, i)
    OBVIOUS
  <2>1. TypeOK /\ Ownership /\ Positions /\ Batch
    BY DEF IInv
  <2>2. ~Stopped
    <3>1. Stopped => queue' = <<>>
      BY DEF Stopped
    <3>2. queue' # <<>>
      BY DEF ToSet
    <3> QED BY <3>1, <3>2
  <2>3. SendBatch
    BY <2>1, <2>2, Untouched
  <2>4. Compatible
    BY <2>3 DEF SendBatch
  <2>5. queue[i] = current
    BY <2>1, <2>3, <2>4, Batched, QueueType
  <2>6. IsPad(current) /\ Newest(i)
    BY <2>1, <2>4, <2>5 DEF Batch, Compatible
  <2>7. cell'[current] = [cell[current] EXCEPT !.axis = ev.axis]
    BY <2>1, <2>3, <2>4, <2>6, Batched
  <2>8. cell'[current].axis = ev.axis
    BY <2>1, <2>3, <2>4, Batched DEF SendBatch, PadOf
  <2> QED BY <2>5, <2>6, <2>7, <2>8 DEF NoLaterPad, Newest
<1> QED BY <1>1, InvariantCorrect, PTL DEF OnlySticksAreBatched, Spec
\* The inductive invariant with the keys.
LEMMA KeysCorrect == Spec => []KInv
<1>1. Init => Events /\ KeyTruth
  BY DEF Init, Events, KeyTruth, NoEvent
<1>2. IInv /\ Events /\ KeyTruth /\ UNCHANGED vars => Events' /\ KeyTruth'
  <2> SUFFICES ASSUME IInv, Events, KeyTruth, UNCHANGED vars PROVE Events' /\ KeyTruth'
    OBVIOUS
  <2> USE DEF vars, inputVars, hostVars
  <2>1. Events'
    BY DEF Events, IsKey
  <2>2. \A k \in Keys : Held(k)' => Held(k)
    BY DEF Held, LastAbout, IsKey
  <2> QED BY <2>1, <2>2 DEF KeyTruth, KnownKeys
<1>3. KInv /\ [Next]_vars => KInv'
  BY <1>2, Inductive, EventsStep, KeyTruthStep DEF KInv
<1> QED BY <1>1, <1>3, Initial, PTL DEF Spec, KInv

\* Until a packet is discarded, the host never believes a key held that the client has
\* forgotten: its release is on the way or still to be sent, for any set of keys, any
\* interleaving with the sender and any bound of the queue (input.c 337-399).
THEOREM HostKeysKnown == Spec => []HostHoldsKnownKeys
<1>1. KInv => HostHoldsKnownKeys
  <2> SUFFICES ASSUME KInv, ~lost, stream = "open", sender # "none", NEW k \in Keys, WillHold(k)
               PROVE  k \in KnownKeys
    BY DEF HostHoldsKnownKeys
  <2>1. TypeOK /\ KeyTruth
    BY DEF KInv, IInv
  <2>2. Held(k)
    <3>1. CASE out = None
      <4>1. InFlight = queue
        BY <2>1, <3>1, InFlightIs
      <4>2. CASE k \in hostKeys /\ \A j \in DOMAIN InFlight : ~IsKey(InFlight[j], k)
        BY <3>1, <4>1, <4>2 DEF Held, LastAbout
      <4>3. CASE \E i \in DOMAIN InFlight :
                   /\ IsKey(InFlight[i], k) /\ cell[InFlight[i]].down
                   /\ \A j \in DOMAIN InFlight : j > i => ~IsKey(InFlight[j], k)
        BY <4>1, <4>3 DEF Held, LastAbout
      <4> QED BY <4>2, <4>3 DEF WillHold
    <3>2. CASE out # None
      <4>1. /\ DOMAIN InFlight = 1 .. Len(queue) + 1 /\ InFlight[1] = out
            /\ \A i \in DOMAIN queue : i + 1 \in DOMAIN InFlight /\ InFlight[i + 1] = queue[i]
        BY <2>1, <3>2, InFlightIs, QueueType
      <4>2. ASSUME NEW i \in 1 .. Len(queue) + 1,
                   \A j \in DOMAIN InFlight : j > i => ~IsKey(InFlight[j], k)
            PROVE  LastAbout(i - 1, k)
        <5> SUFFICES ASSUME NEW j \in DOMAIN queue, j > i - 1 PROVE ~IsKey(queue[j], k)
          BY DEF LastAbout
        <5>1. j + 1 > i /\ j + 1 \in DOMAIN InFlight /\ InFlight[j + 1] = queue[j]
          BY <2>1, <4>1, QueueType
        <5> QED BY <4>2, <5>1
      <4>3. CASE k \in hostKeys /\ \A j \in DOMAIN InFlight : ~IsKey(InFlight[j], k)
        <5>1. ~IsKey(out, k) /\ \A j \in DOMAIN queue : ~IsKey(queue[j], k)
          BY <2>1, <4>1, <4>3, QueueType
        <5> QED BY <4>3, <5>1 DEF Held, LastAbout
      <4>4. ASSUME NEW i \in DOMAIN InFlight, IsKey(InFlight[i], k), cell[InFlight[i]].down,
                   \A j \in DOMAIN InFlight : j > i => ~IsKey(InFlight[j], k)
            PROVE  Held(k)
        <5>1. LastAbout(i - 1, k)
          BY <4>1, <4>2, <4>4
        <5>2. CASE i = 1
          <6>1. LastAbout(0, k) /\ InFlight[i] = out
            BY <4>1, <5>1, <5>2
          <6> QED BY <3>2, <4>4, <6>1 DEF Held
        <5>3. CASE i # 1
          <6>1. i - 1 \in DOMAIN queue /\ (i - 1) + 1 = i
            BY <2>1, <4>1, <4>4, <5>3, QueueType
          <6>2. InFlight[i] = queue[i - 1]
            BY <4>1, <6>1
          <6> QED BY <4>4, <5>1, <6>1, <6>2 DEF Held
        <5> QED BY <5>2, <5>3
      <4> QED BY <4>3, <4>4 DEF WillHold
    <3> QED BY <3>1, <3>2
  <2> QED BY <2>1, <2>2 DEF KeyTruth
<1> QED BY <1>1, KeysCorrect, PTL
=============================================================================

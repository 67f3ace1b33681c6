----------------------------- MODULE InputQueue -----------------------------
(***************************************************************************)
(* The way of the user's input to the host: the input thread of            *)
(* src/input.c polls pad and keyboard and queues packets; the InputSend    *)
(* thread of common-c InputStream.c sends them.  A controller packet that  *)
(* waits in the queue takes up later stick positions for as long as its    *)
(* buttons stay the same: currentQueuedControllerPacket points at it.  The *)
(* main thread starts and stops the stream while the input thread polls.   *)
(* A packet holder is a cell of memory, which is reused once it is freed.  *)
(***************************************************************************)
EXTENDS Integers, Sequences, SequencesExt

CONSTANTS
  Cells,     \* packet holders
  Buttons,   \* the buttons of the pad
  Axes,      \* stick positions; 0 is the centre
  Codes,     \* codes the keyboard reports
  QueueMax,  \* MAX_QUEUED_INPUT_PACKETS
  FollowLoss \* bound: behaviours go on after a packet was discarded

None == "none"
NoKey == "VK_0"

ASSUME InputAssumption ==
  /\ None \notin Cells /\ 0 \in Axes
  /\ QueueMax \in Nat \ {0} /\ FollowLoss \in BOOLEAN

\* The Windows key of a code: several codes of one key, as its letter with and without
\* shift, or the key on the keypad, and codes without a key.
Vk(code) ==
  CASE code \in {"a", "A"} -> "VK_A"
    [] code \in {"1", "!"} -> "VK_1"
    [] code \in {"return", "newline"} -> "VK_RETURN"
    [] OTHER -> NoKey

VARIABLES
  pc,          \* where the input thread is
  ev,          \* the pad event it is sending
  mine,        \* the packet it has allocated
  g_pad_state, \* the last reading of the pad
  last_keys,   \* last_keys_down of one keyboard
  todo, key,   \* key events still to be sent in this poll, and the one being sent
  cell,        \* contents of the packet holders
  queue,       \* packetQueue
  current,     \* currentQueuedControllerPacket[0]
  stream,      \* the input stream: "open", then "flagged", "draining" and "off"
  sender, out, \* the InputSend thread and the packet it has taken
  hostPad, hostKeys, \* what the host believes the user holds
  told,        \* history: the host was sent a controller packet in this stream
  lost         \* history: a packet was discarded without being sent

inputVars == <<ev, mine, g_pad_state, last_keys, todo, key>>
hostVars == <<hostPad, hostKeys>>
vars == <<pc, inputVars, cell, queue, current, stream, sender, out, hostVars, told, lost>>

Pad == [buttons : SUBSET Buttons, axis : Axes]
Neutral == [buttons |-> {}, axis |-> 0]
Keys == {Vk(c) : c \in Codes} \ {NoKey}
KeyEvent == [key : Keys, down : BOOLEAN]
NoEvent == [key |-> NoKey, down |-> FALSE]
Blank == [kind |-> "blank", buttons |-> {}, axis |-> 0, key |-> NoKey, down |-> FALSE]
Packet == [kind : {"blank", "pad", "key"}, buttons : SUBSET Buttons, axis : Axes,
           key : Keys \cup {NoKey}, down : BOOLEAN]

\* Bound: whether polls and streams go on.
Followed == FollowLoss \/ ~lost

Used == ToSet(queue) \cup {mine, out}
Free == Cells \ Used
\* The freed packets' contents: forgotten, but where `current` can still read them.
Freed(cs) == [c \in Cells |-> IF c \in cs \ {current} THEN Blank ELSE cell[c]]

Init ==
  /\ pc = "poll" /\ ev = Neutral /\ mine = None
  /\ g_pad_state = Neutral
  /\ last_keys = {} /\ todo = {} /\ key = NoEvent
  /\ cell = [c \in Cells |-> Blank]
  /\ queue = <<>> /\ current = None
  /\ stream = "off" /\ sender = "none" /\ out = None
  /\ hostPad = Neutral /\ hostKeys = {}
  /\ told = FALSE /\ lost = FALSE

-----------------------------------------------------------------------------
(* LbqOfferQueueItem and allocatePacketHolder. *)

\* Neither the queue nor the free list has been shut down.
QueuesOpen == stream \in {"open", "flagged"}

\* Fault: one packet too many.
OfferedOneMore == QueuesOpen /\ Len(queue) <= QueueMax

\* The queue takes a packet.
Offered == QueuesOpen /\ Len(queue) < QueueMax

\* The packet goes into the queue, or back to the free list.  What `current` holds
\* does not matter to either.
Offer ==
  \/ /\ Offered
     /\ queue' = Append(queue, mine)
     /\ UNCHANGED <<cell, lost>>
  \/ /\ ~Offered
     /\ cell' = Freed({mine})
     /\ lost' = TRUE
     /\ UNCHANGED queue

-----------------------------------------------------------------------------
(* The input thread: the pad. *)

\* input_loop reads the pad.  A pad that is gone while buttons were held reads as one at
\* rest.  The loop reads pad and keyboard in turn; as either may have nothing to report,
\* that is a choice between them.
PadPoll ==
  /\ pc = "poll" /\ Followed
  /\ ev' \in Pad
  /\ pc' = "check"
  /\ UNCHANGED <<mine, g_pad_state, last_keys, todo, key, cell, queue, current, stream, sender,
                 out, hostVars, told, lost>>

\* LiSendControllerEvent: the test of `initialized`.
SendCheck ==
  /\ pc = "check"
  /\ pc' = IF stream = "open" THEN "batch" ELSE "state"
  /\ UNCHANGED <<inputVars, cell, queue, current, stream, sender, out, hostVars, told, lost>>

\* The waiting packet has the buttons of this event.
Compatible == current # None /\ cell[current].buttons = ev.buttons

\* Fault: the waiting packet keeps its stick positions.
BatchKeepsSticks ==
  /\ pc = "batch"
  /\ told' = (told \/ Compatible)
  /\ pc' = IF Compatible THEN "state" ELSE "fill"
  /\ UNCHANGED <<inputVars, cell, queue, current, stream, sender, out, hostVars, lost>>

\* Under the batching mutex: the waiting packet is updated in place, or the batch ends.
SendBatch ==
  /\ pc = "batch"
  /\ \/ /\ Compatible
        /\ cell' = [cell EXCEPT ![current] =
                      [@ EXCEPT !.kind = "pad", !.buttons = ev.buttons, !.axis = ev.axis]]
        /\ told' = TRUE
        /\ pc' = "state"
     \/ /\ ~Compatible
        /\ pc' = "fill"
        /\ UNCHANGED <<cell, told>>
  /\ UNCHANGED <<inputVars, queue, current, stream, sender, out, hostVars, lost>>

\* A packet is allocated, filled under the mutex and made the one to update.  No
\* packet is allocated once the free list is shut down.
SendFill ==
  /\ pc = "fill"
  /\ \/ /\ QueuesOpen
        /\ \E c \in Free :
             /\ mine' = c
             /\ current' = c
             /\ cell' = [cell EXCEPT ![c] = [Blank EXCEPT !.kind = "pad",
                                               !.buttons = ev.buttons, !.axis = ev.axis]]
        /\ pc' = "offer"
     \/ /\ ~QueuesOpen
        /\ pc' = "state"
        /\ UNCHANGED <<mine, current, cell>>
  /\ UNCHANGED <<ev, g_pad_state, last_keys, todo, key, queue,
                 stream, sender, out, hostVars, told, lost>>

\* The new packet is queued after the mutex is released.
SendOffer ==
  /\ pc = "offer"
  /\ Offer
  /\ told' = (told \/ Offered)
  /\ mine' = None
  /\ pc' = "state"
  /\ UNCHANGED <<ev, g_pad_state, last_keys, todo, key, current,
                 stream, sender, out, hostVars>>

\* The snapshot that ps3input_get_data copies, under the pad's mutex.
PadState ==
  /\ pc = "state"
  /\ g_pad_state' = ev
  /\ ev' = Neutral
  /\ pc' = "poll"
  /\ UNCHANGED <<mine, last_keys, todo, key, cell, queue, current, stream, sender, out, hostVars,
                 told, lost>>

-----------------------------------------------------------------------------
(* The input thread: the keyboard. *)

\* Fault: keys that are no longer pressed are forgotten.
ReadPressesOnly ==
  /\ pc = "poll" /\ Followed
  /\ \E codes \in SUBSET Codes :
       LET pressed == {Vk(c) : c \in codes} \ {NoKey} IN
       /\ todo' = [key : pressed \ last_keys, down : {TRUE}]
       /\ last_keys' = pressed
  /\ pc' = "keys"
  /\ UNCHANGED <<ev, mine, g_pad_state, key, cell, queue, current,
                 stream, sender, out, hostVars, told, lost>>

\* A report of the keyboard.  Codes of one key, as `a`
\* and `A`, are the same key; a code without a key is left out.
KeyRead ==
  /\ pc = "poll" /\ Followed
  /\ \E codes \in SUBSET Codes :
       LET pressed == {Vk(c) : c \in codes} \ {NoKey} IN
       /\ todo' = [key : pressed \ last_keys, down : {TRUE}]
                    \cup [key : last_keys \ pressed, down : {FALSE}]
       /\ last_keys' = pressed
  /\ pc' = "keys"
  /\ UNCHANGED <<ev, mine, g_pad_state, key, cell, queue, current,
                 stream, sender, out, hostVars, told, lost>>

\* The next key event, those of pressed keys first, and the test of `initialized` for it.
KeyNext ==
  /\ pc = "keys"
  /\ \/ \E e \in todo :
          /\ e.down \/ \A f \in todo : ~f.down
          /\ todo' = todo \ {e}
          /\ IF stream = "open" THEN key' = e /\ pc' = "keyFill" ELSE UNCHANGED <<key, pc>>
     \/ /\ todo = {}
        /\ pc' = "poll"
        /\ UNCHANGED <<todo, key>>
  /\ UNCHANGED <<ev, mine, g_pad_state, last_keys, cell, queue,
                 current, stream, sender, out, hostVars, told, lost>>

\* A key packet is shorter than a controller packet: it leaves the memory in which
\* that has its buttons and sticks as it was.
KeyFill ==
  /\ pc = "keyFill"
  /\ \/ /\ QueuesOpen
        /\ \E c \in Free :
             /\ mine' = c
             /\ cell' = [cell EXCEPT ![c] = [@ EXCEPT !.kind = "key", !.key = key.key,
                                                      !.down = key.down]]
        /\ pc' = "keyOffer"
        /\ UNCHANGED key
     \/ /\ ~QueuesOpen
        /\ key' = NoEvent
        /\ pc' = "keys"
        /\ UNCHANGED <<mine, cell>>
  /\ UNCHANGED <<ev, g_pad_state, last_keys, todo, queue, current,
                 stream, sender, out, hostVars, told, lost>>

KeyOffer ==
  /\ pc = "keyOffer"
  /\ Offer
  /\ mine' = None /\ key' = NoEvent
  /\ pc' = "keys"
  /\ UNCHANGED <<ev, g_pad_state, last_keys, todo, current, stream,
                 sender, out, hostVars, told>>

-----------------------------------------------------------------------------
(* The InputSend thread. *)

\* LbqWaitForQueueElement: draining, the queue still gives what it holds.
SenderTake ==
  /\ sender = "wait" /\ queue # <<>>
  /\ out' = Head(queue)
  /\ queue' = Tail(queue)
  /\ sender' = "latch"
  /\ UNCHANGED <<pc, inputVars, cell, current, stream, hostVars, told, lost>>

\* Fault: the packet can still be updated while it is sent.
LatchForgotten ==
  /\ sender = "latch"
  /\ sender' = "send"
  /\ UNCHANGED <<pc, inputVars, cell, queue, current, stream, out, hostVars, told, lost>>

\* Under the batching mutex: a controller packet is no longer the one to update.
SenderLatch ==
  /\ sender = "latch"
  /\ current' = IF cell[out].kind = "pad" /\ current = out THEN None ELSE current
  /\ sender' = "send"
  /\ UNCHANGED <<pc, inputVars, cell, queue, stream, out, hostVars, told, lost>>

\* sendInputPacket and freePacketHolder.
SenderSend ==
  /\ sender = "send"
  /\ LET p == cell[out] IN
     \/ /\ p.kind = "pad"
        /\ hostPad' = [buttons |-> p.buttons, axis |-> p.axis]
        /\ UNCHANGED hostKeys
     \/ /\ p.kind = "key"
        /\ hostKeys' = IF p.down THEN hostKeys \cup {p.key} ELSE hostKeys \ {p.key}
        /\ UNCHANGED hostPad
  /\ cell' = Freed({out})
  /\ out' = None
  /\ sender' = "wait"
  /\ UNCHANGED <<pc, inputVars, queue, current, stream, told, lost>>

\* The control stream refuses the packet: the thread reports a termination and ends.
SenderFail ==
  /\ sender = "send"
  /\ cell' = Freed({out})
  /\ out' = None
  /\ sender' = "none"
  /\ UNCHANGED <<pc, inputVars, queue, current, stream, hostVars, told, lost>>

SenderExit ==
  /\ sender = "wait" /\ stream = "draining" /\ queue = <<>>
  /\ sender' = "none"
  /\ UNCHANGED <<pc, inputVars, cell, queue, current, stream, out, hostVars, told, lost>>

-----------------------------------------------------------------------------
(* The main thread. *)

\* initializeInputStream and startInputStream, without the packet that asks for rumble
\* events.  `current` is left as it was.  The host starts a session with nothing held.
Start ==
  /\ stream = "off" /\ Followed
  /\ queue' = <<>>
  /\ sender' = "wait"
  /\ stream' = "open"
  /\ hostPad' = Neutral /\ hostKeys' = {} /\ told' = FALSE
  /\ UNCHANGED <<pc, inputVars, cell, current, out, lost>>

\* stopInputStream: `initialized` is cleared, ...
StopFlag ==
  /\ stream = "open"
  /\ stream' = "flagged"
  /\ UNCHANGED <<pc, inputVars, cell, queue, current, sender, out, hostVars, told, lost>>

\* ... the queues are told ...
StopDrain ==
  /\ stream = "flagged"
  /\ stream' = "draining"
  /\ UNCHANGED <<pc, inputVars, cell, queue, current, sender, out, hostVars, told, lost>>

\* ... and, once the sender has ended, destroyInputStream frees what is left.  A
\* packet that `current` still points at may then read as anything.
Stopped ==
  /\ stream = "draining" /\ sender = "none"
  /\ stream' = "off"
  /\ queue' = <<>>
  /\ lost' = (lost \/ queue # <<>>)
  /\ \E b \in SUBSET Buttons :
       cell' = [c \in Cells |-> IF c = current /\ c # mine THEN [cell[c] EXCEPT !.buttons = b]
                               ELSE Freed(ToSet(queue))[c]]
  /\ UNCHANGED <<pc, inputVars, current, sender, out, hostVars, told>>

InputThread ==
  \/ PadPoll \/ SendCheck \/ SendBatch \/ SendFill \/ SendOffer \/ PadState
  \/ KeyRead \/ KeyNext \/ KeyFill \/ KeyOffer

InputSend == SenderTake \/ SenderLatch \/ SenderSend \/ SenderFail \/ SenderExit

Main == Start \/ StopFlag \/ StopDrain \/ Stopped

Next == InputThread \/ InputSend \/ Main

Spec == Init /\ [][Next]_vars

\* The packet holders are interchangeable.
CellSymmetry == Permutations(Cells)

-----------------------------------------------------------------------------
(* Properties. *)

\* Every variable has its type.
TypeOK ==
  /\ pc \in {"poll", "check", "batch", "fill", "offer", "state", "keys", "keyFill", "keyOffer"}
  /\ ev \in Pad
  /\ mine \in Cells \cup {None} /\ out \in Cells \cup {None}
  /\ g_pad_state \in Pad
  /\ last_keys \in SUBSET Keys /\ todo \in SUBSET KeyEvent /\ key \in KeyEvent \cup {NoEvent}
  /\ cell \in [Cells -> Packet]
  /\ queue \in Seq(Cells) /\ Len(queue) \in 0 .. QueueMax
  /\ current \in Cells \cup {None}
  /\ stream \in {"off", "open", "flagged", "draining"}
  /\ sender \in {"none", "wait", "latch", "send"}
  /\ hostPad \in Pad /\ hostKeys \in SUBSET Keys
  /\ told \in BOOLEAN /\ lost \in BOOLEAN

\* The packets on their way, oldest first.
InFlight == (IF out = None THEN <<>> ELSE <<out>>) \o queue

IsPad(c) == cell[c].kind = "pad"
PadOf(c) == [buttons |-> cell[c].buttons, axis |-> cell[c].axis]

\* No controller packet is after the i-th.
NoLaterPad(packets, i) == \A j \in DOMAIN packets : j > i => ~IsPad(packets[j])

\* Where the packet to update may be: queued, about to be, or just taken.
OnItsWay(c) ==
  \/ c \in ToSet(queue)
  \/ pc = "offer" /\ c = mine
  \/ sender = "latch" /\ c = out

\* As long as no packet was discarded, an event that is put into the waiting packet
\* reaches the host, and reaches it last: that packet is a controller packet on its
\* way, not latched by the sender, and no other controller packet is behind it
\* (InputStream.c 347-363, 1034-1144).
BatchIsQueued ==
  ~lost /\ current # None =>
    /\ IsPad(current) /\ OnItsWay(current)
    /\ \A i \in DOMAIN InFlight : InFlight[i] = current => NoLaterPad(InFlight, i)

\* Between two events the newest controller packet on its way, or what the host has
\* when there is none, is the last reading of the pad: batching, latching and the queue
\* never leave the host with an older one (input.c 264-288, InputStream.c 1034-1153).
HostWillSeePad ==
  ~lost /\ stream = "open" /\ sender # "none" /\ told /\ pc \in {"poll", "keys", "keyFill", "keyOffer"}
    => /\ \A i \in DOMAIN InFlight :
            IsPad(InFlight[i]) /\ NoLaterPad(InFlight, i) => PadOf(InFlight[i]) = g_pad_state
       /\ NoLaterPad(InFlight, 0) => hostPad = g_pad_state

\* A packet about key k.
IsKey(c, k) == cell[c].kind = "key" /\ cell[c].key = k

\* The host will believe that k is held: the last packet about it decides.
WillHold(k) ==
  \/ \E i \in DOMAIN InFlight :
       /\ IsKey(InFlight[i], k) /\ cell[InFlight[i]].down
       /\ \A j \in DOMAIN InFlight : j > i => ~IsKey(InFlight[j], k)
  \/ k \in hostKeys /\ \A j \in DOMAIN InFlight : ~IsKey(InFlight[j], k)

\* The keys that are down, or whose press or release is still to be sent.
KnownKeys == last_keys \cup {e.key : e \in todo} \cup {key.key}

\* The host never holds a key that the client has forgotten: each key it will believe
\* held is in last_keys_down, or its release is still to be sent (input.c 382-399).
HostHoldsKnownKeys ==
  ~lost /\ stream = "open" /\ sender # "none" => \A k \in Keys : WillHold(k) => k \in KnownKeys

\* A packet changes in the queue only if it is the newest controller packet, and then
\* only in its stick position: no press or release is batched away, no key packet is
\* written over (InputStream.c 1040-1055).
OnlySticksAreBatched ==
  [][~lost => \A i \in DOMAIN queue :
       LET c == queue[i] IN
       c \in ToSet(queue') /\ cell'[c] # cell[c]
         => /\ cell'[c] = [cell[c] EXCEPT !.axis = cell'[c].axis]
            /\ NoLaterPad(queue, i)]_vars

\* "The packet holder we updated was already enqueued" (InputStream.c 1149).
UpdatedIsEnqueued == pc = "batch" /\ Compatible => OnItsWay(current)
=============================================================================

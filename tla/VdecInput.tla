----------------------------- MODULE VdecInput -----------------------------
(***************************************************************************)
(* The input side of the decoder in src/video.c: the decoder thread        *)
(* (ps3_video_submit_decode_unit) copies an access unit into               *)
(* vdec_buf[vdec_front], hands the buffer to VDEC and goes on to the next  *)
(* buffer; VDEC's own thread (vdec_callback) reports that a unit is        *)
(* consumed.  The two threads share one counter, vdec_au_pending, a        *)
(* volatile int that both of them increment or decrement without a lock:   *)
(* each ++ and -- is a load and a store.  Atomic = TRUE is the same code   *)
(* with indivisible updates, to tell the protocol from the race.           *)
(***************************************************************************)
EXTENDS Integers, Sequences

CONSTANTS
  VDEC_BUF_COUNT,  \* number of bitstream buffers, 4 in the code
  HwDepth,         \* units VDEC holds before it answers VDEC_ERROR_BUSY
  Atomic,          \* TRUE: ++ and -- on vdec_au_pending are indivisible
  Errors           \* TRUE: VDEC may also raise VDEC_CALLBACK_ERROR

ASSUME VdecInputAssumption ==
  /\ VDEC_BUF_COUNT \in Nat \ {0}
  /\ HwDepth \in Nat \ {0}
  /\ Atomic \in BOOLEAN /\ Errors \in BOOLEAN

VARIABLES
  vdec_au_pending,  \* the shared counter
  vdec_front,       \* buffer the decoder thread fills
  sub, sub_load,    \* decoder thread: where it is, what it loaded
  status,           \* its last return value
  cb, cb_load,      \* callback thread: where it is, what it loaded
  hw                \* VDEC: buffers accepted and not consumed yet, oldest first

subVars == <<vdec_front, sub, sub_load, status>>
cbVars == <<cb, cb_load>>
vars == <<vdec_au_pending, subVars, cbVars, hw>>

Buf == 0 .. VDEC_BUF_COUNT - 1
Held == {hw[i] : i \in 1 .. Len(hw)}   \* the buffers VDEC may read

Init ==
  /\ vdec_au_pending = 0 /\ vdec_front = 0
  /\ sub = "idle" /\ sub_load = 0
  /\ status = "DR_OK"
  /\ cb = "idle" /\ cb_load = 0
  /\ hw = <<>>

-----------------------------------------------------------------------------
(* The decoder thread. *)

Return(s) == sub' = "idle" /\ status' = s

\* A decode unit arrives.  When the hardware queue counts as full it is dropped
\* at once and an IDR frame requested; one of a length out of bounds is ignored.
Submit ==
  /\ sub = "idle"
  /\ \/ Return("DR_OK")
     \/ /\ vdec_au_pending >= VDEC_BUF_COUNT
        /\ Return("DR_NEED_IDR")
     \/ /\ vdec_au_pending < VDEC_BUF_COUNT
        /\ sub' = "fill"
        /\ UNCHANGED status
  /\ UNCHANGED <<vdec_au_pending, vdec_front, sub_load, cbVars, hw>>

\* vdec_buf[vdec_front] is grown if need be and overwritten with the unit.  A
\* unit that cannot be stored or converted to Annex B is left there, unsubmitted.
Fill ==
  /\ sub = "fill"
  /\ \/ sub' = "inc" /\ UNCHANGED status
     \/ Return("DR_OK")
  /\ UNCHANGED <<vdec_au_pending, vdec_front, sub_load, cbVars, hw>>

\* vdec_au_pending++ at 725, and vdec_au_pending-- at 744 (d = -1).
LoadCounter(from, to, done, d) ==
  /\ sub = from
  /\ IF Atomic
     THEN vdec_au_pending' = vdec_au_pending + d /\ sub' = done /\ UNCHANGED sub_load
     ELSE sub_load' = vdec_au_pending /\ sub' = to /\ UNCHANGED vdec_au_pending
  /\ UNCHANGED <<vdec_front, status, cbVars, hw>>

StoreCounter(from, done, d) ==
  /\ sub = from
  /\ vdec_au_pending' = sub_load + d
  /\ sub' = done
  /\ UNCHANGED <<vdec_front, sub_load, status, cbVars, hw>>

Increment == LoadCounter("inc", "incStore", "decode", 1) \/ StoreCounter("incStore", "decode", 1)

\* Fault: a refused unit stays counted.
UndoForgotten ==
  /\ sub = "undo" /\ sub' = "fail"
  /\ UNCHANGED <<vdec_au_pending, vdec_front, sub_load, status, cbVars, hw>>

Undo == LoadCounter("undo", "undoStore", "fail", -1) \/ StoreCounter("undoStore", "fail", -1)

\* Fault: the next unit goes into the buffer just handed over.
AcceptedInPlace ==
  /\ Len(hw) < HwDepth
  /\ hw' = Append(hw, vdec_front)
  /\ UNCHANGED vdec_front
  /\ Return("DR_OK")

\* vdecDecodeAu.  VDEC accepts the unit while it has room and may refuse it for
\* reasons of its own; the second call is made only when the first was BUSY.
Accepted ==
  /\ Len(hw) < HwDepth
  /\ hw' = Append(hw, vdec_front)
  /\ vdec_front' = (vdec_front + 1) % VDEC_BUF_COUNT
  /\ Return("DR_OK")

Refused(next) ==
  /\ sub' = next
  /\ UNCHANGED <<hw, vdec_front, status>>

Decode ==
  /\ \/ sub = "decode" /\ Accepted
     \/ sub = "decode" /\ Len(hw) >= HwDepth /\ Refused("retry")
     \/ sub = "decode" /\ Refused("undo")
     \/ sub = "retry" /\ Accepted
     \/ sub = "retry" /\ Refused("undo")
  /\ UNCHANGED <<vdec_au_pending, sub_load, cbVars>>

Fail ==
  /\ sub = "fail"
  /\ Return("DR_NEED_IDR")
  /\ UNCHANGED <<vdec_au_pending, vdec_front, sub_load, cbVars, hw>>

-----------------------------------------------------------------------------
(* VDEC and its callback thread. *)

\* The oldest unit is consumed and VDEC calls back with AUDONE.
AuDone ==
  /\ cb = "idle" /\ hw # <<>>
  /\ hw' = Tail(hw)
  /\ cb' = "check"
  /\ UNCHANGED <<vdec_au_pending, subVars, cb_load>>

\* Fault: a consumed unit stays counted.
CbForgets ==
  /\ cb = "check"
  /\ cb' = "idle"
  /\ UNCHANGED <<vdec_au_pending, subVars, cb_load, hw>>

\* if (vdec_au_pending > 0) vdec_au_pending--
CbCheck ==
  /\ cb = "check"
  /\ IF vdec_au_pending > 0
     THEN IF Atomic
          THEN vdec_au_pending' = vdec_au_pending - 1 /\ cb' = "idle"
          ELSE cb' = "load" /\ UNCHANGED vdec_au_pending
     ELSE cb' = "idle" /\ UNCHANGED vdec_au_pending
  /\ UNCHANGED <<subVars, cb_load, hw>>

CbLoad ==
  /\ cb = "load"
  /\ cb_load' = vdec_au_pending
  /\ cb' = "store"
  /\ UNCHANGED <<vdec_au_pending, subVars, hw>>

CbStore ==
  /\ cb = "store"
  /\ vdec_au_pending' = cb_load - 1
  /\ cb' = "idle"
  /\ UNCHANGED <<subVars, cb_load, hw>>

\* VDEC_CALLBACK_ERROR: the counter is cleared, whether VDEC gives up the units it
\* holds or reports them later.
ErrorCallback ==
  /\ Errors /\ cb = "idle"
  /\ hw' \in {<<>>, hw}
  /\ vdec_au_pending' = 0
  /\ UNCHANGED <<subVars, cbVars>>

\* The end of a stream and the start of the next one: the decoder thread is joined,
\* VDEC is closed with what it holds, and reset_video_runtime_state starts afresh.
Restart ==
  /\ sub = "idle" /\ cb = "idle"
  /\ vdec_au_pending' = 0 /\ vdec_front' = 0
  /\ hw' = <<>>
  /\ UNCHANGED <<sub, sub_load, status, cbVars>>

-----------------------------------------------------------------------------
SubmitStep == Fill \/ Increment \/ Decode \/ Undo \/ Fail
CallbackStep == CbCheck \/ CbLoad \/ CbStore
Next == Submit \/ SubmitStep \/ AuDone \/ CallbackStep \/ ErrorCallback \/ Restart

Spec == Init /\ [][Next]_vars

\* A call that was entered runs on, and VDEC consumes what it accepted; whether
\* the host sends another unit is up to the host.
FairSpec == Spec /\ WF_vars(SubmitStep) /\ WF_vars(AuDone) /\ WF_vars(CallbackStep)

-----------------------------------------------------------------------------
\* Types; lost updates never take vdec_au_pending above the number of buffers, and
\* below zero by two at most: one for a decrement that was computed before a unit was
\* counted, one for taking that unit back.
MinPending == -2

TypeOK ==
  /\ vdec_au_pending \in MinPending .. VDEC_BUF_COUNT /\ vdec_front \in Buf
  /\ sub \in {"idle", "fill", "inc", "incStore", "decode", "retry",
              "undo", "undoStore", "fail"}
  /\ sub_load \in MinPending .. VDEC_BUF_COUNT /\ cb_load \in MinPending .. VDEC_BUF_COUNT
  /\ status \in {"DR_OK", "DR_NEED_IDR"}
  /\ cb \in {"idle", "check", "load", "store"}
  /\ hw \in Seq(Buf) /\ Len(hw) <= HwDepth

\* VDEC never reads a buffer that is being written or reallocated
\* (src/video.c:93-96, 625-626).
BufferOwnership == sub = "fill" => vdec_front \notin Held

\* The counter is what it claims to be: the units handed to VDEC and not yet
\* reported consumed, plus the one being handed over.
InHandover == IF sub \in {"decode", "retry", "undo"} THEN 1 ELSE 0
InCallback == IF cb = "check" THEN 1 ELSE 0
PendingIsExact == vdec_au_pending = Len(hw) + InHandover + InCallback

\* VDEC consumes the buffers in the order they were filled: what it holds is the
\* run of buffers that ends just before vdec_front.
ConsumedInOrder ==
  \A i \in 1 .. Len(hw) : hw[i] = (vdec_front - (Len(hw) + 1 - i)) % VDEC_BUF_COUNT

\* A unit that was taken in hand and could not be processed is answered with
\* DR_NEED_IDR (Limelight.h:298-300).
UnprocessedUnitRequestsIdr ==
  [][sub = "fill" /\ sub' = "idle" => status' = "DR_NEED_IDR"]_<<sub, status>>

\* However many updates are lost, a queue that counts as full has a unit on its way
\* whose end lowers the counter: with nothing in VDEC, in its callback or in hand,
\* the counter is never stuck where Submit drops every unit (src/video.c:618-623).
FullIsBusy ==
  vdec_au_pending >= VDEC_BUF_COUNT => sub # "idle" \/ cb # "idle" \/ hw # <<>>

\* A full queue empties again, so that submission resumes (src/video.c:622).
SaturationRecovers ==
  vdec_au_pending >= VDEC_BUF_COUNT ~> vdec_au_pending < VDEC_BUF_COUNT
=============================================================================

--------------------------- MODULE FrameRegister ---------------------------
(***************************************************************************)
(* What the pool of decoded-frame buffers promises to the display: it      *)
(* behaves as a register that holds the newest picture of the running      *)
(* stream.  The decoder side publishes pictures, the display side samples  *)
(* the register for the duration of one draw; older pictures may be        *)
(* skipped, never shown late, and a picture never changes while it is      *)
(* sampled.  FramePool is shown to implement this specification.           *)
(***************************************************************************)
EXTENDS Integers

VARIABLES
  latest,   \* number of the newest picture of this stream, 0 before the first
  sampled   \* number of the picture being drawn, 0 when nothing is drawn

regVars == <<latest, sampled>>

RegInit ==
  /\ latest = 0
  /\ sampled = 0

\* The decoder delivers a picture; pictures are numbered in decode order.
Publish ==
  /\ latest' \in Nat
  /\ latest' > latest
  /\ UNCHANGED sampled

\* A draw starts, and takes the newest picture there is.
Sample ==
  /\ sampled = 0
  /\ latest > 0
  /\ sampled' = latest
  /\ UNCHANGED latest

\* The draw ends.
Finish ==
  /\ sampled' = 0
  /\ UNCHANGED latest

\* A stream ends or a new one starts: its pictures are forgotten, and none of
\* them is on its way to the display.
Restart ==
  /\ sampled = 0
  /\ latest' = 0
  /\ UNCHANGED sampled

RegNext == Publish \/ Sample \/ Finish \/ Restart

RegSpec == RegInit /\ [][RegNext]_regVars
=============================================================================

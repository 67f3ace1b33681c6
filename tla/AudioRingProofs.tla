-------------------------- MODULE AudioRingProofs --------------------------
(***************************************************************************)
(* The ring of src/audio.c holds the newest floats of the stream and plays *)
(* them in order, for every size of the ring, of the blocks and of the     *)
(* packets.  All of the index arithmetic is reduced to the lemma Wrap, and *)
(* the contents of the ring are talked about by distance from the read     *)
(* index.                                                                  *)
(***************************************************************************)
EXTENDS AudioRing, TLAPS

N == RING_BUFFER_SIZE

\* How far the write index w is ahead of the read index r.
Ahead(w, r) == IF w >= r THEN w - r ELSE w - r + N

\* Between r and w the ring holds the floats up to number top, in order.
TailFrom(w, r, ring, top) ==
  \A j \in 0 .. Ahead(w, r) - 1 : ring[(r + j) % N] = top - Ahead(w, r) + 1 + j

IInv == TypeOK /\ RingIsTail

-----------------------------------------------------------------------------
LEMMA RingSize ==
  /\ RING_BUFFER_SIZE = N /\ N \in Nat /\ N > 1 /\ Idx = 0 .. N - 1
  /\ BlockFloats \in 1 .. N - 1 /\ SkipAbove \in 1 .. N - 1
  /\ KeepFloats \in 1 .. SkipAbove /\ PacketFloats \subseteq 1 .. N - 1
  BY RingAssumption DEF N, Idx

\* An index that is at most one round off wraps once.
LEMMA Wrap ==
  ASSUME NEW x \in Int
  PROVE  /\ x \in 0 .. N - 1 => x % N = x
         /\ x \in N .. 2 * N - 1 => x % N = x - N
         /\ x \in -N .. -1 => x % N = x + N
<1>0. N \in Nat /\ N > 1
  BY RingSize
<1>1. x \in 0 .. N - 1 => x % N = x
  BY <1>0
<1>2. x \in N .. 2 * N - 1 => x % N = x - N
  BY <1>0
<1>3. x \in -N .. -1 => x % N = x + N
  BY <1>0
<1> QED BY <1>1, <1>2, <1>3

\* Adding less than a round to an index.
LEMMA Sum ==
  ASSUME NEW r \in Idx, NEW d \in 0 .. N - 1
  PROVE  /\ (r + d) % N = IF r + d < N THEN r + d ELSE r + d - N
         /\ (r + d) % N \in 0 .. N - 1
<1>0. N \in Nat /\ N > 1 /\ Idx = 0 .. N - 1
  BY RingSize
<1>1. CASE r + d < N
  <2>1. (r + d) % N = r + d
    BY <1>0, <1>1
  <2> QED BY <1>0, <1>1, <2>1
<1>2. CASE r + d >= N
  <2>1. (r + d) % N = r + d - N
    BY <1>0, <1>2
  <2> QED BY <1>0, <1>2, <2>1
<1> QED BY <1>0, <1>1, <1>2

\* Available and FreeSpace, as the code computes them, are what they stand for.
LEMMA Distances ==
  ASSUME NEW w \in Idx, NEW r \in Idx
  PROVE  /\ (w - r + N) % N = Ahead(w, r)
         /\ (r - w - 1 + N) % N = N - 1 - Ahead(w, r)
         /\ Ahead(w, r) \in 0 .. N - 1
<1>0. N \in Nat /\ N > 1 /\ Idx = 0 .. N - 1
  BY RingSize
<1>1. CASE w >= r
  <2>1. Ahead(w, r) = w - r
    BY <1>1 DEF Ahead
  <2>2. w - r + N \in N .. 2 * N - 1 /\ r - w - 1 + N \in 0 .. N - 1
    BY <1>0, <1>1
  <2>3. (w - r + N) % N = w - r + N - N
    BY <1>0, <2>2
  <2>4. (r - w - 1 + N) % N = r - w - 1 + N
    BY <1>0, <2>2
  <2> QED BY <1>0, <1>1, <2>1, <2>3, <2>4
<1>2. CASE w < r
  <2>1. Ahead(w, r) = w - r + N
    BY <1>0, <1>2 DEF Ahead
  <2>2. w - r + N \in 0 .. N - 1 /\ r - w - 1 + N \in N .. 2 * N - 1
    BY <1>0, <1>2
  <2>3. (w - r + N) % N = w - r + N
    BY <1>0, <2>2
  <2>4. (r - w - 1 + N) % N = r - w - 1 + N - N
    BY <1>0, <2>2
  <2> QED BY <1>0, <1>2, <2>1, <2>3, <2>4
<1> QED BY <1>0, <1>1, <1>2

\* Moving the read index on by d brings it d floats nearer to the write index;
\* offsets from the new read index are offsets from the old one, plus d.
LEMMA AdvanceRead ==
  ASSUME NEW w \in Idx, NEW r \in Idx, NEW d \in 0 .. Ahead(w, r)
  PROVE  /\ (r + d) % N \in Idx
         /\ Ahead(w, (r + d) % N) = Ahead(w, r) - d
         /\ \A j \in 0 .. N - 1 - d : (((r + d) % N) + j) % N = (r + (d + j)) % N
<1>0. N \in Nat /\ N > 1 /\ Idx = 0 .. N - 1
  BY RingSize
<1>a. Ahead(w, r) \in 0 .. N - 1
  BY Distances
<1>1. Ahead(w, r) \in 0 .. N - 1 /\ d \in 0 .. N - 1 /\ d <= Ahead(w, r)
  BY <1>0, <1>a
<1>2. /\ (r + d) % N = IF r + d < N THEN r + d ELSE r + d - N
      /\ (r + d) % N \in Idx
  BY <1>0, <1>1, Sum
<1>3. Ahead(w, (r + d) % N) = Ahead(w, r) - d
  <2>1. CASE r + d < N
    <3>1. Ahead(w, r + d) = Ahead(w, r) - d
      BY <1>0, <1>1, <2>1 DEF Ahead
    <3> QED BY <1>2, <2>1, <3>1
  <2>2. CASE r + d >= N
    <3>1. Ahead(w, r + d - N) = Ahead(w, r) - d
      BY <1>0, <1>1, <2>2 DEF Ahead
    <3> QED BY <1>0, <1>1, <1>2, <2>2, <3>1
  <2> QED BY <1>0, <1>1, <2>1, <2>2
<1>4. ASSUME NEW j \in 0 .. N - 1 - d
      PROVE  (((r + d) % N) + j) % N = (r + (d + j)) % N
  <2>1. j \in 0 .. N - 1 /\ d + j \in 0 .. N - 1
    BY <1>0, <1>1
  <2>2. (((r + d) % N) + j) % N =
          IF ((r + d) % N) + j < N THEN ((r + d) % N) + j ELSE ((r + d) % N) + j - N
    BY <1>2, <2>1, Sum
  <2>3. (r + (d + j)) % N = IF r + (d + j) < N THEN r + (d + j) ELSE r + (d + j) - N
    BY <2>1, Sum
  <2> DEFINE s == (r + d) % N
  <2>4. s \in 0 .. N - 1 /\ s = IF r + d < N THEN r + d ELSE r + d - N
    BY <1>0, <1>2
  <2> HIDE DEF s
  <2>5. (IF s + j < N THEN s + j ELSE s + j - N) =
          IF r + (d + j) < N THEN r + (d + j) ELSE r + (d + j) - N
    BY <1>0, <1>1, <2>1, <2>4
  <2> QED BY <2>2, <2>3, <2>5 DEF s
<1> QED BY <1>2, <1>3, <1>4

\* Moving the write index on by n.
LEMMA AdvanceWrite ==
  ASSUME NEW w \in Idx, NEW r \in Idx, NEW n \in 0 .. N - 1 - Ahead(w, r)
  PROVE  /\ (w + n) % N \in Idx
         /\ Ahead((w + n) % N, r) = Ahead(w, r) + n
<1>0. N \in Nat /\ N > 1 /\ Idx = 0 .. N - 1
  BY RingSize
<1>a. Ahead(w, r) \in 0 .. N - 1
  BY Distances
<1>1. Ahead(w, r) \in 0 .. N - 1 /\ n \in 0 .. N - 1 /\ n <= N - 1 - Ahead(w, r)
  BY <1>0, <1>a
<1>2. /\ (w + n) % N = IF w + n < N THEN w + n ELSE w + n - N
      /\ (w + n) % N \in Idx
  BY <1>0, <1>1, Sum
<1>3. CASE w + n < N
  <2>1. Ahead(w + n, r) = Ahead(w, r) + n
    BY <1>0, <1>1, <1>3 DEF Ahead
  <2> QED BY <1>2, <1>3, <2>1
<1>4. CASE w + n >= N
  <2>1. Ahead(w + n - N, r) = Ahead(w, r) + n
    BY <1>0, <1>1, <1>4 DEF Ahead
  <2> QED BY <1>0, <1>1, <1>2, <1>4, <2>1
<1> QED BY <1>0, <1>1, <1>3, <1>4

\* A slot seen from the write index instead of the read index.
LEMMA FromWrite ==
  ASSUME NEW w \in Idx, NEW r \in Idx, NEW j \in 0 .. N - 1
  PROVE  (((r + j) % N) - w) % N =
           IF j < Ahead(w, r) THEN N - Ahead(w, r) + j ELSE j - Ahead(w, r)
<1>0. N \in Nat /\ N > 1 /\ Idx = 0 .. N - 1
  BY RingSize
<1>1. Ahead(w, r) \in 0 .. N - 1
  BY Distances
<1>2. /\ (r + j) % N = IF r + j < N THEN r + j ELSE r + j - N
      /\ (r + j) % N \in 0 .. N - 1
  BY Sum
<1> DEFINE s == (r + j) % N
<1> HIDE DEF s
<1>3. s \in 0 .. N - 1 /\ s = IF r + j < N THEN r + j ELSE r + j - N
  BY <1>2 DEF s
<1>4. (s - w) % N = IF s >= w THEN s - w ELSE s - w + N
  <2> DEFINE x == s - w
  <2>1. x \in Int /\ (x \in 0 .. N - 1 \/ x \in -N .. -1) /\ (x >= 0 <=> s >= w)
    BY <1>0, <1>3
  <2> HIDE DEF x
  <2>3. /\ x \in 0 .. N - 1 => x % N = x
        /\ x \in -N .. -1 => x % N = x + N
    BY <2>1, Wrap
  <2>2. x % N = IF x >= 0 THEN x ELSE x + N
    BY <1>0, <2>1, <2>3
  <2> QED BY <2>1, <2>2 DEF x
<1>5. (IF s >= w THEN s - w ELSE s - w + N) =
        IF j < Ahead(w, r) THEN N - Ahead(w, r) + j ELSE j - Ahead(w, r)
  BY <1>0, <1>3 DEF Ahead
<1> QED BY <1>4, <1>5 DEF s

-----------------------------------------------------------------------------
\* What the invariant says of the ring, by distances.
LEMMA InvFacts ==
  ASSUME IInv
  PROVE  /\ rb_write_idx \in Idx /\ rb_read_idx \in Idx
         /\ audio_ring_buffer \in [Idx -> Nat]
         /\ written \in Nat /\ since \in 0 .. written /\ played \in since .. written
         /\ Available = Ahead(rb_write_idx, rb_read_idx)
         /\ FreeSpace = N - 1 - Available
         /\ Available \in 0 .. N - 1 /\ Available <= written - played
         /\ TailFrom(rb_write_idx, rb_read_idx, audio_ring_buffer, written)
<1>1. TypeOK /\ RingIsTail
  BY DEF IInv
<1>2. rb_write_idx \in Idx /\ rb_read_idx \in Idx
  BY <1>1 DEF TypeOK
<1>3. /\ Available = Ahead(rb_write_idx, rb_read_idx)
      /\ FreeSpace = N - 1 - Ahead(rb_write_idx, rb_read_idx)
      /\ Ahead(rb_write_idx, rb_read_idx) \in 0 .. N - 1
  BY <1>2, Distances DEF Available, FreeSpace, N
<1>4. TailFrom(rb_write_idx, rb_read_idx, audio_ring_buffer, written)
  BY <1>1, <1>3 DEF RingIsTail, TailFrom, N
<1> QED BY <1>1, <1>2, <1>3, <1>4 DEF TypeOK, RingIsTail

\* Dropping the d oldest floats leaves the tail of the stream.
LEMMA TailDropped ==
  ASSUME NEW w \in Idx, NEW r \in Idx, NEW d \in 0 .. Ahead(w, r),
         NEW ring, NEW top \in Nat, TailFrom(w, r, ring, top)
  PROVE  TailFrom(w, (r + d) % N, ring, top)
<1>0. N \in Nat /\ N > 1
  BY RingSize
<1>1. Ahead(w, r) \in 0 .. N - 1
  BY Distances
<1>2. /\ Ahead(w, (r + d) % N) = Ahead(w, r) - d
      /\ \A j \in 0 .. N - 1 - d : (((r + d) % N) + j) % N = (r + (d + j)) % N
  BY AdvanceRead
<1>3. ASSUME NEW j \in 0 .. Ahead(w, r) - d - 1
      PROVE  ring[(((r + d) % N) + j) % N] = top - (Ahead(w, r) - d) + 1 + j
  <2>1. j \in 0 .. N - 1 - d /\ d + j \in 0 .. Ahead(w, r) - 1
    BY <1>0, <1>1
  <2>2. ring[(r + (d + j)) % N] = top - Ahead(w, r) + 1 + (d + j)
    BY <2>1 DEF TailFrom
  <2>3. (((r + d) % N) + j) % N = (r + (d + j)) % N
    BY <1>2, <2>1
  <2>4. top - Ahead(w, r) + 1 + (d + j) = top - (Ahead(w, r) - d) + 1 + j
    BY <1>1, <2>1
  <2> QED BY <2>2, <2>3, <2>4
<1> QED BY <1>2, <1>3 DEF TailFrom

\* Making room for n floats leaves the tail of the stream and room for n.
LEMMA RoomMade ==
  ASSUME IInv, NEW n \in 1 .. N - 1
  PROVE  /\ MadeRoom(n) \in Idx
         /\ TailFrom(rb_write_idx, MadeRoom(n), audio_ring_buffer, written)
         /\ Ahead(rb_write_idx, MadeRoom(n)) =
              IF FreeSpace < n THEN N - 1 - n ELSE Available
         /\ n \in 0 .. N - 1 - Ahead(rb_write_idx, MadeRoom(n))
<1>0. N \in Nat /\ N > 1
  BY RingSize
<1>1. CASE FreeSpace < n
  <2> DEFINE d == n - FreeSpace
  <2>1. d \in 0 .. Ahead(rb_write_idx, rb_read_idx) /\ Available - d = N - 1 - n
    BY <1>0, <1>1, InvFacts
  <2>2. MadeRoom(n) = (rb_read_idx + d) % N
    BY <1>1 DEF MadeRoom, N
  <2> HIDE DEF d
  <2>3. /\ (rb_read_idx + d) % N \in Idx
        /\ Ahead(rb_write_idx, (rb_read_idx + d) % N) = Ahead(rb_write_idx, rb_read_idx) - d
    BY <2>1, InvFacts, AdvanceRead
  <2>4. TailFrom(rb_write_idx, (rb_read_idx + d) % N, audio_ring_buffer, written)
    BY <2>1, InvFacts, TailDropped
  <2>5. Ahead(rb_write_idx, MadeRoom(n)) = N - 1 - n
    BY <2>1, <2>2, <2>3, InvFacts
  <2> QED BY <1>0, <1>1, <2>2, <2>3, <2>4, <2>5
<1>2. CASE ~(FreeSpace < n)
  <2>1. MadeRoom(n) = rb_read_idx
    BY <1>2 DEF MadeRoom
  <2> QED BY <1>0, <1>2, <2>1, InvFacts
<1> QED BY <1>1, <1>2

\* Filling n floats in from the write index on.
LEMMA TailFilled ==
  ASSUME IInv, NEW r \in Idx, NEW n \in 0 .. N - 1 - Ahead(rb_write_idx, r),
         TailFrom(rb_write_idx, r, audio_ring_buffer, written)
  PROVE  TailFrom((rb_write_idx + n) % N, r, Filled(n), written + n)
<1>0. N \in Nat /\ N > 1 /\ Idx = 0 .. N - 1 /\ rb_write_idx \in Idx /\ written \in Nat
  BY RingSize, InvFacts
<1> DEFINE A == Ahead(rb_write_idx, r)
<1>1. A \in 0 .. N - 1
  BY <1>0, Distances
<1>2. Ahead((rb_write_idx + n) % N, r) = A + n
  BY <1>0, AdvanceWrite
<1>3. ASSUME NEW j \in 0 .. A + n - 1
      PROVE  Filled(n)[(r + j) % N] = written + n - (A + n) + 1 + j
  <2>1. j \in 0 .. N - 1
    BY <1>0, <1>1
  <2>2. (r + j) % N \in Idx
    BY <1>0, <2>1, Sum
  <2>3. (((r + j) % N) - rb_write_idx) % N = IF j < A THEN N - A + j ELSE j - A
    BY <1>0, <2>1, FromWrite
  <2>4. Filled(n)[(r + j) % N] =
          IF (((r + j) % N) - rb_write_idx) % N < n
          THEN written + 1 + ((((r + j) % N) - rb_write_idx) % N)
          ELSE audio_ring_buffer[(r + j) % N]
    BY <2>2, Zenon DEF Filled, N
  <2> HIDE DEF A
  <2>5. CASE j < A
    <3>1. (((r + j) % N) - rb_write_idx) % N = N - A + j /\ ~(N - A + j < n)
      BY <1>0, <1>1, <2>1, <2>3, <2>5 DEF A
    <3>2. audio_ring_buffer[(r + j) % N] = written - A + 1 + j
      BY <1>1, <2>1, <2>5 DEF TailFrom, A
    <3>3. written - A + 1 + j = written + n - (A + n) + 1 + j
      BY <1>0, <1>1, <2>1
    <3> QED BY <2>4, <3>1, <3>2, <3>3
  <2>6. CASE j >= A
    <3>1. (((r + j) % N) - rb_write_idx) % N = j - A
      BY <1>1, <2>1, <2>3, <2>6
    <3>2. j - A < n /\ written + 1 + (j - A) = written + n - (A + n) + 1 + j
      BY <1>0, <1>1, <2>1, <2>6
    <3> QED BY <2>4, <3>1, <3>2
  <2>7. j < A \/ j >= A
    BY <1>1, <2>1
  <2> QED BY <2>5, <2>6, <2>7
<1> HIDE DEF A
<1>4. ASSUME NEW j \in 0 .. Ahead((rb_write_idx + n) % N, r) - 1
      PROVE  Filled(n)[(r + j) % N] =
               (written + n) - Ahead((rb_write_idx + n) % N, r) + 1 + j
  <2>1. j \in 0 .. A + n - 1
    BY <1>0, <1>1, <1>2
  <2>2. Filled(n)[(r + j) % N] = written + n - (A + n) + 1 + j
    BY <1>3, <2>1
  <2>3. written + n - (A + n) + 1 + j = (written + n) - (A + n) + 1 + j
    BY <1>0, <1>1, <2>1
  <2> QED BY <1>2, <2>2, <2>3
<1> QED BY <1>4, Zenon DEF TailFrom

-----------------------------------------------------------------------------
\* What a write does, by distances.
LEMMA WriteStep ==
  ASSUME IInv, NEW n \in PacketFloats, rb_write(n)
  PROVE  /\ IInv' /\ n \in 1 .. N - 1 /\ written' = written + n
         /\ Available' = IF FreeSpace < n THEN N - 1 ELSE Available + n
<1>0. N \in Nat /\ N > 1 /\ n \in 1 .. N - 1
  BY RingSize
<1>1. /\ rb_read_idx' = MadeRoom(n) /\ audio_ring_buffer' = Filled(n)
      /\ rb_write_idx' = (rb_write_idx + n) % N /\ written' = written + n
      /\ UNCHANGED <<since, played, block>>
  BY DEF rb_write, N
<1>2. /\ MadeRoom(n) \in Idx
      /\ TailFrom(rb_write_idx, MadeRoom(n), audio_ring_buffer, written)
      /\ Ahead(rb_write_idx, MadeRoom(n)) = IF FreeSpace < n THEN N - 1 - n ELSE Available
      /\ n \in 0 .. N - 1 - Ahead(rb_write_idx, MadeRoom(n))
  BY <1>0, RoomMade
<1>3. /\ rb_write_idx' \in Idx
      /\ Ahead(rb_write_idx', rb_read_idx') = Ahead(rb_write_idx, MadeRoom(n)) + n
  BY <1>1, <1>2, InvFacts, AdvanceWrite
<1>4. TailFrom(rb_write_idx', rb_read_idx', audio_ring_buffer', written')
  BY <1>1, <1>2, TailFilled
<1>5. /\ Available' = Ahead(rb_write_idx', rb_read_idx')
      /\ Ahead(rb_write_idx', rb_read_idx') \in 0 .. N - 1
  BY <1>1, <1>2, <1>3, Distances DEF Available, N
<1>6. Available' = IF FreeSpace < n THEN N - 1 ELSE Available + n
  BY <1>0, <1>2, <1>3, <1>5, InvFacts
<1>7. Available' <= written' - played'
  BY <1>0, <1>1, <1>6, InvFacts
<1>8. RingIsTail'
  BY <1>4, <1>5, <1>7 DEF RingIsTail, TailFrom, N
<1>9. audio_ring_buffer' \in [Idx -> Nat]
  <2>1. \A i \in Idx : i - rb_write_idx \in Int
    BY <1>0, RingSize, InvFacts
  <2>2. ASSUME NEW x \in Int PROVE x % N \in Nat
    BY <1>0
  <2>3. \A i \in Idx : (i - rb_write_idx) % N \in Nat
    BY <2>1, <2>2
  <2>4. \A i \in Idx : audio_ring_buffer[i] \in Nat /\ written + 1 + ((i - rb_write_idx) % N) \in Nat
    BY <2>3, InvFacts
  <2> QED BY <1>1, <2>4 DEF Filled, N
<1>10. TypeOK'
  BY <1>0, <1>1, <1>2, <1>3, <1>9, InvFacts DEF TypeOK, IInv
<1> QED BY <1>0, <1>1, <1>6, <1>8, <1>10 DEF IInv

\* What a read does, by distances.
LEMMA ReadStep ==
  ASSUME IInv, rb_read
  PROVE  /\ IInv' /\ written' = written
         /\ Available' = IF Available - BlockFloats > SkipAbove THEN KeepFloats
                                                               ELSE Available - BlockFloats
         /\ block' # Silence
         /\ \A i \in 1 .. BlockFloats : block'[i] = written - Available + i
         /\ played' = written - Available + BlockFloats
<1>0. /\ N \in Nat /\ N > 1 /\ BlockFloats \in 1 .. N - 1 /\ SkipAbove \in 1 .. N - 1
      /\ KeepFloats \in 1 .. SkipAbove
  BY RingSize
<1> DEFINE w == rb_write_idx
           r == rb_read_idx
           A == Available
           r1 == (r + BlockFloats) % N
<1>1. /\ A >= BlockFloats
      /\ block' = [i \in 1 .. BlockFloats |-> audio_ring_buffer[(r + i - 1) % N]]
      /\ played' = block'[BlockFloats]
      /\ rb_read_idx' = SkippedAhead(r1)
      /\ UNCHANGED <<rb_write_idx, audio_ring_buffer, written, since>>
  BY DEF rb_read, N
<1>2. /\ w \in Idx /\ r \in Idx /\ A = Ahead(w, r) /\ A \in 0 .. N - 1 /\ written \in Nat
      /\ A <= written - played /\ audio_ring_buffer \in [Idx -> Nat]
      /\ TailFrom(w, r, audio_ring_buffer, written)
      /\ since \in 0 .. written /\ played \in since .. written
  BY InvFacts
<1>3. ASSUME NEW i \in 1 .. BlockFloats
      PROVE  block'[i] = written - A + i
  <2>1. i - 1 \in 0 .. Ahead(w, r) - 1 /\ r + i - 1 = r + (i - 1)
    BY <1>0, <1>1, <1>2, RingSize
  <2>2. audio_ring_buffer[(r + (i - 1)) % N] = written - A + 1 + (i - 1)
    BY <1>2, <2>1 DEF TailFrom
  <2>3. written - A + 1 + (i - 1) = written - A + i
    BY <1>0, <1>2
  <2>4. block'[i] = audio_ring_buffer[(r + i - 1) % N]
    BY <1>1
  <2> QED BY <2>1, <2>2, <2>3, <2>4
<1>4. played' = written - A + BlockFloats /\ played' \in Nat
  <2>1. BlockFloats \in 1 .. BlockFloats
    BY <1>0
  <2>2. played' = written - A + BlockFloats
    BY <1>1, <1>3, <2>1
  <2> QED BY <1>0, <1>2, <2>2
<1>5. BlockFloats \in 0 .. Ahead(w, r)
  BY <1>0, <1>1, <1>2
<1>6. r1 \in Idx /\ Ahead(w, r1) = A - BlockFloats
  BY <1>2, <1>5, AdvanceRead
<1>7. TailFrom(w, r1, audio_ring_buffer, written)
  BY <1>2, <1>5, TailDropped
<1>8. (w - r1 + N) % N = A - BlockFloats
  BY <1>2, <1>6, Distances
<1> HIDE DEF r1
\* Both when the reader skips and when it does not, the tail stays in place.
<1>9. /\ rb_read_idx' \in Idx
      /\ TailFrom(w, rb_read_idx', audio_ring_buffer, written)
      /\ Ahead(w, rb_read_idx') = IF A - BlockFloats > SkipAbove THEN KeepFloats
                                                                 ELSE A - BlockFloats
  <2>1. CASE A - BlockFloats > SkipAbove
    <3> DEFINE d == A - BlockFloats - KeepFloats
    <3>1. d \in 0 .. Ahead(w, r1) /\ Ahead(w, r1) - d = KeepFloats
      BY <1>0, <1>2, <1>6, <2>1
    <3>2. rb_read_idx' = (w - KeepFloats + N) % N
      BY <1>1, <1>8, <2>1 DEF SkippedAhead, N
    <3>3. (w - KeepFloats + N) % N = (r1 + d) % N
      <4>0. /\ w \in 0 .. N - 1 /\ r1 \in 0 .. N - 1
            /\ d = Ahead(w, r1) - KeepFloats /\ d \in Nat
            /\ KeepFloats \in Nat /\ Ahead(w, r1) \in Nat
        <5>1. w \in 0 .. N - 1 /\ r1 \in 0 .. N - 1
          BY <1>2, <1>6, RingSize
        <5>2. d = Ahead(w, r1) - KeepFloats
          BY <1>6
        <5> HIDE DEF d
        <5>3. KeepFloats \in Nat /\ Ahead(w, r1) \in Nat
          BY <1>0, <1>2, <1>6, <2>1
        <5> QED BY <3>1, <5>1, <5>2, <5>3
      <4> HIDE DEF d
      <4>1. CASE w >= r1
        <5>1. Ahead(w, r1) = w - r1
          BY <4>1 DEF Ahead
        <5>2. r1 + d = w - KeepFloats /\ w - KeepFloats \in 0 .. N - 1
          BY <1>0, <4>0, <5>1
        <5>3. (w - KeepFloats + N) % N = w - KeepFloats
          <6>1. w - KeepFloats + N \in N .. 2 * N - 1
            BY <1>0, <4>0, <5>2
          <6>2. (w - KeepFloats + N) % N = w - KeepFloats + N - N
            BY <1>0, <4>0, <6>1
          <6> QED BY <1>0, <4>0, <6>2
        <5>4. (w - KeepFloats) % N = w - KeepFloats
          BY <1>0, <4>0, <5>2
        <5> QED BY <5>2, <5>3, <5>4
      <4>2. CASE w < r1
        <5>1. r1 + d = w - KeepFloats + N
          <6>1. Ahead(w, r1) = w - r1 + N
            BY <1>0, <4>0, <4>2 DEF Ahead
          <6> QED BY <1>0, <4>0, <6>1
        <5> QED BY <5>1
      <4> QED BY <4>0, <4>1, <4>2
    <3> HIDE DEF d
    <3>4. (r1 + d) % N \in Idx /\ Ahead(w, (r1 + d) % N) = Ahead(w, r1) - d
      BY <1>2, <1>6, <3>1, AdvanceRead
    <3>5. TailFrom(w, (r1 + d) % N, audio_ring_buffer, written)
      BY <1>2, <1>6, <1>7, <3>1, TailDropped
    <3> QED BY <2>1, <3>1, <3>2, <3>3, <3>4, <3>5
  <2>2. CASE ~(A - BlockFloats > SkipAbove)
    <3>1. rb_read_idx' = r1
      BY <1>1, <1>8, <2>2 DEF SkippedAhead, N
    <3> QED BY <1>6, <1>7, <2>2, <3>1
  <2> QED BY <2>1, <2>2
<1>10. Available' = Ahead(w, rb_read_idx')
  BY <1>1, <1>2, <1>9, Distances DEF Available, N
<1>11. Available' \in 0 .. A - BlockFloats
  BY <1>0, <1>1, <1>2, <1>9, <1>10
<1>12. Available' <= written' - played'
  BY <1>0, <1>1, <1>2, <1>4, <1>11
<1>13. RingIsTail'
  BY <1>1, <1>9, <1>10, <1>12 DEF RingIsTail, TailFrom, N
<1>14. block' \in [1 .. BlockFloats -> Nat]
  <2>1. \A i \in 1 .. BlockFloats : written - A + i \in Nat
    BY <1>0, <1>2
  <2> QED BY <1>1, <1>3, <2>1
<1>15. played' \in since .. written
  BY <1>0, <1>1, <1>2, <1>4
<1>16. TypeOK'
  BY <1>1, <1>2, <1>9, <1>14, <1>15 DEF TypeOK
<1>17. block' # Silence
  <2>1. 1 \in DOMAIN block'
    BY <1>0, <1>1
  <2>2. DOMAIN Silence = {}
    BY DEF Silence
  <2> QED BY <2>1, <2>2
<1> QED BY <1>1, <1>3, <1>4, <1>9, <1>10, <1>13, <1>16, <1>17 DEF IInv

-----------------------------------------------------------------------------
LEMMA InitIInv == Init => IInv
<1> SUFFICES ASSUME Init PROVE IInv
  OBVIOUS
<1>1. Available = 0
  <2>1. Ahead(0, 0) = 0 /\ 0 \in Idx
    BY RingSize DEF Ahead
  <2>2. (0 - 0 + N) % N = Ahead(0, 0)
    BY <2>1, Distances
  <2> QED BY <2>1, <2>2 DEF Available, Init, N
<1>2. TypeOK
  BY RingSize DEF Init, TypeOK
<1>3. RingIsTail
  BY <1>1 DEF Init, RingIsTail
<1> QED BY <1>2, <1>3 DEF IInv

LEMMA RestartStep ==
  ASSUME IInv, Restart
  PROVE  IInv' /\ Available' = 0
<1>1. Available' = 0
  <2>1. Ahead(0, 0) = 0 /\ 0 \in Idx
    BY RingSize DEF Ahead
  <2>2. (0 - 0 + N) % N = Ahead(0, 0)
    BY <2>1, Distances
  <2> QED BY <2>1, <2>2 DEF Available, Restart, N
<1>2. TypeOK'
  BY RingSize, InvFacts DEF Restart, TypeOK
<1>3. RingIsTail'
  BY <1>1, InvFacts DEF Restart, RingIsTail
<1> QED BY <1>1, <1>2, <1>3 DEF IInv

LEMMA UnderflowStep ==
  ASSUME IInv, Underflow
  PROVE  IInv' /\ Available' = Available
<1>1. UNCHANGED <<rb_write_idx, rb_read_idx, audio_ring_buffer, written, since, played>>
      /\ block' = Silence
  BY DEF Underflow
<1>2. Available' = Available
  BY <1>1 DEF Available
<1>3. TypeOK'
  BY <1>1 DEF IInv, TypeOK
<1>4. RingIsTail'
  BY <1>1, <1>2 DEF IInv, RingIsTail
<1> QED BY <1>2, <1>3, <1>4 DEF IInv

LEMMA StutterStep ==
  ASSUME IInv, UNCHANGED vars
  PROVE  IInv' /\ Available' = Available
  BY DEF vars, IInv, TypeOK, RingIsTail, Available

LEMMA StepIInv == IInv /\ [Next]_vars => IInv'
  BY WriteStep, ReadStep, RestartStep, UnderflowStep, StutterStep DEF Next, audio_loop

\* The strengthened invariant holds in every behaviour.
THEOREM Invariance == Spec => []IInv
<1> QED BY InitIInv, StepIInv, PTL DEF Spec

\* What the playback thread has not read yet is the newest end of the stream,
\* gapless and in order, for every ring and every packet size.
THEOREM RingAlwaysTail == Spec => []RingIsTail
<1>1. IInv => RingIsTail
  BY DEF IInv
<1> QED BY <1>1, Invariance, PTL

\* Blocks are runs of consecutive floats that only move forward.
THEOREM AlwaysPlaysOnwards == Spec => PlaysOnwards
<1> DEFINE A == block' \notin {block, Silence} =>
                  /\ block'[1] > played
                  /\ \A i \in 1 .. BlockFloats : block'[i] = block'[1] + i - 1
<1>1. ASSUME IInv, [Next]_vars, block' \notin {block, Silence}
      PROVE  /\ block'[1] > played
             /\ \A i \in 1 .. BlockFloats : block'[i] = block'[1] + i - 1
  <2>1. rb_read
    BY <1>1 DEF Next, vars, Restart, rb_write, audio_loop, Underflow
  <2>2. /\ written \in Nat /\ played \in Nat /\ Available \in Nat
        /\ Available <= written - played /\ BlockFloats \in Nat /\ 1 \in 1 .. BlockFloats
    BY <1>1, InvFacts, RingSize
  <2>3. \A i \in 1 .. BlockFloats : block'[i] = written - Available + i
    BY <1>1, <2>1, ReadStep
  <2>4. block'[1] = written - Available + 1
    BY <2>2, <2>3
  <2>5. block'[1] > played
    BY <2>2, <2>4
  <2>6. ASSUME NEW i \in 1 .. BlockFloats
        PROVE  block'[i] = block'[1] + i - 1
    BY <2>2, <2>3, <2>4, <2>6
  <2> QED BY <2>5, <2>6
<1>2. IInv /\ [Next]_vars => [A]_vars
  BY <1>1
<1> QED BY <1>2, Invariance, PTL DEF Spec, PlaysOnwards

\* After every block the reader is at most SkipAbove floats behind.
THEOREM LatencyAlwaysBounded == Spec => LatencyBounded
<1>1. ASSUME IInv, [Next]_vars, played' > played
      PROVE  Available' <= SkipAbove
  <2>1. CASE rb_read
    <3>1. Available' = IF Available - BlockFloats > SkipAbove THEN KeepFloats
                                                             ELSE Available - BlockFloats
      BY <1>1, <2>1, ReadStep
    <3> QED BY <1>1, <3>1, RingSize, InvFacts
  <2>2. CASE Restart
    <3>1. Available' = 0
      BY <1>1, <2>2, RestartStep
    <3> QED BY <3>1, RingSize
  <2>3. played \in Nat
    BY <1>1, InvFacts
  <2> QED BY <1>1, <2>1, <2>2, <2>3 DEF Next, audio_loop, rb_write, Underflow, vars
<1>2. IInv /\ [Next]_vars => [played' > played => Available' <= SkipAbove]_vars
  BY <1>1
<1> QED BY <1>2, Invariance, PTL DEF Spec, LatencyBounded

\* Floats are given up only when the ring is full or the reader is too far
\* behind, and then exactly as many as the code announces.
THEOREM DropsAreStale == Spec => DropsOnlyStale
<1> DEFINE Dropped == since' = since /\ OldestUnread' > OldestUnread
           Stale == \/ written' > written /\ Available' = RING_BUFFER_SIZE - 1
                    \/ OldestUnread' = OldestUnread + BlockFloats
                    \/ Available' = KeepFloats /\ Available - BlockFloats > SkipAbove
<1>1. ASSUME IInv, [Next]_vars, Dropped
      PROVE  Stale
  <2>1. /\ written \in Nat /\ Available \in 0 .. N - 1 /\ Available <= written - played
        /\ since \in 0 .. written /\ played \in since .. written
        /\ N \in Nat /\ RING_BUFFER_SIZE = N /\ BlockFloats \in Nat
    BY <1>1, InvFacts, RingSize
  <2>2. ASSUME NEW n \in PacketFloats, rb_write(n)
        PROVE  Stale
    <3>1. /\ n \in 1 .. N - 1 /\ written' = written + n
          /\ Available' = IF FreeSpace < n THEN N - 1 ELSE Available + n
      BY <1>1, <2>2, WriteStep
    <3>2. FreeSpace < n
      BY <1>1, <2>1, <3>1 DEF OldestUnread
    <3> QED BY <2>1, <3>1, <3>2
  <2>3. CASE rb_read
    <3>1. /\ written' = written
          /\ Available' = IF Available - BlockFloats > SkipAbove THEN KeepFloats
                                                               ELSE Available - BlockFloats
      BY <1>1, <2>3, ReadStep
    <3> QED BY <2>1, <3>1 DEF OldestUnread
  <2>4. CASE Restart
    <3>1. since' = written /\ written' = written
      BY <2>4 DEF Restart
    <3>2. Available = 0
      BY <1>1, <2>1, <3>1
    <3>3. Available' = 0
      BY <1>1, <2>4, RestartStep
    <3>4. OldestUnread' = OldestUnread
      BY <3>1, <3>2, <3>3 DEF OldestUnread
    <3> QED BY <1>1, <2>1, <3>1, <3>2, <3>4 DEF OldestUnread
  <2>5. CASE Underflow
    BY <1>1, <2>1, <2>5, UnderflowStep DEF OldestUnread, Underflow
  <2>6. CASE UNCHANGED vars
    BY <1>1, <2>1, <2>6, StutterStep DEF OldestUnread, vars
  <2> QED BY <1>1, <2>2, <2>3, <2>4, <2>5, <2>6 DEF Next, audio_loop
<1>2. IInv /\ [Next]_vars => [Dropped => Stale]_vars
  BY <1>1
<1> QED BY <1>2, Invariance, PTL DEF Spec, DropsOnlyStale

\* Step by step the ring does what a queue without indices does, whose oldest
\* float is the one OldestUnread computes from the two indices.
THEOREM ImplementsStream == Spec => StreamSpec
<1>1. Init => Stream!StreamInit
  <2> SUFFICES ASSUME Init PROVE Stream!StreamInit
    OBVIOUS
  <2>1. Available = 0
    BY InitIInv, InvFacts DEF Init
  <2> QED BY <2>1 DEF Init, Stream!StreamInit, OldestUnread, Silence
<1>2. IInv /\ [Next]_vars => [Stream!StreamNext]_Stream!streamVars
  <2> SUFFICES ASSUME IInv, [Next]_vars
               PROVE  Stream!StreamNext \/ UNCHANGED Stream!streamVars
    OBVIOUS
  <2> USE DEF OldestUnread, Stream!StreamNext, Stream!Backlog
  <2>1. /\ written \in Nat /\ Available \in 0 .. N - 1 /\ FreeSpace = N - 1 - Available
        /\ N \in Nat /\ RING_BUFFER_SIZE = N /\ BlockFloats \in Nat /\ KeepFloats \in Nat
        /\ written - (written - Available + 1) + 1 = Available
    BY InvFacts, RingSize
  <2>2. ASSUME NEW n \in PacketFloats, rb_write(n)
        PROVE  Stream!Receive(n)
    <3>1. /\ n \in 1 .. N - 1 /\ written' = written + n
          /\ Available' = IF FreeSpace < n THEN N - 1 ELSE Available + n
          /\ UNCHANGED block
      BY <2>2, WriteStep DEF rb_write
    <3>2. FreeSpace < n <=> Available + n > N - 1
      BY <2>1, <3>1
    <3>3. written' - Available' + 1 = IF Available + n > RING_BUFFER_SIZE - 1
                                      THEN written + n - (RING_BUFFER_SIZE - 1) + 1
                                      ELSE written - Available + 1
      BY <2>1, <3>1, <3>2
    <3> QED BY <2>1, <3>1, <3>3 DEF Stream!Receive
  <2>3. ASSUME rb_read
        PROVE  Stream!Play
    <3>1. /\ written' = written
          /\ Available' = IF Available - BlockFloats > SkipAbove THEN KeepFloats
                                                               ELSE Available - BlockFloats
          /\ \A i \in 1 .. BlockFloats : block'[i] = written - Available + i
      BY <2>3, ReadStep
    <3>2. Available >= BlockFloats /\ block' = [i \in 1 .. BlockFloats |-> block'[i]]
      BY <2>3 DEF rb_read
    <3>3. \A i \in 1 .. BlockFloats : block'[i] = written - Available + 1 + i - 1
      BY <2>1, <3>1
    <3>4. block' = [i \in 1 .. BlockFloats |-> written - Available + 1 + i - 1]
      BY <3>2, <3>3
    <3>5. written' - Available' + 1 = IF Available - BlockFloats > SkipAbove
                                      THEN written - KeepFloats + 1
                                      ELSE written - Available + 1 + BlockFloats
      BY <2>1, <3>1
    <3> QED BY <2>1, <3>1, <3>2, <3>4, <3>5 DEF Stream!Play
  <2>4. ASSUME Restart
        PROVE  Stream!Restart
    <3>1. Available' = 0
      BY <2>4, RestartStep
    <3> QED BY <2>1, <2>4, <3>1 DEF Restart, Stream!Restart, Silence
  <2>5. ASSUME Underflow
        PROVE  Stream!Silent
    <3>1. Available' = Available
      BY <2>5, UnderflowStep
    <3> QED BY <2>1, <2>5, <3>1 DEF Underflow, Stream!Silent, Silence
  <2>6. ASSUME UNCHANGED vars
        PROVE  UNCHANGED Stream!streamVars
    <3>1. Available' = Available
      BY <2>6, StutterStep
    <3> QED BY <2>6, <3>1 DEF vars, Stream!streamVars
  <2> QED BY <2>2, <2>3, <2>4, <2>5, <2>6 DEF Next, audio_loop
<1> QED BY <1>1, <1>2, Invariance, PTL DEF Spec, StreamSpec, Stream!StreamSpec
=============================================================================

---------------------------- MODULE FramesProofs ----------------------------
(***************************************************************************)
(* Theorems about Frames.tla, for every frame size, read size and number   *)
(* of frames: both ends stay in step with the byte stream, no legal frame  *)
(* is refused, and no complete message waits in a buffer for the next read.*)
(***************************************************************************)
EXTENDS Frames, SequenceTheorems, TLAPS

-----------------------------------------------------------------------------
(* The inductive invariant, one end at a time. *)

FrameSet == [kind : Kinds, start : Nat, len : 1..MAX_FRAME_SIZE]
Buffers  == [base : Nat, offset : Nat, len : Nat]

\* Bytes of the frames w.
Total(w) == IF w = << >> THEN 0 ELSE End(w[Len(w)])

\* Where the frame after the first h begins.
After(w, h) == IF h = 0 THEN 0 ELSE End(w[h])

\* Frames follow each other without a gap. That they are also in order is said
\* for any two of them, so that no induction is needed.
WireOK(w) ==
  /\ w \in Seq(FrameSet)
  /\ \A i \in 1..Len(w) : w[i].start = After(w, i - 1)
  /\ \A i, j \in 1..Len(w) : i < j => End(w[i]) <= w[j].start

ReadOK(w, b, h) ==
  /\ b \in Buffers /\ h \in Nat /\ h <= Len(w)
  /\ b.offset <= b.len
  /\ b.base + b.len <= Total(w)
  /\ b.base + b.offset = After(w, h)

\* No complete frame is in the buffer.
NoComplete(w, b, h) ==
  \/ Available(b) < HEADER
  \/ h < Len(w) /\ Available(b) < HEADER + w[h + 1].len

\* The next thing that happens to the buffer is a read.
Waiting == {"idle", "first_fill", "setup", "initial", "fill"}

EndInv(e) ==
  /\ WireOK(wire[e])
  /\ ReadOK(wire[e], buf[e], handled[e])
  /\ pc[e] \in Waiting => NoComplete(wire[e], buf[e], handled[e])

\* Until the server has answered Connect, the client has sent nothing else: this
\* is why the leftover of handle_client is empty.
Handshake ==
  /\ pc["client"] = "idle" => wire["server"] = << >>
  /\ pc["client"] \in {"fill", "decode"} => handled["client"] > 0
  /\ pc["server"] \in {"first_fill", "first_decode", "setup"} =>
       wire["client"] = << >> /\ Len(wire["server"]) <= 1

Shape ==
  /\ wire = [e \in Ends |-> wire[e]] /\ buf = [e \in Ends |-> buf[e]]
  /\ handled = [e \in Ends |-> handled[e]]
  /\ pc \in [Ends -> PCs] /\ refused \in [Ends -> BOOLEAN]

Safe == Shape /\ (\A e \in Ends : EndInv(e)) /\ NeverRefused

IInv == Safe /\ Handshake

-----------------------------------------------------------------------------
(* What the operations do to one reader. *)

\* Writing a frame at the end of the stream.
LEMMA AppendOK ==
  ASSUME NEW w, WireOK(w), NEW f \in FrameSet, f.start = Total(w)
  PROVE  /\ WireOK(Append(w, f))
         /\ Len(Append(w, f)) = Len(w) + 1
         /\ \A i \in 1..Len(w) : Append(w, f)[i] = w[i]
         /\ Total(w) <= Total(Append(w, f))
<1>. DEFINE v == Append(w, f)
<1>1. w \in Seq(FrameSet) /\ Len(w) \in Nat
  BY LenProperties DEF WireOK
<1>2. /\ v \in Seq(FrameSet) /\ Len(v) = Len(w) + 1
      /\ \A i \in 1..Len(w) : v[i] = w[i]
      /\ v[Len(w) + 1] = f
  BY <1>1, AppendProperties
<1>3. v # << >>
  BY <1>1, <1>2, EmptySeq
<1>. HIDE DEF v
<1>4. \A i \in 1..Len(w) : w[i] \in FrameSet
  BY <1>1, ElementOfSeq
<1>5. \A g \in FrameSet : g.start \in Nat /\ End(g) \in Nat /\ g.start < End(g)
  BY FramesAssumption DEF FrameSet, End, HEADER
<1>6. Len(w) = 0 <=> w = << >>
  BY <1>1, EmptySeq
<1>7. Total(w) = After(w, Len(w))
  BY <1>6 DEF Total, After
<1>8. \A i \in 1..Len(w) : End(w[i]) <= Total(w)
  <2>. SUFFICES ASSUME NEW i \in 1..Len(w) PROVE End(w[i]) <= Total(w)
    OBVIOUS
  <2>1. Len(w) \in 1..Len(w) /\ Total(w) = End(w[Len(w)])
    BY <1>1, <1>7 DEF After
  <2>2. CASE i = Len(w)
    BY <1>4, <1>5, <2>1, <2>2
  <2>3. CASE i < Len(w)
    <3>1. End(w[i]) <= w[Len(w)].start
      BY <2>1, <2>3 DEF WireOK
    <3>. QED  BY <1>4, <1>5, <2>1, <3>1
  <2>. QED  BY <1>1, <2>2, <2>3
<1>9. \A i \in 1..Len(v) : v[i].start = After(v, i - 1)
  <2>. SUFFICES ASSUME NEW i \in 1..Len(v) PROVE v[i].start = After(v, i - 1)
    OBVIOUS
  <2>1. CASE i \in 1..Len(w)
    <3>1. v[i] = w[i] /\ w[i].start = After(w, i - 1)
      BY <1>2, <2>1 DEF WireOK
    <3>2. After(v, i - 1) = After(w, i - 1)
      BY <1>1, <1>2, <2>1 DEF After
    <3>. QED  BY <3>1, <3>2
  <2>2. CASE i = Len(w) + 1
    <3>1. After(v, Len(w)) = After(w, Len(w))
      BY <1>1, <1>2 DEF After
    <3>. QED  BY <1>1, <1>2, <1>7, <2>2, <3>1
  <2>. QED  BY <1>1, <1>2, <2>1, <2>2
<1>10. \A i, j \in 1..Len(v) : i < j => End(v[i]) <= v[j].start
  <2>. SUFFICES ASSUME NEW i \in 1..Len(v), NEW j \in 1..Len(v), i < j
                PROVE  End(v[i]) <= v[j].start
    OBVIOUS
  <2>1. i \in 1..Len(w) /\ v[i] = w[i]
    BY <1>1, <1>2
  <2>2. CASE j \in 1..Len(w)
    BY <1>2, <2>1, <2>2 DEF WireOK
  <2>3. CASE j = Len(w) + 1
    BY <1>2, <1>8, <2>1, <2>3
  <2>. QED  BY <1>1, <1>2, <2>2, <2>3
<1>11. Total(v) = End(f)
  BY <1>2, <1>3 DEF Total
<1>. QED  BY <1>2, <1>5, <1>9, <1>10, <1>11 DEF WireOK, v

\* Positions and lengths are numbers.
LEMMA ReadNumbers ==
  ASSUME NEW w, NEW b, NEW h, WireOK(w), ReadOK(w, b, h)
  PROVE  /\ Len(w) \in Nat /\ Total(w) \in Nat /\ After(w, h) \in Nat
         /\ \A i \in 1..Len(w) : /\ w[i] \in FrameSet
                                 /\ w[i].len \in 1..MAX_FRAME_SIZE
                                 /\ w[i].start \in Nat
                                 /\ End(w[i]) = w[i].start + HEADER + w[i].len
                                 /\ End(w[i]) \in Nat
<1>1. w \in Seq(FrameSet) /\ Len(w) \in Nat
  BY LenProperties DEF WireOK
<1>2. \A i \in 1..Len(w) : w[i] \in FrameSet
  BY <1>1, ElementOfSeq
<1>3. \A g \in FrameSet : /\ g.start \in Nat /\ g.len \in 1..MAX_FRAME_SIZE
                          /\ End(g) = g.start + HEADER + g.len /\ End(g) \in Nat
  BY FramesAssumption DEF FrameSet, End, HEADER
<1>4. w # << >> => Len(w) \in 1..Len(w)
  BY <1>1, EmptySeq
<1>5. Total(w) \in Nat
  BY <1>2, <1>3, <1>4 DEF Total
<1>6. After(w, h) \in Nat
  BY <1>1, <1>2, <1>3 DEF After, ReadOK
<1>. QED  BY <1>1, <1>2, <1>3, <1>5, <1>6

\* A write does not disturb the reader.
LEMMA ReaderAppend ==
  ASSUME NEW w, NEW b, NEW h, WireOK(w), ReadOK(w, b, h),
         NEW f \in FrameSet, f.start = Total(w)
  PROVE  /\ WireOK(Append(w, f)) /\ ReadOK(Append(w, f), b, h)
         /\ NoComplete(w, b, h) => NoComplete(Append(w, f), b, h)
<1>. DEFINE v == Append(w, f)
<1>1. /\ WireOK(v) /\ Len(v) = Len(w) + 1 /\ \A i \in 1..Len(w) : v[i] = w[i]
      /\ Total(w) <= Total(v)
  BY AppendOK
<1>. HIDE DEF v
<1>2. Len(w) \in Nat /\ Total(w) \in Nat
  BY ReadNumbers
<1>3. After(v, h) = After(w, h)
  BY <1>1, <1>2 DEF After, ReadOK
<1>4. Total(v) \in Nat
  <2>1. Len(v) \in 1..Len(v) /\ v \in Seq(FrameSet)
    BY <1>1, <1>2 DEF WireOK
  <2>2. v[Len(v)] \in FrameSet
    BY <2>1, ElementOfSeq
  <2>3. \A g \in FrameSet : End(g) \in Nat
    BY FramesAssumption DEF FrameSet, End, HEADER
  <2>. QED  BY <2>2, <2>3 DEF Total
<1>5. ReadOK(v, b, h)
  BY <1>1, <1>2, <1>3, <1>4 DEF ReadOK, Buffers
<1>6. NoComplete(w, b, h) => NoComplete(v, b, h)
  BY <1>1, <1>2 DEF NoComplete, ReadOK
<1>. QED  BY <1>1, <1>5, <1>6 DEF v

\* A read of n bytes, after the consumed ones have been drained, stays within
\* the limit: what was left is less than one frame of the largest size.
LEMMA ReaderFill ==
  ASSUME NEW w, NEW b, NEW h, WireOK(w), ReadOK(w, b, h), NoComplete(w, b, h),
         NEW n \in 1..READ_BUF_SIZE, b.base + b.len + n <= Total(w)
  PROVE  /\ ReadOK(w, Extended(Compacted(b), n), h)
         /\ ~Overflows(Extended(Compacted(b), n))
<1>. DEFINE c == Extended(Compacted(b), n)
<1>1. /\ b.base \in Nat /\ b.offset \in Nat /\ b.len \in Nat /\ b.offset <= b.len
      /\ b.base + b.offset = After(w, h) /\ h \in Nat /\ h <= Len(w)
  BY DEF ReadOK, Buffers
<1>2. n \in Nat /\ READ_BUF_SIZE \in Nat /\ MAX_FRAME_SIZE \in Nat
  BY FramesAssumption
<1>3. c = [base |-> b.base + b.offset, offset |-> 0, len |-> b.len - b.offset + n]
  BY DEF Extended, Compacted
<1>4. c \in Buffers
  BY <1>1, <1>2, <1>3 DEF Buffers
<1>5. /\ c.base = b.base + b.offset /\ c.offset = 0 /\ c.len = b.len - b.offset + n
  BY <1>3
<1>. HIDE DEF c
<1>6. ReadOK(w, c, h)
  BY <1>1, <1>2, <1>4, <1>5 DEF ReadOK
<1>7. Available(b) = b.len - b.offset /\ Available(b) < HEADER + MAX_FRAME_SIZE
  <2>1. Available(b) = b.len - b.offset
    BY DEF Available
  <2>2. CASE Available(b) < HEADER
    BY <1>1, <1>2, <2>1, <2>2 DEF HEADER
  <2>3. CASE h < Len(w) /\ Available(b) < HEADER + w[h + 1].len
    <3>1. h + 1 \in 1..Len(w)
      BY <1>1, <2>3, ReadNumbers
    <3>2. w[h + 1].len \in 1..MAX_FRAME_SIZE
      BY <3>1, ReadNumbers
    <3>. QED  BY <1>1, <1>2, <2>1, <2>3, <3>2 DEF HEADER
  <2>. QED  BY <2>1, <2>2, <2>3 DEF NoComplete
<1>8. ~Overflows(c)
  BY <1>1, <1>2, <1>5, <1>7, FramesAssumption DEF Overflows, HEADER
<1>. QED  BY <1>6, <1>8 DEF c

\* The only frame that begins at the reader's place is the next one.
LEMMA NextFrame ==
  ASSUME NEW w, NEW b, NEW h, WireOK(w), ReadOK(w, b, h),
         NEW i \in 1..Len(w), w[i].start = b.base + b.offset
  PROVE  i = h + 1 /\ h < Len(w)
<1>1. /\ h \in Nat /\ h <= Len(w) /\ w[i].start = After(w, h) /\ Len(w) \in Nat
  BY ReadNumbers DEF ReadOK
<1>2. \A k \in 1..Len(w) : /\ w[k].start \in Nat /\ End(w[k]) \in Nat
                           /\ w[k].start < End(w[k])
  <2>. SUFFICES ASSUME NEW k \in 1..Len(w)
                PROVE  /\ w[k].start \in Nat /\ End(w[k]) \in Nat
                       /\ w[k].start < End(w[k])
    OBVIOUS
  <2>1. /\ w[k].len \in 1..MAX_FRAME_SIZE /\ w[k].start \in Nat /\ End(w[k]) \in Nat
        /\ End(w[k]) = w[k].start + HEADER + w[k].len
    BY ReadNumbers
  <2>2. \A x \in Nat : \A y \in 1..MAX_FRAME_SIZE : x < x + 4 + y
    OBVIOUS
  <2>. QED  BY <2>1, <2>2 DEF HEADER
<1>3. \A k, l \in 1..Len(w) : k < l => End(w[k]) <= w[l].start
  BY DEF WireOK
<1>4. CASE h = 0
  <2>1. w[i].start = 0
    BY <1>1, <1>4 DEF After
  <2>2. CASE i > 1
    <3>1. 1 \in 1..Len(w) /\ 1 < i
      BY <1>1, <2>2
    <3>2. End(w[1]) <= w[i].start /\ End(w[1]) > 0
      BY <1>2, <1>3, <3>1
    <3>. QED  BY <1>2, <2>1, <3>1, <3>2
  <2>. QED  BY <1>1, <1>4, <2>2
<1>5. CASE h > 0
  <2>1. h \in 1..Len(w) /\ w[i].start = End(w[h])
    BY <1>1, <1>5 DEF After
  <2>2. ~(i < h)
    BY <1>2, <1>3, <2>1
  <2>3. i # h
    BY <1>2, <2>1
  <2>4. ~(i > h + 1)
    <3>. SUFFICES ASSUME i > h + 1 PROVE FALSE
      OBVIOUS
    <3>1. h + 1 \in 1..Len(w)
      BY <1>1
    <3>2. w[h + 1].start = After(w, h)
      <4>1. w[h + 1].start = After(w, (h + 1) - 1)
        BY <3>1 DEF WireOK
      <4>. QED  BY <1>1, <4>1
    <3>3. End(w[h + 1]) <= w[i].start
      BY <1>1, <1>3, <3>1
    <3>. QED  BY <1>1, <1>2, <3>1, <3>2, <3>3
  <2>. QED  BY <1>1, <2>1, <2>2, <2>3, <2>4
<1>. QED  BY <1>1, <1>4, <1>5

\* decode_next finds no complete frame, or the next one; never anything else.
LEMMA DecodeOK ==
  ASSUME NEW w, NEW b, NEW h, WireOK(w), ReadOK(w, b, h)
  PROVE  /\ h < Len(w) => w[h + 1].start = b.base + b.offset
         /\ ~NoComplete(w, b, h) => h < Len(w) /\ Available(b) >= HEADER + w[h + 1].len
<1>1. /\ h \in Nat /\ h <= Len(w) /\ Len(w) \in Nat /\ Total(w) \in Nat
      /\ b.base \in Nat /\ b.offset \in Nat /\ b.len \in Nat
      /\ b.base + b.len <= Total(w) /\ b.base + b.offset = After(w, h)
  BY ReadNumbers DEF ReadOK, Buffers
<1>2. Available(b) = b.len - b.offset /\ Available(b) \in Int
  BY <1>1 DEF Available
<1>3. ASSUME h < Len(w)
      PROVE  w[h + 1].start = b.base + b.offset /\ HEADER + w[h + 1].len \in Int
  <2>1. h + 1 \in 1..Len(w)
    BY <1>1, <1>3
  <2>2. w[h + 1].start = After(w, (h + 1) - 1)
    BY <2>1 DEF WireOK
  <2>3. w[h + 1].len \in 1..MAX_FRAME_SIZE
    BY <2>1, ReadNumbers
  <2>4. (h + 1) - 1 = h
    BY <1>1
  <2>5. w[h + 1].start = b.base + b.offset
    BY <1>1, <2>2, <2>4
  <2>6. HEADER + w[h + 1].len \in Int
    BY <2>3 DEF HEADER
  <2>. QED  BY <2>5, <2>6
<1>4. ASSUME h = Len(w) PROVE NoComplete(w, b, h)
  <2>1. After(w, h) = Total(w)
    <3>1. Len(w) = 0 <=> w = << >>
      <4>1. w \in Seq(FrameSet)
        BY DEF WireOK
      <4>. QED  BY <4>1, EmptySeq
    <3>. QED  BY <1>4, <3>1 DEF After, Total
  <2>2. Available(b) < HEADER
    BY <1>1, <1>2, <2>1 DEF HEADER
  <2>. QED  BY <2>2 DEF NoComplete
<1>5. ASSUME ~NoComplete(w, b, h)
      PROVE  h < Len(w) /\ Available(b) >= HEADER + w[h + 1].len
  <2>1. h < Len(w)
    BY <1>1, <1>4, <1>5
  <2>2. ~(Available(b) < HEADER + w[h + 1].len)
    BY <1>5, <2>1 DEF NoComplete
  <2>. QED  BY <1>2, <1>3, <2>1, <2>2
<1>. QED  BY <1>3, <1>5

\* Consuming a frame, and handing the rest to another reader: the buffer alone.
LEMMA ConsumeBytes ==
  ASSUME NEW b \in Buffers, NEW f, f.len \in Nat, Available(b) >= HEADER + f.len
  PROVE  \E c, d \in Buffers :
           /\ c = Consumed(b, f) /\ d = Compacted(c)
           /\ c.offset <= c.len /\ d.offset <= d.len
           /\ c.base + c.offset = (b.base + b.offset) + HEADER + f.len
           /\ d.base + d.offset = (b.base + b.offset) + HEADER + f.len
           /\ c.base + c.len = b.base + b.len /\ d.base + d.len = b.base + b.len
<1>1. b.base \in Nat /\ b.offset \in Nat /\ b.len \in Nat
  BY DEF Buffers
<1>2. b.len - b.offset >= 4 + f.len
  BY DEF Available, HEADER
<1>3. b = [base |-> b.base, offset |-> b.offset, len |-> b.len]
  BY DEF Buffers
<1>4. Consumed(b, f) = [base |-> b.base, offset |-> b.offset + 4 + f.len, len |-> b.len]
  <2>1. Consumed(b, f) = [b EXCEPT !.offset = b.offset + 4 + f.len]
    BY DEF Consumed, HEADER
  <2>. QED  BY <1>3, <2>1
<1>5. PICK c : /\ c = Consumed(b, f)
               /\ c = [base |-> b.base, offset |-> b.offset + 4 + f.len, len |-> b.len]
  BY <1>4
<1>6. c.base = b.base /\ c.offset = b.offset + 4 + f.len /\ c.len = b.len
  BY <1>5
<1>7. c \in Buffers
  BY <1>1, <1>5 DEF Buffers
<1>8. /\ c.base \in Nat /\ c.offset \in Nat /\ c.len \in Nat /\ c.offset <= c.len
      /\ c.base + c.offset = (b.base + b.offset) + 4 + f.len
  BY <1>1, <1>2, <1>6
<1>9. PICK d : /\ d = Compacted(c)
               /\ d = [base |-> c.base + c.offset, offset |-> 0, len |-> c.len - c.offset]
  BY DEF Compacted
<1>10. d.base = c.base + c.offset /\ d.offset = 0 /\ d.len = c.len - c.offset
  BY <1>9
<1>11. d \in Buffers
  BY <1>8, <1>9 DEF Buffers
<1>12. /\ d.offset <= d.len /\ d.base + d.offset = c.base + c.offset
       /\ d.base + d.len = c.base + c.len
  BY <1>8, <1>10
<1>13. (b.base + b.offset) + HEADER + f.len = (b.base + b.offset) + 4 + f.len
  BY DEF HEADER
<1>. QED  BY <1>5, <1>6, <1>7, <1>8, <1>9, <1>11, <1>12, <1>13, Zenon

\* The reader stays in step when it consumes the next frame.
LEMMA ConsumeOK ==
  ASSUME NEW w, NEW b, NEW h, WireOK(w), ReadOK(w, b, h),
         h < Len(w), Available(b) >= HEADER + w[h + 1].len
  PROVE  /\ ReadOK(w, Consumed(b, w[h + 1]), h + 1)
         /\ ReadOK(w, Compacted(Consumed(b, w[h + 1])), h + 1)
<1>1. h \in Nat /\ Len(w) \in Nat /\ b \in Buffers /\ b.base + b.len <= Total(w)
  BY ReadNumbers DEF ReadOK
<1>2. h + 1 \in 1..Len(w) /\ h + 1 \in Nat /\ h + 1 <= Len(w) /\ h + 1 # 0
  BY <1>1
<1>3. PICK f : f = w[h + 1]
  OBVIOUS
<1>4. f.len \in Nat /\ End(f) = f.start + HEADER + f.len
  <2>1. f.len \in 1..MAX_FRAME_SIZE /\ End(f) = f.start + HEADER + f.len
    BY <1>2, <1>3, ReadNumbers
  <2>. QED  BY <2>1
<1>5. After(w, h + 1) = (b.base + b.offset) + HEADER + f.len
  <2>1. f.start = b.base + b.offset
    BY <1>3, DecodeOK
  <2>2. After(w, h + 1) = End(f)
    BY <1>2, <1>3 DEF After
  <2>. QED  BY <1>4, <2>1, <2>2
<1>6. PICK c, d \in Buffers :
           /\ c = Consumed(b, f) /\ d = Compacted(c)
           /\ c.offset <= c.len /\ d.offset <= d.len
           /\ c.base + c.offset = (b.base + b.offset) + HEADER + f.len
           /\ d.base + d.offset = (b.base + b.offset) + HEADER + f.len
           /\ c.base + c.len = b.base + b.len /\ d.base + d.len = b.base + b.len
  <2>1. Available(b) >= HEADER + f.len
    BY <1>3, Zenon
  <2>. QED  BY <1>1, <1>4, <2>1, ConsumeBytes, Zenon
<1>7. ReadOK(w, c, h + 1) /\ ReadOK(w, d, h + 1)
  BY <1>1, <1>2, <1>5, <1>6 DEF ReadOK
<1>. QED  BY <1>3, <1>6, <1>7

-----------------------------------------------------------------------------
(* The same, of the state. *)

\* The two ends are each other's peer.
LEMMA PeerFacts ==
  /\ Peer("client") = "server" /\ Peer("server") = "client"
  /\ \A e \in Ends : Peer(e) \in Ends /\ Peer(e) # e
  /\ \A e, x \in Ends : x = e \/ x = Peer(e)
BY DEF Peer, Ends

\* decode_next can only yield the message after the last one handled.
LEMMA HereIsNext ==
  ASSUME NEW e \in Ends, EndInv(e), NEW f \in FramesHere(e)
  PROVE  handled[e] < Len(wire[e]) /\ f = wire[e][handled[e] + 1]
<1>1. WireOK(wire[e]) /\ ReadOK(wire[e], buf[e], handled[e])
  BY DEF EndInv
<1>2. DOMAIN wire[e] = 1..Len(wire[e])
  <2>1. wire[e] \in Seq(FrameSet)
    BY <1>1 DEF WireOK
  <2>. QED  BY <2>1, LenProperties
<1>3. PICK i \in 1..Len(wire[e]) :
         f = wire[e][i] /\ wire[e][i].start = buf[e].base + buf[e].offset
  BY <1>2 DEF FramesHere
<1>4. i = handled[e] + 1 /\ handled[e] < Len(wire[e])
  BY <1>1, <1>3, NextFrame
<1>. QED  BY <1>3, <1>4

\* The next message, once it has begun, is where the reader looks for it.
LEMMA NextIsHere ==
  ASSUME NEW e \in Ends, EndInv(e), handled[e] < Len(wire[e])
  PROVE  /\ wire[e][handled[e] + 1] \in FramesHere(e)
         /\ wire[e][handled[e] + 1].len <= MAX_FRAME_SIZE
         /\ wire[e][handled[e] + 1].len >= 0
<1>1. WireOK(wire[e]) /\ ReadOK(wire[e], buf[e], handled[e])
  BY DEF EndInv
<1>2. DOMAIN wire[e] = 1..Len(wire[e]) /\ Len(wire[e]) \in Nat
  <2>1. wire[e] \in Seq(FrameSet)
    BY <1>1 DEF WireOK
  <2>. QED  BY <2>1, LenProperties
<1>3. handled[e] + 1 \in 1..Len(wire[e])
  BY <1>1, <1>2 DEF ReadOK
<1>4. wire[e][handled[e] + 1].start = buf[e].base + buf[e].offset
  BY <1>1, DecodeOK
<1>5. wire[e][handled[e] + 1].len \in 1..MAX_FRAME_SIZE
  BY <1>1, <1>3, ReadNumbers
<1>6. wire[e][handled[e] + 1] \in FramesHere(e)
  BY <1>2, <1>3, <1>4 DEF FramesHere
<1>. QED  BY <1>5, <1>6, FramesAssumption

\* Ok(None) is the only thing decode_next returns without a complete frame.
LEMMA NoneDecoded ==
  ASSUME NEW e \in Ends, EndInv(e), \A f \in FramesHere(e) : ~Complete(e, f)
  PROVE  NoComplete(wire[e], buf[e], handled[e]) /\ Incomplete(e)
<1>. DEFINE w == wire[e]
            h == handled[e]
            g == w[h + 1]
<1>1. WireOK(w) /\ ReadOK(w, buf[e], h)
  BY DEF EndInv
<1>2. Available(buf[e]) \in Int
  BY <1>1 DEF ReadOK, Buffers, Available
<1>3. NoComplete(w, buf[e], h)
  <2>. SUFFICES ASSUME ~NoComplete(w, buf[e], h) PROVE FALSE
    OBVIOUS
  <2>1. h < Len(w) /\ Available(buf[e]) >= HEADER + g.len
    BY <1>1, DecodeOK
  <2>2. ~(Available(buf[e]) < HEADER)
    BY DEF NoComplete
  <2>3. Available(buf[e]) >= HEADER
    BY <1>2, <2>2 DEF HEADER
  <2>4. g \in FramesHere(e) /\ g.len <= MAX_FRAME_SIZE
    BY <2>1, NextIsHere
  <2>. QED  BY <2>1, <2>3, <2>4 DEF Complete
<1>4. CASE Available(buf[e]) < HEADER
  BY <1>3, <1>4 DEF Incomplete
<1>5. CASE h < Len(w) /\ Available(buf[e]) < HEADER + g.len
  <2>1. g \in FramesHere(e) /\ g.len <= MAX_FRAME_SIZE
    BY <1>5, NextIsHere
  <2>. QED  BY <1>3, <1>5, <2>1 DEF Incomplete
<1>. QED  BY <1>3, <1>4, <1>5 DEF NoComplete

\* Conversely, nothing can be decoded from a buffer without a complete frame.
LEMMA NothingComplete ==
  ASSUME NEW e \in Ends, EndInv(e), NoComplete(wire[e], buf[e], handled[e]),
         NEW f \in FramesHere(e)
  PROVE  ~Complete(e, f)
<1>1. handled[e] < Len(wire[e]) /\ f = wire[e][handled[e] + 1]
  BY HereIsNext
<1>2. f.len \in Int
  <2>1. WireOK(wire[e]) /\ ReadOK(wire[e], buf[e], handled[e])
    BY DEF EndInv
  <2>2. handled[e] + 1 \in 1..Len(wire[e])
    BY <1>1, <2>1, ReadNumbers DEF ReadOK
  <2>3. f.len \in 1..MAX_FRAME_SIZE
    BY <1>1, <2>1, <2>2, ReadNumbers
  <2>. QED  BY <2>3
<1>3. Available(buf[e]) \in Int
  BY DEF EndInv, ReadOK, Buffers, Available
<1>4. Available(buf[e]) < HEADER \/ Available(buf[e]) < HEADER + f.len
  BY <1>1 DEF NoComplete
<1>. QED  BY <1>2, <1>3, <1>4 DEF Complete, HEADER

\* What decode_next yields leaves the reader in step.
LEMMA Taken ==
  ASSUME NEW e \in Ends, EndInv(e), NEW f \in FramesHere(e), Complete(e, f)
  PROVE  /\ ReadOK(wire[e], Consumed(buf[e], f), handled[e] + 1)
         /\ ReadOK(wire[e], Compacted(Consumed(buf[e], f)), handled[e] + 1)
         /\ handled[e] \in Nat /\ handled[e] < Len(wire[e])
<1>1. handled[e] < Len(wire[e]) /\ f = wire[e][handled[e] + 1]
  BY HereIsNext
<1>2. WireOK(wire[e]) /\ ReadOK(wire[e], buf[e], handled[e])
  BY DEF EndInv
<1>3. Available(buf[e]) >= HEADER + wire[e][handled[e] + 1].len
  BY <1>1 DEF Complete
<1>4. handled[e] \in Nat
  BY <1>2 DEF ReadOK
<1>. QED  BY <1>1, <1>2, <1>3, <1>4, ConsumeOK

-----------------------------------------------------------------------------
(* One step of one end. *)

\* The end e goes to l with the reader b, having handled h messages; it may have
\* written a frame to its peer.
StepOf(e, l, b, h) ==
  /\ pc' = [pc EXCEPT ![e] = l]
  /\ buf' = [buf EXCEPT ![e] = b]
  /\ handled' = [handled EXCEPT ![e] = h]
  /\ refused' = refused
  /\ \/ wire' = wire
     \/ \E f \in FrameSet : /\ f.start = Total(wire[Peer(e)])
                            /\ wire' = [wire EXCEPT ![Peer(e)] = Append(@, f)]

\* A step that leaves its own reader in step leaves everything in step.
LEMMA StepOK ==
  ASSUME Safe, NEW e \in Ends, NEW l \in PCs, NEW b, NEW h, StepOf(e, l, b, h),
         ReadOK(wire[e], b, h), l \in Waiting => NoComplete(wire[e], b, h)
  PROVE  Safe'
<1>. DEFINE p == Peer(e)
<1>1. p \in Ends /\ p # e /\ \A x \in Ends : x = e \/ x = p
  BY PeerFacts
<1>2. Shape
  BY DEF Safe
<1>3. WireOK(wire[e]) /\ EndInv(p) /\ WireOK(wire[p]) /\ ReadOK(wire[p], buf[p], handled[p])
  BY <1>1 DEF Safe, EndInv
<1>. HIDE DEF p
<1>4. /\ pc'[e] = l /\ pc'[p] = pc[p] /\ buf'[e] = b /\ buf'[p] = buf[p]
      /\ handled'[e] = h /\ handled'[p] = handled[p]
  BY <1>1, <1>2 DEF StepOf, Shape
<1>5. wire'[e] = wire[e] /\ (\/ wire'[p] = wire[p]
                             \/ \E f \in FrameSet : /\ f.start = Total(wire[p])
                                                    /\ wire'[p] = Append(wire[p], f))
  <2>1. CASE wire' = wire
    BY <2>1
  <2>2. CASE \E f \in FrameSet : /\ f.start = Total(wire[Peer(e)])
                                 /\ wire' = [wire EXCEPT ![Peer(e)] = Append(@, f)]
    BY <1>1, <1>2, <2>2 DEF Shape, p
  <2>. QED  BY <2>1, <2>2 DEF StepOf
<1>6. Shape'
  <2>1. wire' = [x \in Ends |-> wire'[x]]
    BY <1>2 DEF StepOf, Shape
  <2>2. buf' = [x \in Ends |-> buf'[x]] /\ handled' = [x \in Ends |-> handled'[x]]
    BY <1>2 DEF StepOf, Shape
  <2>3. pc' \in [Ends -> PCs] /\ refused' \in [Ends -> BOOLEAN]
    BY <1>2 DEF StepOf, Shape
  <2>. QED  BY <2>1, <2>2, <2>3 DEF Shape
<1>7. EndInv(e)'
  BY <1>3, <1>4, <1>5 DEF EndInv
<1>8. EndInv(p)'
  <2>1. CASE wire'[p] = wire[p]
    BY <1>3, <1>4, <2>1 DEF EndInv
  <2>2. CASE \E f \in FrameSet : /\ f.start = Total(wire[p])
                                 /\ wire'[p] = Append(wire[p], f)
    <3>1. PICK f \in FrameSet : f.start = Total(wire[p]) /\ wire'[p] = Append(wire[p], f)
      BY <2>2
    <3>2. /\ WireOK(wire'[p]) /\ ReadOK(wire'[p], buf[p], handled[p])
          /\ NoComplete(wire[p], buf[p], handled[p]) =>
               NoComplete(wire'[p], buf[p], handled[p])
      BY <1>3, <3>1, ReaderAppend
    <3>. QED  BY <1>3, <1>4, <3>2 DEF EndInv
  <2>. QED  BY <1>5, <2>1, <2>2
<1>9. NeverRefused'
  BY DEF StepOf, Safe, NeverRefused
<1>. QED  BY <1>1, <1>6, <1>7, <1>8, <1>9 DEF Safe

\* A step that writes nothing and keeps its buffer.
LEMMA StillOK ==
  ASSUME Safe, NEW e \in Ends, NEW l \in PCs, pc' = [pc EXCEPT ![e] = l],
         UNCHANGED <<wire, buf, handled, refused>>,
         l \in Waiting => NoComplete(wire[e], buf[e], handled[e])
  PROVE  Safe'
<1>1. buf' = [buf EXCEPT ![e] = buf[e]] /\ handled' = [handled EXCEPT ![e] = handled[e]]
  BY DEF Safe, Shape
<1>2. StepOf(e, l, buf[e], handled[e])
  BY <1>1 DEF StepOf
<1>3. ReadOK(wire[e], buf[e], handled[e])
  BY DEF Safe, EndInv
<1>. QED  BY <1>2, <1>3, StepOK

\* A message goes to the peer, or the peer has gone and the task ends.
LEMMA SendIs ==
  ASSUME NEW e \in Ends, NEW kind \in Kinds, NEW label, Safe, Send(e, kind, label)
  PROVE  \/ pc' = [pc EXCEPT ![e] = "closed"] /\ wire' = wire
         \/ /\ pc' = [pc EXCEPT ![e] = label]
            /\ \E f \in FrameSet : /\ f.start = Total(wire[Peer(e)])
                                   /\ wire' = [wire EXCEPT ![Peer(e)] = Append(@, f)]
<1>1. CASE Closed(Peer(e))
  BY <1>1 DEF Send, Goto
<1>2. CASE ~Closed(Peer(e))
  <2>1. PICK len \in Sizes : Write(Peer(e), kind, len)
    BY <1>2 DEF Send
  <2>. DEFINE p == Peer(e)
              f == [kind |-> kind, start |-> Total(wire[p]), len |-> len]
  <2>2. WireOK(wire[p]) /\ ReadOK(wire[p], buf[p], handled[p])
    BY PeerFacts DEF Safe, EndInv
  <2>3. Total(wire[p]) \in Nat
    BY <2>2, ReadNumbers
  <2>4. f \in FrameSet
    BY <2>3, FramesAssumption DEF FrameSet
  <2>5. wire' = [wire EXCEPT ![p] = Append(@, f)]
    BY <2>1 DEF Write, Written, Total
  <2>6. pc' = [pc EXCEPT ![e] = label]
    BY <1>2 DEF Send, Goto
  <2>. QED  BY <2>4, <2>5, <2>6
<1>. QED  BY <1>1, <1>2

\* Send, after what the end has read.
LEMMA SendOK ==
  ASSUME Safe, NEW e \in Ends, NEW kind \in Kinds, NEW label \in PCs, NEW b, NEW h,
         Send(e, kind, label), buf' = [buf EXCEPT ![e] = b],
         handled' = [handled EXCEPT ![e] = h], refused' = refused,
         ReadOK(wire[e], b, h), label \in Waiting => NoComplete(wire[e], b, h)
  PROVE  Safe'
<1>1. "closed" \in PCs /\ "closed" \notin Waiting
  BY DEF PCs, Waiting
<1>2. StepOf(e, "closed", b, h) \/ StepOf(e, label, b, h)
  BY SendIs DEF StepOf
<1>. QED  BY <1>1, <1>2, StepOK

\* A message sent, and nothing else.
LEMMA SendOnlyOK ==
  ASSUME Safe, NEW e \in Ends, NEW kind \in Kinds, NEW label \in PCs,
         Send(e, kind, label), UNCHANGED <<buf, handled, refused>>,
         label \in Waiting => NoComplete(wire[e], buf[e], handled[e])
  PROVE  Safe'
<1>1. buf' = [buf EXCEPT ![e] = buf[e]] /\ handled' = [handled EXCEPT ![e] = handled[e]]
  BY DEF Safe, Shape
<1>2. ReadOK(wire[e], buf[e], handled[e])
  BY DEF Safe, EndInv
<1>. QED  BY <1>1, <1>2, SendOK

-----------------------------------------------------------------------------
(* The actions. *)

\* fill_from succeeds: it finds room, and the loop decodes next.
LEMMA FillSafe ==
  ASSUME Safe, NEW e \in Ends, Fill(e)
  PROVE  /\ Safe'
         /\ pc[e] = "first_fill" => pc' = [pc EXCEPT ![e] = "first_decode"]
         /\ pc[e] = "fill" => pc' = [pc EXCEPT ![e] = "decode"]
<1>1. /\ WireOK(wire[e]) /\ ReadOK(wire[e], buf[e], handled[e])
      /\ NoComplete(wire[e], buf[e], handled[e])
  BY DEF Safe, EndInv, Fill, Waiting
<1>2. PICK n \in 1..READ_BUF_SIZE :
        LET b == Extended(Compacted(buf[e]), n)
        IN /\ buf[e].base + buf[e].len + n <= Written(e)
           /\ buf' = [buf EXCEPT ![e] = b]
           /\ refused' = [refused EXCEPT ![e] = Overflows(b)]
           /\ Goto(e, CASE Overflows(b) -> "closed"
                        [] ~Overflows(b) /\ pc[e] = "first_fill" -> "first_decode"
                        [] ~Overflows(b) /\ pc[e] = "fill" -> "decode")
  BY DEF Fill
<1>. DEFINE b == Extended(Compacted(buf[e]), n)
            l == IF pc[e] = "first_fill" THEN "first_decode" ELSE "decode"
<1>3. buf[e].base + buf[e].len + n <= Total(wire[e])
  BY <1>2 DEF Written, Total
<1>4. ReadOK(wire[e], b, handled[e]) /\ ~Overflows(b)
  BY <1>1, <1>3, ReaderFill
<1>5. buf' = [buf EXCEPT ![e] = b] /\ refused' = [refused EXCEPT ![e] = FALSE]
  <2>1. Overflows(b) = FALSE
    BY <1>4 DEF Overflows
  <2>. QED  BY <1>2, <2>1
<1>. HIDE DEF b
<1>6. pc' = [pc EXCEPT ![e] = l]
  <2>1. pc[e] = "first_fill" \/ pc[e] = "fill"
    BY DEF Fill
  <2>2. Goto(e, CASE Overflows(b) -> "closed"
                  [] ~Overflows(b) /\ pc[e] = "first_fill" -> "first_decode"
                  [] ~Overflows(b) /\ pc[e] = "fill" -> "decode")
    BY <1>2 DEF b
  <2>3. CASE pc[e] = "first_fill"
    BY <1>4, <2>2, <2>3 DEF Goto
  <2>4. CASE pc[e] = "fill"
    BY <1>4, <2>2, <2>4 DEF Goto
  <2>. QED  BY <2>1, <2>3, <2>4
<1>7. refused' = refused
  BY <1>5 DEF Safe, Shape, NeverRefused
<1>8. l \in PCs /\ l \notin Waiting
  BY DEF PCs, Waiting
<1>9. handled' = [handled EXCEPT ![e] = handled[e]] /\ wire' = wire
  BY DEF Fill, Safe, Shape
<1>10. StepOf(e, l, b, handled[e])
  BY <1>5, <1>6, <1>7, <1>9 DEF StepOf
<1>11. Safe'
  BY <1>4, <1>8, <1>10, StepOK
<1>. QED  BY <1>6, <1>11

\* fill_from at the end of the stream.
LEMMA FillEofSafe ==
  ASSUME Safe, NEW e \in Ends, FillEof(e)
  PROVE  Safe' /\ pc' = [pc EXCEPT ![e] = "closed"]
<1>1. "closed" \in PCs /\ "closed" \notin Waiting
  BY DEF PCs, Waiting
<1>. QED  BY <1>1, StillOK DEF FillEof, Goto

\* decode_next returns Ok(None), never an error, and the loop reads again.
LEMMA DecodeNoneSafe ==
  ASSUME Safe, NEW e \in Ends, DecodeNone(e)
  PROVE  /\ Safe'
         /\ pc[e] = "first_decode" => pc' = [pc EXCEPT ![e] = "first_fill"]
         /\ pc[e] = "decode" => pc' = [pc EXCEPT ![e] = "fill"]
<1>. DEFINE l == IF pc[e] = "first_decode" THEN "first_fill" ELSE "fill"
<1>1. EndInv(e)
  BY DEF Safe
<1>2. NoComplete(wire[e], buf[e], handled[e]) /\ Incomplete(e)
  BY <1>1, NoneDecoded DEF DecodeNone
<1>3. pc' = [pc EXCEPT ![e] = l]
  <2>1. pc[e] = "first_decode" \/ pc[e] = "decode"
    BY DEF DecodeNone
  <2>2. CASE pc[e] = "first_decode"
    BY <1>2, <2>2 DEF DecodeNone, Goto
  <2>3. CASE pc[e] = "decode"
    BY <1>2, <2>3 DEF DecodeNone, Goto
  <2>. QED  BY <2>1, <2>2, <2>3
<1>4. refused' = refused
  <2>1. (~Incomplete(e)) = FALSE
    BY <1>2
  <2>2. refused' = [refused EXCEPT ![e] = FALSE]
    BY <2>1 DEF DecodeNone
  <2>. QED  BY <2>2 DEF Safe, Shape, NeverRefused
<1>5. l \in PCs
  BY DEF PCs
<1>6. Safe'
  BY <1>2, <1>3, <1>4, <1>5, StillOK DEF DecodeNone
<1>. QED  BY <1>3, <1>6

\* A message is taken and acted upon without an answer.
LEMMA TakeSafe ==
  ASSUME Safe, NEW e \in Ends, NEW f \in FramesHere(e), Take(e, f), NEW l \in PCs,
         pc' = [pc EXCEPT ![e] = l], UNCHANGED <<wire, refused>>, l \notin Waiting,
         \/ buf' = [buf EXCEPT ![e] = Consumed(@, f)]
         \/ buf' = [buf EXCEPT ![e] = Compacted(Consumed(@, f))]
  PROVE  /\ Safe'
         /\ handled' = [handled EXCEPT ![e] = handled[e] + 1] /\ handled[e] \in Nat
<1>1. /\ ReadOK(wire[e], Consumed(buf[e], f), handled[e] + 1)
      /\ ReadOK(wire[e], Compacted(Consumed(buf[e], f)), handled[e] + 1)
      /\ handled[e] \in Nat
  BY Taken DEF Safe, Take
<1>2. \/ StepOf(e, l, Consumed(buf[e], f), handled[e] + 1)
      \/ StepOf(e, l, Compacted(Consumed(buf[e], f)), handled[e] + 1)
  BY DEF StepOf, Take
<1>3. Safe'
  BY <1>1, <1>2, StepOK
<1>. QED  BY <1>1, <1>3 DEF Take

\* The leftover that goes to client_to_pty is empty: the client has sent nothing
\* but its request.
LEMMA ServerConnectSafe ==
  ASSUME IInv, ServerConnect
  PROVE  /\ Safe' /\ pc' = [pc EXCEPT !["server"] = "setup"] /\ wire' = wire
         /\ handled'["client"] = handled["client"]
<1>. DEFINE e == "server"
<1>1. e \in Ends /\ "client" \in Ends /\ "setup" \in PCs
  BY DEF Ends, PCs
<1>2. PICK f \in FramesHere(e) :
         /\ Take(e, f) /\ buf' = [buf EXCEPT ![e] = Compacted(Consumed(@, f))]
  BY DEF ServerConnect
<1>. DEFINE b == Compacted(Consumed(buf[e], f))
            h == handled[e] + 1
            w == wire[e]
<1>3. ReadOK(w, b, h) /\ handled[e] \in Nat /\ handled[e] < Len(w) /\ WireOK(w)
  BY <1>1, <1>2, Taken DEF IInv, Safe, EndInv, Take
<1>4. Len(w) <= 1
  BY DEF IInv, Handshake, ServerConnect
<1>5. b.offset = 0 /\ Available(b) = b.len - b.offset
  BY DEF Compacted, Available
<1>6. StepOf(e, "setup", b, h)
  BY <1>2 DEF StepOf, ServerConnect, Take, Goto
<1>. HIDE DEF b
<1>7. Len(w) \in Nat /\ Total(w) \in Nat
  BY <1>3, ReadNumbers
<1>8. h = 1 /\ Len(w) = 1
  <2>1. \A x, y \in Nat : x < y /\ y <= 1 => x + 1 = 1 /\ y = 1
    OBVIOUS
  <2>. QED  BY <1>3, <1>4, <1>7, <2>1
<1>9. After(w, h) = Total(w)
  <2>1. w # << >>
    BY <1>3, <1>8, EmptySeq DEF WireOK
  <2>. QED  BY <1>8, <2>1 DEF After, Total
<1>10. Available(b) < HEADER
  <2>1. b.base \in Nat /\ b.len \in Nat /\ b.base + b.len <= Total(w)
        /\ b.base + b.offset = After(w, h)
    BY <1>3 DEF ReadOK, Buffers
  <2>. QED  BY <1>5, <1>7, <1>9, <2>1 DEF HEADER
<1>11. NoComplete(w, b, h)
  BY <1>10 DEF NoComplete
<1>12. Safe'
  BY <1>1, <1>3, <1>6, <1>11, StepOK DEF IInv
<1>13. handled'["client"] = handled["client"]
  BY <1>1, <1>6 DEF StepOf, IInv, Safe, Shape
<1>. QED  BY <1>12, <1>13 DEF ServerConnect, Goto

\* handle_client answers once and closes.
LEMMA ServerAnswerSafe ==
  ASSUME Safe, ServerAnswer
  PROVE  /\ Safe' /\ pc' = [pc EXCEPT !["server"] = "closed"]
         /\ handled'["client"] = handled["client"] /\ wire'["server"] = wire["server"]
<1>. DEFINE e == "server"
<1>1. /\ e \in Ends /\ "client" \in Ends /\ "closed" \in PCs /\ "closed" \notin Waiting
      /\ "Reply" \in Kinds /\ "Ended" \in Kinds
  BY DEF Ends, PCs, Kinds, Waiting
<1>2. PICK f \in FramesHere(e) :
         /\ Take(e, f) /\ buf' = [buf EXCEPT ![e] = Consumed(@, f)]
         /\ Send(e, "Reply", "closed") \/ Send(e, "Ended", "closed")
  BY DEF ServerAnswer
<1>3. ReadOK(wire[e], Consumed(buf[e], f), handled[e] + 1)
  BY <1>1, <1>2, Taken DEF Safe, Take
<1>4. handled' = [handled EXCEPT ![e] = handled[e] + 1]
  BY <1>2 DEF Take
<1>5. PICK kind \in Kinds : Send(e, kind, "closed")
  BY <1>1, <1>2
<1>6. refused' = refused
  BY DEF ServerAnswer
<1>7. Safe'
  BY <1>1, <1>2, <1>3, <1>4, <1>5, <1>6, SendOK
<1>8. pc' = [pc EXCEPT ![e] = "closed"]
  BY <1>1, <1>5, SendIs
<1>9. handled'["client"] = handled["client"]
  BY <1>1, <1>4 DEF Safe, Shape
<1>10. wire'["server"] = wire["server"]
  BY <1>1, <1>5, SendIs, PeerFacts DEF Safe, Shape
<1>. QED  BY <1>7, <1>8, <1>9, <1>10

\* The labels from which, and to which, the server only writes.
LEMMA ServerWriteSafe ==
  ASSUME Safe, ServerSetup \/ ServerInitial \/ ServerSend
  PROVE  /\ Safe' /\ UNCHANGED handled /\ wire'["server"] = wire["server"]
         /\ \E l \in {"initial", "fill", "decode", "closed"} : pc' = [pc EXCEPT !["server"] = l]
<1>. DEFINE e == "server"
            L == {"initial", "fill", "decode", "closed"}
<1>1. /\ e \in Ends /\ L \subseteq PCs /\ "Connected" \in Kinds /\ "Ended" \in Kinds
      /\ "Screen" \in Kinds
  BY DEF Ends, PCs, Kinds
<1>2. UNCHANGED <<buf, handled, refused>>
  BY DEF ServerSetup, ServerInitial, ServerSend
<1>3. pc[e] \in Waiting => NoComplete(wire[e], buf[e], handled[e])
  BY <1>1 DEF Safe, EndInv
<1>4. \E kind \in Kinds, label \in L :
        /\ Send(e, kind, label)
        /\ label \in Waiting => NoComplete(wire[e], buf[e], handled[e])
  <2>1. "closed" \notin Waiting
    BY DEF Waiting
  <2>2. CASE ServerSetup
    BY <1>1, <1>3, <2>1, <2>2 DEF ServerSetup, Waiting
  <2>3. CASE ServerInitial
    BY <1>1, <1>3, <2>1, <2>3 DEF ServerInitial, Waiting
  <2>4. CASE ServerSend
    BY <1>1, <1>3, <2>1, <2>4 DEF ServerSend
  <2>. QED  BY <2>2, <2>3, <2>4
<1>5. PICK kind \in Kinds, label \in L :
        /\ Send(e, kind, label)
        /\ label \in Waiting => NoComplete(wire[e], buf[e], handled[e])
  BY <1>4
<1>6. Safe'
  BY <1>1, <1>2, <1>5, SendOnlyOK
<1>7. pc' = [pc EXCEPT ![e] = label] \/ pc' = [pc EXCEPT ![e] = "closed"]
  BY <1>1, <1>5, SendIs
<1>8. wire'["server"] = wire["server"]
  BY <1>1, <1>5, SendIs, PeerFacts DEF Safe, Shape
<1>. QED  BY <1>2, <1>6, <1>7, <1>8

\* client_to_pty acts on a message.
LEMMA ServerHandleSafe ==
  ASSUME Safe, ServerHandle
  PROVE  /\ Safe' /\ wire' = wire /\ handled'["client"] = handled["client"]
         /\ \E l \in {"decode", "closed"} : pc' = [pc EXCEPT !["server"] = l]
<1>1. /\ "server" \in Ends /\ "client" \in Ends
      /\ \A l \in {"decode", "closed"} : l \in PCs /\ l \notin Waiting
  BY DEF Ends, PCs, Waiting
<1>2. PICK f \in FramesHere("server") :
         /\ Take("server", f) /\ buf' = [buf EXCEPT !["server"] = Consumed(@, f)]
         /\ Goto("server", IF f.kind = "Detach" THEN "closed" ELSE "decode")
  BY DEF ServerHandle
<1>3. PICK l \in {"decode", "closed"} : pc' = [pc EXCEPT !["server"] = l]
  BY <1>2 DEF Goto
<1>4. UNCHANGED <<wire, refused>>
  BY DEF ServerHandle
<1>5. Safe' /\ handled' = [handled EXCEPT !["server"] = handled["server"] + 1]
  BY <1>1, <1>2, <1>3, <1>4, TakeSafe
<1>6. handled'["client"] = handled["client"]
  BY <1>1, <1>5 DEF Safe, Shape
<1>. QED  BY <1>3, <1>4, <1>5, <1>6

\* A message is taken by the client.
LEMMA ClientTakeSafe ==
  ASSUME Safe, Client
  PROVE  /\ Safe' /\ wire' = wire /\ handled'["client"] > 0
         /\ \E l \in {"decode", "closed"} : pc' = [pc EXCEPT !["client"] = l]
<1>. DEFINE e == "client"
<1>1. /\ e \in Ends /\ \A l \in {"decode", "closed"} : l \in PCs /\ l \notin Waiting
  BY DEF Ends, PCs, Waiting
<1>2. PICK f \in FramesHere(e) :
         /\ Take(e, f)
         /\ \/ buf' = [buf EXCEPT ![e] = Consumed(@, f)]
            \/ buf' = [buf EXCEPT ![e] = Compacted(Consumed(@, f))]
         /\ \E l \in {"decode", "closed"} : pc' = [pc EXCEPT ![e] = l]
  <2>1. CASE ClientConnected
    BY <2>1 DEF ClientConnected, Goto, RelayStart
  <2>2. CASE ClientAnswered
    BY <2>2 DEF ClientAnswered, Goto
  <2>3. CASE ClientDispatch
    BY <2>3 DEF ClientDispatch, Goto
  <2>. QED  BY <2>1, <2>2, <2>3 DEF Client
<1>3. PICK l \in {"decode", "closed"} : pc' = [pc EXCEPT ![e] = l]
  BY <1>2
<1>4. UNCHANGED <<wire, refused>>
  BY DEF Client, ClientConnected, ClientAnswered, ClientDispatch
<1>5. /\ Safe' /\ handled' = [handled EXCEPT ![e] = handled[e] + 1]
      /\ handled[e] \in Nat
  BY <1>1, <1>2, <1>3, <1>4, TakeSafe
<1>6. handled'[e] > 0
  <2>1. handled'[e] = handled[e] + 1
    BY <1>1, <1>5 DEF Safe, Shape
  <2>. QED  BY <1>5, <2>1
<1>. QED  BY <1>3, <1>4, <1>5, <1>6

-----------------------------------------------------------------------------
(* The handshake. *)

\* The server has not answered yet.
Early == {"first_fill", "first_decode", "setup"}

\* A step of the server keeps the handshake if it writes nothing until it has
\* left it.
LEMMA ServerHandshake ==
  ASSUME IInv, NEW l, pc' = [pc EXCEPT !["server"] = l],
         handled'["client"] = handled["client"], wire'["server"] = wire["server"],
         l \in Early => pc["server"] \in Early /\ wire' = wire
  PROVE  Handshake'
<1>1. pc'["client"] = pc["client"] /\ pc'["server"] = l
  BY DEF IInv, Safe, Shape, Ends
<1>2. CASE l \in Early
  BY <1>1, <1>2 DEF IInv, Handshake, Early
<1>3. CASE l \notin Early
  BY <1>1, <1>3 DEF IInv, Handshake, Early
<1>. QED  BY <1>2, <1>3

\* So does a step of the client that writes nothing and reaches its relay only
\* with an answer in hand.
LEMMA ClientHandshake ==
  ASSUME IInv, NEW l, pc' = [pc EXCEPT !["client"] = l], wire' = wire, l # "idle",
         l \in {"fill", "decode"} => handled'["client"] > 0
  PROVE  Handshake'
<1>1. pc'["client"] = l /\ pc'["server"] = pc["server"]
  BY DEF IInv, Safe, Shape, Ends
<1>. QED  BY <1>1 DEF IInv, Handshake

\* Reading, at either end.
LEMMA ReadStep ==
  ASSUME IInv, NEW e \in Ends, Read(e)
  PROVE  IInv'
<1>1. Safe
  BY DEF IInv
<1>2. Safe' /\ \E l \in PCs : /\ pc' = [pc EXCEPT ![e] = l] /\ l \notin {"idle", "setup"}
                              /\ l \in {"fill", "decode"} => pc[e] \in {"fill", "decode"}
                              /\ l \in {"first_fill", "first_decode"} => pc[e] \in Early
  <2>. "closed" \in PCs /\ "first_decode" \in PCs /\ "decode" \in PCs
       /\ "first_fill" \in PCs /\ "fill" \in PCs
    BY DEF PCs
  <2>1. CASE Fill(e)
    <3>1. CASE pc[e] = "first_fill"
      BY <1>1, <2>1, <3>1, FillSafe DEF Early
    <3>2. CASE pc[e] = "fill"
      BY <1>1, <2>1, <3>2, FillSafe DEF Early
    <3>. QED  BY <2>1, <3>1, <3>2 DEF Fill
  <2>2. CASE FillEof(e)
    BY <1>1, <2>2, FillEofSafe
  <2>3. CASE DecodeNone(e)
    <3>1. CASE pc[e] = "first_decode"
      BY <1>1, <2>3, <3>1, DecodeNoneSafe DEF Early
    <3>2. CASE pc[e] = "decode"
      BY <1>1, <2>3, <3>2, DecodeNoneSafe DEF Early
    <3>. QED  BY <2>3, <3>1, <3>2 DEF DecodeNone
  <2>. QED  BY <2>1, <2>2, <2>3 DEF Read
<1>3. UNCHANGED <<wire, handled>>
  BY DEF Read, Fill, FillEof, DecodeNone
<1>4. PICK l \in PCs : /\ pc' = [pc EXCEPT ![e] = l] /\ l \notin {"idle", "setup"}
                       /\ l \in {"fill", "decode"} => pc[e] \in {"fill", "decode"}
                       /\ l \in {"first_fill", "first_decode"} => pc[e] \in Early
  BY <1>2
<1>5. CASE e = "client"
  <2>1. l \in {"fill", "decode"} => handled'["client"] > 0
    BY <1>3, <1>4, <1>5 DEF IInv, Handshake
  <2>2. Handshake'
    BY <1>3, <1>4, <1>5, <2>1, ClientHandshake
  <2>. QED  BY <1>2, <2>2 DEF IInv
<1>6. CASE e = "server"
  <2>1. l \in Early => pc["server"] \in Early
    BY <1>4, <1>6 DEF Early
  <2>2. Handshake'
    BY <1>3, <1>4, <1>6, <2>1, ServerHandshake
  <2>. QED  BY <1>2, <2>2 DEF IInv
<1>. QED  BY <1>5, <1>6 DEF Ends

\* Every other step of the server.
LEMMA ServerStep ==
  ASSUME IInv, Server \/ ServerTimeout \/ ServerSend
  PROVE  IInv'
<1>1. Safe
  BY DEF IInv
<1>2. CASE ServerConnect
  <2>1. pc["server"] \in Early
    BY <1>2 DEF ServerConnect, Early
  <2>2. Handshake'
    BY <1>2, <2>1, ServerConnectSafe, ServerHandshake
  <2>. QED  BY <1>2, <2>2, ServerConnectSafe DEF IInv
<1>3. CASE ServerAnswer
  <2>1. "closed" \notin Early
    BY DEF Early
  <2>2. Handshake'
    BY <1>1, <1>3, <2>1, ServerAnswerSafe, ServerHandshake
  <2>. QED  BY <1>1, <1>3, <2>2, ServerAnswerSafe DEF IInv
<1>4. CASE ServerSetup \/ ServerInitial \/ ServerSend
  <2>1. /\ Safe' /\ UNCHANGED handled /\ wire'["server"] = wire["server"]
        /\ \E l \in {"initial", "fill", "decode", "closed"} : pc' = [pc EXCEPT !["server"] = l]
    BY <1>1, <1>4, ServerWriteSafe
  <2>2. \A l \in {"initial", "fill", "decode", "closed"} : l \notin Early
    BY DEF Early
  <2>3. Handshake'
    BY <2>1, <2>2, ServerHandshake
  <2>. QED  BY <2>1, <2>3 DEF IInv
<1>5. CASE ServerHandle
  <2>1. \A l \in {"decode", "closed"} : l \notin Early
    BY DEF Early
  <2>2. Handshake'
    BY <1>1, <1>5, <2>1, ServerHandleSafe, ServerHandshake
  <2>. QED  BY <1>1, <1>5, <2>2, ServerHandleSafe DEF IInv
<1>6. CASE ServerTimeout
  <2>1. "server" \in Ends /\ "closed" \in PCs /\ "closed" \notin Waiting /\ "closed" \notin Early
    BY DEF Ends, PCs, Waiting, Early
  <2>2. pc' = [pc EXCEPT !["server"] = "closed"] /\ UNCHANGED <<wire, buf, handled, refused>>
    BY <1>6 DEF ServerTimeout, Goto
  <2>3. Safe'
    BY <1>1, <2>1, <2>2, StillOK
  <2>4. Handshake'
    BY <2>1, <2>2, ServerHandshake
  <2>. QED  BY <2>3, <2>4 DEF IInv
<1>. QED  BY <1>2, <1>3, <1>4, <1>5, <1>6 DEF Server

\* Client messages: the request first; the others only after an answer, so that
\* the server has left the handshake.
LEMMA ClientWrites ==
  ASSUME IInv, ClientRequest \/ ClientSend
  PROVE  IInv'
<1>. DEFINE e == "client"
<1>1. /\ e \in Ends /\ Peer(e) = "server" /\ "server" \in Ends
      /\ {"first_fill", "fill", "decode", "closed"} \subseteq PCs
      /\ {"Connect", "Request", "Input", "Detach"} \subseteq Kinds
      /\ "closed" \notin Waiting
  BY PeerFacts DEF Ends, PCs, Kinds, Waiting
<1>2. Safe /\ Shape /\ UNCHANGED <<buf, handled, refused>>
  BY DEF IInv, Safe, ClientRequest, ClientSend
<1>3. pc[e] \in Waiting => NoComplete(wire[e], buf[e], handled[e])
  BY <1>1, <1>2 DEF Safe, EndInv
<1>4. PICK kind \in Kinds, label \in {"first_fill", "fill", "decode", "closed"} :
        /\ Send(e, kind, label)
        /\ label \in Waiting => NoComplete(wire[e], buf[e], handled[e])
        /\ label \in {"fill", "decode"} => pc[e] = label
  <2>1. CASE ClientRequest
    <3>1. pc[e] \in Waiting
      BY <2>1 DEF ClientRequest, Waiting
    <3>. QED  BY <1>1, <1>3, <2>1, <3>1 DEF ClientRequest
  <2>2. CASE ClientSend
    BY <1>1, <1>3, <2>2 DEF ClientSend, ClientMaySend
  <2>. QED  BY <2>1, <2>2
<1>5. Safe'
  BY <1>1, <1>2, <1>4, SendOnlyOK
<1>6. /\ pc'["server"] = pc["server"] /\ wire'["client"] = wire["client"]
      /\ pc'["client"] = label \/ pc'["client"] = "closed"
      /\ \/ wire' = wire
         \/ \E f \in FrameSet : wire'["server"] = Append(wire["server"], f)
  <2>1. \/ pc' = [pc EXCEPT ![e] = "closed"] /\ wire' = wire
        \/ /\ pc' = [pc EXCEPT ![e] = label]
           /\ \E f \in FrameSet : wire' = [wire EXCEPT !["server"] = Append(@, f)]
    BY <1>1, <1>2, <1>4, SendIs
  <2>2. "client" # "server"
    OBVIOUS
  <2>3. CASE pc' = [pc EXCEPT ![e] = "closed"] /\ wire' = wire
    BY <1>1, <1>2, <2>2, <2>3 DEF Shape
  <2>4. CASE /\ pc' = [pc EXCEPT ![e] = label]
             /\ \E f \in FrameSet : wire' = [wire EXCEPT !["server"] = Append(@, f)]
    <3>1. pc'["server"] = pc["server"] /\ pc'["client"] = label
      BY <1>1, <1>2, <2>2, <2>4 DEF Shape
    <3>2. PICK f \in FrameSet : wire' = [wire EXCEPT !["server"] = Append(@, f)]
      BY <2>4
    <3>3. wire'["client"] = wire["client"] /\ wire'["server"] = Append(wire["server"], f)
      BY <1>1, <1>2, <2>2, <3>2 DEF Shape
    <3>. QED  BY <3>1, <3>3
  <2>. QED  BY <2>1, <2>3, <2>4
<1>7. pc'["client"] # "idle"
  BY <1>4, <1>6
<1>8. pc'["client"] \in {"fill", "decode"} => handled'["client"] > 0
  BY <1>2, <1>4, <1>6 DEF IInv, Handshake
<1>9. CASE ClientRequest
  <2>1. wire["server"] = << >>
    BY <1>9 DEF ClientRequest, IInv, Handshake
  <2>2. \A f \in FrameSet : Len(Append(<< >>, f)) <= 1
    OBVIOUS
  <2>3. Len(wire'["server"]) <= 1
    <3>1. Len(<< >>) <= 1
      OBVIOUS
    <3>. QED  BY <1>6, <2>1, <2>2, <3>1
  <2>4. Handshake'
    BY <1>6, <1>7, <1>8, <2>3 DEF IInv, Handshake
  <2>. QED  BY <1>5, <2>4 DEF IInv
<1>10. CASE ClientSend
  <2>1. handled["client"] > 0
    BY <1>10 DEF ClientSend, ClientMaySend, IInv, Handshake
  <2>2. wire["client"] # << >>
    <3>1. handled["client"] <= Len(wire["client"]) /\ handled["client"] \in Nat
      BY <1>1, <1>2 DEF Safe, EndInv, ReadOK
    <3>. QED  BY <2>1, <3>1
  <2>3. pc["server"] \notin Early
    BY <2>2 DEF IInv, Handshake, Early
  <2>4. Handshake'
    BY <1>6, <1>7, <1>8, <2>3 DEF Handshake, Early
  <2>. QED  BY <1>5, <2>4 DEF IInv
<1>. QED  BY <1>9, <1>10

\* Every other step of the client.
LEMMA ClientStep ==
  ASSUME IInv, Client \/ ClientRequest \/ ClientSend \/ ClientGone
  PROVE  IInv'
<1>1. Safe
  BY DEF IInv
<1>2. CASE Client
  <2>1. /\ Safe' /\ wire' = wire /\ handled'["client"] > 0
        /\ \E l \in {"decode", "closed"} : pc' = [pc EXCEPT !["client"] = l]
    BY <1>1, <1>2, ClientTakeSafe
  <2>2. Handshake'
    BY <2>1, ClientHandshake
  <2>. QED  BY <2>1, <2>2 DEF IInv
<1>3. CASE ClientGone
  <2>1. "client" \in Ends /\ "closed" \in PCs /\ "closed" \notin Waiting
    BY DEF Ends, PCs, Waiting
  <2>2. pc' = [pc EXCEPT !["client"] = "closed"] /\ UNCHANGED <<wire, buf, handled, refused>>
    BY <1>3 DEF ClientGone, Goto
  <2>3. Safe'
    BY <1>1, <2>1, <2>2, StillOK
  <2>4. Handshake'
    BY <2>2, ClientHandshake
  <2>. QED  BY <2>3, <2>4 DEF IInv
<1>. QED  BY <1>2, <1>3, ClientWrites

-----------------------------------------------------------------------------
(* The theorems. *)

\* The inductive invariant: every connection, however its stream is cut and
\* whichever end goes away, stays in step and in the order of the handshake.
THEOREM Invariance == Spec => []IInv
<1>1. Init => IInv
  <2>. SUFFICES ASSUME Init PROVE IInv
    OBVIOUS
  <2>1. Shape
    <3>1. pc \in [Ends -> PCs]
      BY DEF Init, Ends, PCs
    <3>. QED  BY <3>1 DEF Init, Shape
  <2>2. ASSUME NEW e \in Ends PROVE EndInv(e)
    <3>1. wire[e] = << >> /\ buf[e] = [base |-> 0, offset |-> 0, len |-> 0] /\ handled[e] = 0
      BY DEF Init
    <3>2. WireOK(<< >>)
      BY DEF WireOK
    <3>3. ReadOK(<< >>, [base |-> 0, offset |-> 0, len |-> 0], 0)
      BY DEF ReadOK, Buffers, Total, After
    <3>4. NoComplete(<< >>, [base |-> 0, offset |-> 0, len |-> 0], 0)
      BY DEF NoComplete, Available, HEADER
    <3>. QED  BY <3>1, <3>2, <3>3, <3>4 DEF EndInv
  <2>3. Handshake
    <3>1. /\ wire["client"] = << >> /\ wire["server"] = << >>
          /\ pc["client"] = "idle" /\ Len(<< >>) <= 1
      BY DEF Init, Ends
    <3>. QED  BY <3>1 DEF Handshake
  <2>4. NeverRefused
    BY DEF Init, NeverRefused
  <2>. QED  BY <2>1, <2>2, <2>3, <2>4 DEF IInv, Safe
<1>2. IInv /\ [Next]_vars => IInv'
  <2>. SUFFICES ASSUME IInv, [Next]_vars PROVE IInv'
    OBVIOUS
  <2>1. CASE \E e \in Ends : Read(e)
    BY <2>1, ReadStep
  <2>2. CASE Server \/ ServerTimeout \/ ServerSend
    BY <2>2, ServerStep
  <2>3. CASE Client \/ ClientRequest \/ ClientSend \/ ClientGone
    BY <2>3, ClientStep
  <2>4. CASE UNCHANGED vars
    BY <2>4 DEF vars, IInv, Safe, Shape, EndInv, Handshake, NeverRefused
  <2>. QED  BY <2>1, <2>2, <2>3, <2>4 DEF Next, Over
<1>. QED  BY <1>1, <1>2, PTL DEF Spec

\* Every variable keeps its type: a FrameReader's offset stays inside its
\* buffer, and the buffer holds bytes that were written.
THEOREM TypeCorrect == Spec => []TypeOK
<1>1. ASSUME IInv PROVE TypeOK
  <2>1. ASSUME NEW e \in Ends PROVE WireOK(wire[e]) /\ ReadOK(wire[e], buf[e], handled[e])
    BY <1>1 DEF IInv, Safe, EndInv
  <2>2. ASSUME NEW e \in Ends, NEW i \in DOMAIN wire[e] PROVE wire[e][i] \in FrameSet
    <3>1. wire[e] \in Seq(FrameSet) /\ i \in 1..Len(wire[e])
      BY <2>1, <2>2, LenProperties DEF WireOK
    <3>. QED  BY <3>1, ElementOfSeq
  <2>3. ASSUME NEW e \in Ends
        PROVE  /\ buf[e].base \in Nat /\ buf[e].len \in Nat /\ buf[e].offset \in 0..buf[e].len
               /\ buf[e].base + buf[e].len <= Written(e)
               /\ handled[e] \in 0..Len(wire[e])
    BY <2>1, <2>3 DEF ReadOK, Buffers, Total, Written
  <2>. QED  BY <1>1, <2>2, <2>3 DEF IInv, Safe, Shape, TypeOK, FrameSet
<1>. QED  BY <1>1, Invariance, PTL

\* FrameReader: the messages handled are the ones written, in order and once,
\* however the stream is cut into reads and across into_leftover.
THEOREM InSyncHolds == Spec => []InSync
<1>1. IInv => InSync
  BY DEF IInv, Safe, EndInv, ReadOK, After, InSync
<1>. QED  BY <1>1, Invariance, PTL

\* fill_from's overflow limit and decode_frame's checks never refuse what encode
\* accepts.
THEOREM NeverRefusedHolds == Spec => []NeverRefused
<1>1. IInv => NeverRefused
  BY DEF IInv, Safe
<1>. QED  BY <1>1, Invariance, PTL

\* No complete message waits in a buffer while its relay waits for the socket:
\* the leftover of handle_client included.
THEOREM NoneStrandedHolds == Spec => []NoneStranded
<1>1. IInv => NoneStranded
  <2>. SUFFICES ASSUME IInv, NEW e \in Ends, pc[e] = "fill", NEW f \in FramesHere(e)
                PROVE  ~Complete(e, f)
    BY DEF NoneStranded
  <2>1. EndInv(e) /\ NoComplete(wire[e], buf[e], handled[e])
    BY DEF IInv, Safe, EndInv, Waiting
  <2>. QED  BY <2>1, NothingComplete
<1>. QED  BY <1>1, Invariance, PTL
=============================================================================

---------------------------- MODULE RequestProofs ----------------------------
(***************************************************************************)
(* Proofs about sending a request: the request body and its writer, and    *)
(* after them the retry loop.                                              *)
(***************************************************************************)
EXTENDS RequestBody, Retry, DataLemmas

-----------------------------------------------------------------------------
(* The chunks in the channel *)

(* Every part of the channel carries chunks of the body. *)
LEMMA PartsCarryChunks == \A p \in Parts : p.chunks \in Seq(1 .. MaxChunks)
  BY DEF Parts, Chunks

(* AllChunks is the contents that DataLemmas speaks of. *)
LEMMA AllChunksIsContents == \A parts : AllChunks(parts) = Contents(parts)
  BY DEF AllChunks, Contents, Payloads

(* All that the channel carries. *)
LEMMA AllChunksType ==
    ASSUME NEW c \in Seq(Parts)
    PROVE  AllChunks(c) \in Chunks
  BY PartsCarryChunks, AllChunksIsContents, ContentsType DEF Chunks

(* An empty channel carries nothing. *)
LEMMA AllChunksEmpty == AllChunks(<<>>) = <<>>
  BY AllChunksIsContents, ContentsEmpty

(* A frame that is sent adds its chunks at the end. *)
LEMMA AllChunksAppend ==
    ASSUME NEW c \in Seq(Parts), NEW p \in Parts
    PROVE  AllChunks(Append(c, p)) = AllChunks(c) \o p.chunks
<1>1. Contents(Append(c, p)) = Contents(c) \o p.chunks
  BY PartsCarryChunks, ContentsAppend, Zenon
<1> QED
  BY <1>1, AllChunksIsContents

(* poll_frame takes the first part of the channel. *)
LEMMA AllChunksHead ==
    ASSUME NEW c \in Seq(Parts), c # <<>>
    PROVE  /\ Tail(c) \in Seq(Parts) /\ Head(c) \in Parts
           /\ AllChunks(c) = Head(c).chunks \o AllChunks(Tail(c))
  BY PartsCarryChunks, AllChunksIsContents, ContentsHead

-----------------------------------------------------------------------------
(* What has been read, what is in the channel and what is buffered *)

(* The first n chunks of the body, and the one after them. *)
LEMMA UptoFacts ==
    ASSUME NEW n \in Nat
    PROVE  /\ Upto(n) \in Seq(1 .. n) /\ Len(Upto(n)) = n
           /\ Append(Upto(n), n + 1) = Upto(n + 1)
  BY DEF Upto

(* What poll_flush sends goes to the end of the channel. *)
LEMMA FlushingChunks ==
    ASSUME NEW r \in Chunks, NEW a \in Chunks, NEW b \in Chunks
    PROVE  r \o (a \o b) \o <<>> = r \o a \o b
<1> DEFINE A == 1 .. MaxChunks
<1>1. r \in Seq(A) /\ a \in Seq(A) /\ b \in Seq(A)
  BY DEF Chunks
<1> HIDE DEF A
<1> QED
  BY ONLY <1>1, SMTT(30)

(* What hyper reads comes from the front of the channel. *)
LEMMA ReadingChunks ==
    ASSUME NEW r \in Chunks, NEW h \in Chunks, NEW t \in Chunks
    PROVE  r \o (h \o t) = r \o h \o t
<1> DEFINE A == 1 .. MaxChunks
<1>1. r \in Seq(A) /\ h \in Seq(A) /\ t \in Seq(A)
  BY DEF Chunks
<1> HIDE DEF A
<1> QED
  BY ONLY <1>1, SMTT(30)

(* A chunk is written to the buffer or, when that is empty, sent. *)
LEMMA Writing ==
    ASSUME NEW r \in Chunks, NEW a \in Chunks, NEW b \in Chunks, NEW w \in 0 .. MaxChunks - 1,
           r \o a \o b = Upto(w)
    PROVE  r \o a \o Append(b, w + 1) = Upto(w + 1)
<1>0. w \in Nat /\ w + 1 \in 1 .. MaxChunks
  BY RequestBodyAssumption
<1>1. r \o a \o Append(b, w + 1) = Append(r \o a \o b, w + 1)
  <2>1. PICK x \in 1 .. MaxChunks : x = w + 1
    BY <1>0
  <2>2. r \o a \o Append(b, x) = Append(r \o a \o b, x)
    <3> DEFINE A == 1 .. MaxChunks
               c == r \o a
    <3>1. r \in Seq(A) /\ a \in Seq(A) /\ b \in Seq(A) /\ x \in A
      BY DEF Chunks
    <3> HIDE DEF A
    <3>2. c \in Seq(A)
      BY <3>1, ConcatProperties
    <3> HIDE DEF c
    <3>3. c \o Append(b, x) = Append(c \o b, x)
      BY <3>1, <3>2, SMTT(30)
    <3> QED
      BY <3>3, Zenon DEF c
  <2> QED
    BY <2>1, <2>2
<1> QED
  BY <1>0, <1>1, UptoFacts

(* A chunk that is sent unbuffered comes after all the others. *)
LEMMA Sending ==
    ASSUME NEW r \in Chunks, NEW a \in Chunks, NEW w \in 0 .. MaxChunks - 1,
           r \o a \o <<>> = Upto(w)
    PROVE  r \o (a \o <<w + 1>>) \o <<>> = Upto(w + 1)
<1>0. w \in Nat /\ w + 1 \in 1 .. MaxChunks
  BY RequestBodyAssumption
<1>1. r \o (a \o <<w + 1>>) \o <<>> = Append(r \o a \o <<>>, w + 1)
  BY <1>0 DEF Chunks
<1> QED
  BY <1>0, <1>1, UptoFacts

-----------------------------------------------------------------------------
(* The inductive invariant *)

(* What the variants of the body have to do with each other. *)
ShapeInv ==
    /\ kind # "Streaming" => stage = "ok" /\ inner # "Stream" /\ buf = <<>>
    /\ kind = "Streaming" => inner # "Single" /\ (hyper = "reading" <=> inner = "Stream")
    /\ hyper # "reading" => inner = "Empty"
    /\ inner # "Stream" => channel = <<>>

(* A body that is not a stream. *)
PlainInv ==
    /\ inner = "Single" => written = 1
    /\ kind # "Streaming" /\ inner = "Empty" /\ hyper = "reading" => received = Upto(written)

(* write_bytes has a chunk to send; Done is sent last, when nothing is     *)
(* left to send.                                                           *)
DoneInv ==
    /\ stage = "send_frame" => written < MaxChunks
    /\ stage \in {"send_done", "flush_done"} => buf = <<>>
    /\ \A i \in DOMAIN channel : channel[i].done =>
          /\ i = Len(channel) /\ channel[i].chunks = <<>>
          /\ buf = <<>> /\ stage \in {"flush_done", "ok", "cancelled"}

BodyInv ==
    TypeOK /\ ShapeInv /\ PlainInv /\ DoneInv /\ NothingLost /\ NoTruncation
    /\ UntouchedUnlessPolled

(* Before the first poll nothing is written, sent or read. *)
LEMMA InitBody == Init => BodyInv
<1> SUFFICES ASSUME Init PROVE BodyInv
  OBVIOUS
<1> USE RequestBodyAssumption
<1>0. /\ channel = <<>> /\ received = <<>> /\ buf = <<>> /\ hyper = "reading"
      /\ written = IF kind = "Fixed" THEN 1 ELSE 0
  BY Zenon DEF Init
<1>1. TypeOK
  <2>1. inner \in {"Empty", "Single", "Stream"}
    BY DEF Init, Kinds
  <2>2. <<>> \in Chunks /\ <<>> \in Seq(Parts) /\ Len(<<>>) = 0
    BY EmptySeq DEF Chunks
  <2>3. polled \in {"unsent", "sent", "closed"} /\ stage \in Stages /\ kind \in Kinds
    BY DEF Init, Stages
  <2>4. written \in 0 .. MaxChunks
    BY <1>0
  <2>5. channel \in Seq(Parts) /\ Len(channel) <= Slots /\ buf \in Chunks
        /\ Len(buf) <= BufferFull + 1 /\ received \in Chunks
    BY <1>0, <2>2
  <2> QED
    BY <1>0, <2>1, <2>3, <2>4, <2>5 DEF TypeOK, Hyper
<1>2. ShapeInv
  BY DEF Init, ShapeInv, Kinds
<1>3. PlainInv /\ DoneInv /\ UntouchedUnlessPolled /\ NoTruncation
  <2>1. Upto(0) = <<>>
    BY DEF Upto
  <2>2. PlainInv
    BY <2>1 DEF Init, PlainInv, Kinds
  <2>3. DOMAIN channel = {}
    BY <1>0
  <2> QED
    BY <2>2, <2>3 DEF Init, DoneInv, UntouchedUnlessPolled, NoTruncation
<1>4. NothingLost
  <2>1. Upto(0) = <<>>
    BY DEF Upto
  <2>2. inner = "Stream" => written = 0 /\ received = <<>> /\ channel = <<>> /\ buf = <<>>
    BY DEF Init, Kinds
  <2>3. <<>> \o <<>> \o <<>> = <<>>
    OBVIOUS
  <2> QED
    BY <2>1, <2>2, <2>3, AllChunksEmpty DEF NothingLost
<1> QED
  BY <1>1, <1>2, <1>3, <1>4 DEF BodyInv

-----------------------------------------------------------------------------
(* The steps *)

(* The writer moves on. Its state before Done was sent is not left for one *)
(* after it, and it starts to write only when hyper has polled.            *)
LEMMA ProceedKeeps ==
    ASSUME BodyInv,
           NEW from \in Stages \ {"ok", "error", "cancelled"},
           NEW to \in Stages \ {"send_done", "flush_done"},
           Proceed(from, to),
           to = "send_frame" => written < MaxChunks,
           from = "flush_done" => to \in {"ok", "cancelled"},
           from = "await_polled" => polled = "sent" \/ to \in {"ok", "cancelled"}
    PROVE  BodyInv'
<1>1. TypeOK'
  BY DEF BodyInv, TypeOK, Proceed, hyperVars
<1>2. ShapeInv' /\ PlainInv'
  BY DEF BodyInv, ShapeInv, PlainInv, Proceed, hyperVars, Stages, Upto
<1>3. DoneInv'
  BY DEF BodyInv, DoneInv, Proceed, Stages
<1>4. NothingLost'
  BY DEF BodyInv, NothingLost, Proceed, hyperVars, AllChunks, Upto
<1>5. NoTruncation' /\ UntouchedUnlessPolled'
  BY DEF BodyInv, NoTruncation, UntouchedUnlessPolled, Proceed, hyperVars, Stages, Upto
<1> QED
  BY <1>1, <1>2, <1>3, <1>4, <1>5 DEF BodyInv

(* poll_flush sends what is buffered as one frame. *)
LEMMA FlushKeeps ==
    ASSUME NEW to \in {"write_body", "send_frame", "send_done"}
    PROVE  BodyInv /\ FlushTo(to)
             /\ stage \in {"flush", "send_frame", "finish"}
             /\ (to = "send_frame" => stage = "send_frame") => BodyInv'
<1> USE RequestBodyAssumption
<1>h. SUFFICES ASSUME BodyInv, stage \in {"flush", "send_frame", "finish"}, FlushTo(to),
                      to = "send_frame" => stage = "send_frame"
               PROVE  BodyInv'
  OBVIOUS
<1>0. TypeOK /\ ShapeInv /\ PlainInv /\ DoneInv /\ NothingLost /\ NoTruncation /\ UntouchedUnlessPolled
  BY <1>h DEF BodyInv
<1>1. buf' = <<>> /\ stage' = to /\ UNCHANGED <<kind, inner, polled, hyper, received, written>>
  BY <1>h DEF FlushTo, hyperVars
<1>2. UntouchedUnlessPolled' /\ NoTruncation' /\ polled = "sent" /\ kind = "Streaming" /\ hyper # "eof"
  BY <1>h, <1>0, <1>1 DEF UntouchedUnlessPolled, NoTruncation, ShapeInv, TypeOK, Kinds
<1>3. \A i \in DOMAIN channel : ~channel[i].done
  BY <1>h, <1>0 DEF DoneInv
<1>4. CASE buf = <<>>
  <2>1. channel' = channel
    BY <1>h, <1>4 DEF FlushTo
  <2>2. TypeOK'
    BY <1>0, <1>1, <1>4, <2>1 DEF TypeOK, Stages
  <2>3. ShapeInv' /\ PlainInv'
    BY <1>0, <1>1, <1>2, <2>1 DEF ShapeInv, PlainInv
  <2>4. DoneInv'
    BY <1>h, <1>0, <1>1, <1>3, <2>1 DEF DoneInv
  <2>5. NothingLost'
    BY <1>0, <1>1, <1>4, <2>1 DEF NothingLost, AllChunks, Upto
  <2> QED
    BY <1>2, <2>2, <2>3, <2>4, <2>5 DEF BodyInv
<1>5. CASE buf # <<>>
  <2>1. /\ inner = "Stream" /\ Len(channel) < Slots
        /\ channel' = Append(channel, Frame(buf))
    BY <1>h, <1>5 DEF FlushTo, SendReady, ReceiverGone
  <2>2. /\ Frame(buf) \in Parts /\ ~Frame(buf).done /\ Frame(buf).chunks = buf
        /\ channel \in Seq(Parts) /\ buf \in Chunks /\ received \in Chunks
    BY <1>0 DEF TypeOK, Frame, Parts
  <2>3. TypeOK'
    <3>1. channel' \in Seq(Parts) /\ Len(channel') <= Slots
      <4>1. channel' \in Seq(Parts) /\ Len(channel') = Len(channel) + 1 /\ Len(channel) \in Nat
        <5>1. Append(channel, Frame(buf)) \in Seq(Parts)
              /\ Len(Append(channel, Frame(buf))) = Len(channel) + 1
          BY <2>2, SentPart
        <5>2. Len(channel) \in Nat
          BY <2>2, LenProperties
        <5> QED
          BY <2>1, <5>1, <5>2
      <4>2. Len(channel) < Slots
        BY <2>1
      <4>3. Len(channel') <= Slots
        BY <4>1, <4>2, RequestBodyAssumption
      <4> QED
        BY <4>1, <4>3
    <3>2. buf' \in Chunks /\ Len(buf') <= BufferFull + 1
      <4>1. buf' \in Chunks /\ Len(buf') = 0
        BY <1>1, EmptySeq DEF Chunks
      <4> QED
        BY <4>1, RequestBodyAssumption
    <3> QED
      BY <1>0, <1>1, <3>1, <3>2 DEF TypeOK, Stages
  <2>4. ShapeInv' /\ PlainInv'
    BY <1>0, <1>1, <1>2, <2>1 DEF ShapeInv, PlainInv
  <2>5. \A i \in DOMAIN channel' : ~channel'[i].done
    BY <1>3, <2>1, <2>2, SentPart, Zenon
  <2>6. DoneInv'
    BY <1>h, <1>0, <1>1, <2>5 DEF DoneInv
  <2>7. NothingLost'
    <3>1. AllChunks(channel') = AllChunks(channel) \o buf
      BY <2>1, <2>2, AllChunksAppend
    <3>2. AllChunks(channel) \in Chunks
      BY <2>2, AllChunksType
    <3>3. received \o (AllChunks(channel) \o buf) \o <<>> = received \o AllChunks(channel) \o buf
      BY <2>2, <3>2, FlushingChunks, Zenon
    <3>4. received' \o AllChunks(channel') \o buf' = Upto(written)
      BY <1>0, <1>1, <2>1, <3>1, <3>3 DEF NothingLost
    <3> QED
      BY <1>1, <3>4 DEF NothingLost
  <2> QED
    BY <1>2, <2>3, <2>4, <2>6, <2>7 DEF BodyInv
<1> QED
  BY <1>4, <1>5

(* The caller writes into the buffer. *)
LEMMA WriteKeeps == BodyInv /\ poll_write => BodyInv'
<1> USE RequestBodyAssumption
<1>h. SUFFICES ASSUME BodyInv, poll_write PROVE BodyInv'
  OBVIOUS
<1>0. TypeOK /\ ShapeInv /\ PlainInv /\ DoneInv /\ NothingLost /\ NoTruncation /\ UntouchedUnlessPolled
  BY <1>h DEF BodyInv
<1>1. /\ stage = "write_body" /\ stage' = stage /\ buf' = Append(buf, written + 1)
      /\ written' = written + 1
      /\ UNCHANGED <<kind, channel, inner, polled, hyper, received>>
  BY <1>h DEF poll_write, hyperVars
<1>2. /\ written \in 0 .. MaxChunks - 1 /\ Len(buf) <= BufferFull
      /\ buf \in Chunks /\ received \in Chunks /\ channel \in Seq(Parts)
  BY <1>0, <1>h DEF TypeOK, poll_write
<1>3. polled = "sent" /\ kind = "Streaming" /\ hyper # "eof"
  BY <1>0, <1>1 DEF UntouchedUnlessPolled, NoTruncation, ShapeInv
<1>4. TypeOK'
  <2>1. written + 1 \in 1 .. MaxChunks
    BY <1>2
  <2>2. Append(buf, written + 1) \in Chunks /\ Len(Append(buf, written + 1)) = Len(buf) + 1
    BY <1>2, <2>1, AppendProperties DEF Chunks
  <2>3. buf' \in Chunks /\ Len(buf') <= BufferFull + 1 /\ written' \in 0 .. MaxChunks
    BY <1>1, <1>2, <2>1, <2>2 DEF Chunks
  <2> QED
    BY <1>0, <1>1, <2>3 DEF TypeOK
<1>5. ShapeInv' /\ PlainInv' /\ NoTruncation' /\ UntouchedUnlessPolled'
  BY <1>0, <1>1, <1>3 DEF ShapeInv, PlainInv, NoTruncation, UntouchedUnlessPolled
<1>6. DoneInv'
  BY <1>0, <1>1 DEF DoneInv
<1>7. NothingLost'
  <2>1. AllChunks(channel) \in Chunks
    BY <1>2, AllChunksType
  <2>2. inner = "Stream" =>
            received \o AllChunks(channel) \o Append(buf, written + 1) = Upto(written + 1)
    BY <1>0, <1>2, <2>1, Writing DEF NothingLost
  <2>3. UNCHANGED AllChunks(channel)
    BY <1>1 DEF AllChunks
  <2> QED
    BY <1>1, <2>2, <2>3 DEF NothingLost
<1> QED
  BY <1>4, <1>5, <1>6, <1>7 DEF BodyInv

(* write_bytes sends a chunk of its own. *)
LEMMA SendFrameKeeps == BodyInv /\ send_frame => BodyInv'
<1> USE RequestBodyAssumption
<1>h. SUFFICES ASSUME BodyInv, send_frame PROVE BodyInv'
  OBVIOUS
<1> DEFINE p == Frame(<<written + 1>>)
<1>0. TypeOK /\ ShapeInv /\ PlainInv /\ DoneInv /\ NothingLost /\ NoTruncation /\ UntouchedUnlessPolled
  BY <1>h DEF BodyInv
<1>1. /\ stage = "send_frame" /\ stage' = "flush_frame" /\ buf = <<>> /\ buf' = <<>>
      /\ channel' = Append(channel, p) /\ written' = written + 1
      /\ inner = "Stream" /\ UNCHANGED <<kind, inner, polled, hyper, received>>
  BY <1>h DEF send_frame, hyperVars, SendReady, ReceiverGone
<1>2. /\ written \in 0 .. MaxChunks - 1 /\ Len(channel) < Slots
      /\ buf \in Chunks /\ received \in Chunks /\ channel \in Seq(Parts)
  BY <1>0, <1>h DEF TypeOK, DoneInv, send_frame, SendReady
<1>3. p \in Parts /\ ~p.done /\ p.chunks = <<written + 1>>
  <2>1. <<written + 1>> \in Chunks
    BY <1>2 DEF Chunks
  <2> QED
    BY <2>1 DEF Frame, Parts
<1>4. polled = "sent" /\ kind = "Streaming" /\ hyper # "eof"
  BY <1>0, <1>1 DEF UntouchedUnlessPolled, NoTruncation, ShapeInv
<1> HIDE DEF p
<1>5. TypeOK'
  <2>1. channel' \in Seq(Parts) /\ Len(channel') <= Slots
    <3>1. Append(channel, p) \in Seq(Parts) /\ Len(Append(channel, p)) = Len(channel) + 1
      BY <1>2, <1>3, SentPart
    <3>2. Len(channel) \in Nat
      BY <1>2, LenProperties
    <3> QED
      BY <1>1, <1>2, <3>1, <3>2
  <2>2. written' \in 0 .. MaxChunks
    BY <1>1, <1>2
  <2> QED
    BY <1>0, <1>1, <2>1, <2>2 DEF TypeOK, Stages
<1>6. ShapeInv' /\ PlainInv' /\ NoTruncation' /\ UntouchedUnlessPolled'
  BY <1>0, <1>1, <1>4 DEF ShapeInv, PlainInv, NoTruncation, UntouchedUnlessPolled
<1>7. DoneInv'
  <2>1. \A i \in DOMAIN channel : ~channel[i].done
    BY <1>0, <1>1 DEF DoneInv
  <2>2. \A i \in DOMAIN channel' : ~channel'[i].done
    BY <1>1, <1>2, <1>3, <2>1, SentPart, ZenonT(30)
  <2> QED
    BY <1>1, <2>2 DEF DoneInv
<1>8. NothingLost'
  <2>1. AllChunks(channel) \in Chunks
    BY <1>2, AllChunksType
  <2>2. received \o (AllChunks(channel) \o <<written + 1>>) \o <<>> = Upto(written + 1)
    BY <1>0, <1>1, <1>2, <2>1, Sending DEF NothingLost
  <2>3. AllChunks(channel') = AllChunks(channel) \o <<written + 1>>
    BY <1>1, <1>2, <1>3, AllChunksAppend
  <2>4. received' \o AllChunks(channel') \o buf' = Upto(written')
    BY <1>1, <2>2, <2>3
  <2> QED
    BY <2>4 DEF NothingLost
<1> QED
  BY <1>5, <1>6, <1>7, <1>8 DEF BodyInv

(* finish sends Done. *)
LEMMA SendDoneKeeps == BodyInv /\ send_done => BodyInv'
<1> USE RequestBodyAssumption
<1>h. SUFFICES ASSUME BodyInv, send_done PROVE BodyInv'
  OBVIOUS
<1>0. TypeOK /\ ShapeInv /\ PlainInv /\ DoneInv /\ NothingLost /\ NoTruncation /\ UntouchedUnlessPolled
  BY <1>h DEF BodyInv
<1>1. /\ stage = "send_done" /\ stage' = "flush_done" /\ channel' = Append(channel, Done)
      /\ inner = "Stream" /\ UNCHANGED <<kind, inner, polled, hyper, received, buf, written>>
  BY <1>h DEF send_done, hyperVars, SendReady, ReceiverGone
<1>2. Len(channel) < Slots /\ received \in Chunks /\ channel \in Seq(Parts) /\ buf = <<>>
  BY <1>0, <1>h DEF TypeOK, DoneInv, send_done, SendReady
<1>3. Done \in Parts /\ Done.done /\ Done.chunks = <<>> /\ <<>> \in Chunks
  BY EmptySeq DEF Done, Parts, Chunks
<1>4. TypeOK'
  <2>1. channel' \in Seq(Parts) /\ Len(channel') <= Slots
    <3>1. Append(channel, Done) \in Seq(Parts) /\ Len(Append(channel, Done)) = Len(channel) + 1
      BY <1>2, <1>3, SentPart
    <3>2. Len(channel) \in Nat
      BY <1>2, LenProperties
    <3> QED
      BY <1>1, <1>2, <3>1, <3>2
  <2> QED
    BY <1>0, <1>1, <2>1 DEF TypeOK, Stages
<1>5. ShapeInv' /\ PlainInv' /\ NoTruncation' /\ UntouchedUnlessPolled'
  BY <1>0, <1>1 DEF ShapeInv, PlainInv, NoTruncation, UntouchedUnlessPolled
<1>6. DoneInv'
  <2>1. \A i \in DOMAIN channel : ~channel[i].done
    BY <1>0, <1>1 DEF DoneInv
  <2>2. Len(channel') = Len(channel) + 1
    BY <1>1, <1>2, <1>3, SentPart
  <2>3. \A i \in DOMAIN channel' : channel'[i].done => i = Len(channel') /\ channel'[i] = Done
    BY <1>1, <1>2, <1>3, <2>1, <2>2, SentPart, Zenon
  <2> QED
    BY <1>1, <1>2, <1>3, <2>3, Zenon DEF DoneInv
<1>7. NothingLost'
  <2>1. AllChunks(channel) \in Chunks
    BY <1>2, AllChunksType
  <2>2. AllChunks(channel') = AllChunks(channel) \o <<>>
    BY <1>1, <1>2, <1>3, AllChunksAppend
  <2>3. AllChunks(channel) \o <<>> = AllChunks(channel)
    BY <2>1, ConcatEmptySeq DEF Chunks
  <2> QED
    BY <1>0, <1>1, <2>2, <2>3 DEF NothingLost
<1> QED
  BY <1>4, <1>5, <1>6, <1>7 DEF BodyInv

(* hyper reads a body that is not a stream, or drops the body. *)
LEMMA PlainPollKeeps == BodyInv /\ (poll_empty \/ poll_single \/ hang_up) => BodyInv'
<1> USE RequestBodyAssumption
<1>h. SUFFICES ASSUME BodyInv, poll_empty \/ poll_single \/ hang_up PROVE BodyInv'
  OBVIOUS
<1>0. TypeOK /\ ShapeInv /\ PlainInv /\ DoneInv /\ NothingLost /\ NoTruncation /\ UntouchedUnlessPolled
  BY <1>h DEF BodyInv
<1>1. UNCHANGED <<kind, stage, buf, written>>
  BY <1>h DEF poll_empty, poll_single, hang_up, writerVars
<1>2. inner' = "Empty"
  BY <1>h DEF poll_empty, poll_single, hang_up
<1>3. channel' = <<>> /\ DOMAIN channel' = {}
  BY <1>h, <1>0 DEF poll_empty, poll_single, hang_up, ShapeInv
<1>4. polled' = polled \/ (polled = "unsent" /\ polled' = "closed")
  BY <1>h DEF poll_empty, poll_single, hang_up
<1>5. received' = received \/ (received' = <<1>> /\ written = 1)
  BY <1>h, <1>0 DEF poll_empty, poll_single, hang_up, PlainInv
<1>6. TypeOK'
  <2>1. received' \in Chunks
    <3>1. <<1>> \in Chunks
      BY DEF Chunks
    <3> QED
      BY <1>0, <1>5, <3>1 DEF TypeOK
  <2>2. channel' \in Seq(Parts) /\ Len(channel') <= Slots
    BY <1>3
  <2>3. hyper' \in Hyper
    BY <1>h, <1>0 DEF poll_empty, poll_single, hang_up, Hyper, TypeOK
  <2> QED
    BY <1>0, <1>1, <1>2, <1>4, <2>1, <2>2, <2>3 DEF TypeOK
<1>7. ShapeInv'
  BY <1>h, <1>0, <1>1, <1>2, <1>3 DEF ShapeInv, poll_empty, poll_single, hang_up
<1>8. Upto(1) = <<1>>
  BY DEF Upto
<1>9. PlainInv'
  BY <1>h, <1>0, <1>1, <1>2, <1>8 DEF PlainInv, ShapeInv, poll_empty, poll_single, hang_up
<1>10. DoneInv' /\ NothingLost' /\ UntouchedUnlessPolled'
  BY <1>0, <1>1, <1>2, <1>3, <1>4 DEF DoneInv, NothingLost, UntouchedUnlessPolled
<1>11. NoTruncation'
  BY <1>h, <1>0, <1>1 DEF NoTruncation, PlainInv, ShapeInv, poll_empty, poll_single, hang_up
<1> QED
  BY <1>6, <1>7, <1>9, <1>10, <1>11 DEF BodyInv

(* hyper reads the stream. *)
LEMMA StreamPollKeeps == BodyInv /\ poll_stream => BodyInv'
<1> USE RequestBodyAssumption
<1>h. SUFFICES ASSUME BodyInv, poll_stream PROVE BodyInv'
  OBVIOUS
<1>0. TypeOK /\ ShapeInv /\ PlainInv /\ DoneInv /\ NothingLost /\ NoTruncation /\ UntouchedUnlessPolled
  BY <1>h DEF BodyInv
<1>1. /\ hyper = "reading" /\ inner = "Stream" /\ kind = "Streaming" /\ polled' = "sent"
      /\ UNCHANGED <<kind, stage, buf, written>>
  BY <1>h, <1>0 DEF poll_stream, writerVars, ShapeInv, TypeOK, Kinds
<1>2. channel \in Seq(Parts) /\ received \in Chunks /\ buf \in Chunks /\ AllChunks(channel) \in Chunks
  BY <1>0, AllChunksType DEF TypeOK
<1>3. UntouchedUnlessPolled'
  BY <1>1 DEF UntouchedUnlessPolled
<1>4. CASE /\ channel # <<>> /\ ~Head(channel).done
           /\ received' = received \o Head(channel).chunks
           /\ channel' = Tail(channel)
           /\ UNCHANGED <<inner, hyper>>
  <2> DEFINE h == Head(channel).chunks
  <2>1. /\ Head(channel) \in Parts /\ h \in Chunks /\ Tail(channel) \in Seq(Parts)
        /\ AllChunks(channel) = h \o AllChunks(Tail(channel)) /\ AllChunks(Tail(channel)) \in Chunks
    BY <1>2, <1>4, AllChunksHead, AllChunksType DEF Parts
  <2>2. TypeOK'
    <3>1. received' \in Chunks
      BY <1>2, <1>4, <2>1, ConcatProperties DEF Chunks
    <3>2. channel' \in Seq(Parts) /\ Len(channel') = Len(channel) - 1 /\ Len(channel) \in Nat
      BY <1>2, <1>4, HeadTailProperties
    <3>3. Len(channel') <= Slots
      BY <1>0, <3>2 DEF TypeOK
    <3> QED
      BY <1>0, <1>1, <1>4, <3>1, <3>2, <3>3 DEF TypeOK
  <2>3. ShapeInv' /\ PlainInv' /\ NoTruncation'
    BY <1>0, <1>1, <1>4 DEF ShapeInv, PlainInv, NoTruncation
  <2>4. DoneInv'
    <3>1. /\ Len(channel) \in Nat \ {0} /\ Len(channel') = Len(channel) - 1
          /\ \A i \in 1 .. Len(channel') : channel'[i] = channel[i + 1]
          /\ DOMAIN channel' = 1 .. Len(channel') /\ DOMAIN channel = 1 .. Len(channel)
      BY <1>2, <1>4, HeadTailProperties, EmptySeq, LenProperties
    <3>2. ASSUME NEW i \in DOMAIN channel' PROVE i + 1 \in DOMAIN channel /\ channel'[i] = channel[i + 1]
      BY <3>1
    <3>3. ASSUME NEW i \in DOMAIN channel', i + 1 = Len(channel) PROVE i = Len(channel')
      BY <3>1, <3>3
    <3> QED
      BY <1>0, <1>1, <3>2, <3>3, Zenon DEF DoneInv
  <2>5. NothingLost'
    <3> HIDE DEF h
    <3> DEFINE t == AllChunks(Tail(channel))
    <3>0. h \in Chunks /\ t \in Chunks /\ received \in Chunks /\ buf \in Chunks
      BY <1>0, <1>2, <2>1 DEF TypeOK
    <3>a. received \o (h \o t) \o buf = Upto(written)
      BY <1>0, <1>1, <2>1 DEF NothingLost
    <3> HIDE DEF t
    <3>1. received \o (h \o t) = received \o h \o t
      BY <3>0, ReadingChunks, Zenon
    <3>2. received' \o AllChunks(channel') \o buf' = Upto(written')
      BY <1>1, <1>4, <3>a, <3>1 DEF h, t
    <3> QED
      BY <3>2 DEF NothingLost
  <2> QED
    BY <1>3, <2>2, <2>3, <2>4, <2>5 DEF BodyInv
<1>5. CASE /\ channel # <<>> /\ Head(channel).done
           /\ inner' = "Empty" /\ channel' = <<>>
           /\ hyper' = "eof"
           /\ UNCHANGED received
  <2>1. /\ 1 \in DOMAIN channel /\ channel[1] = Head(channel)
    BY <1>2, <1>5
  <2>2. Len(channel) = 1 /\ Head(channel).chunks = <<>> /\ buf = <<>>
        /\ stage \in {"flush_done", "ok", "cancelled"}
    BY <1>0, <1>5, <2>1, Zenon DEF DoneInv
  <2>3. received = Upto(written)
    <3>1. Tail(channel) = <<>>
      <4>1. Tail(channel) \in Seq(Parts) /\ Len(Tail(channel)) = 0
        BY <1>2, <1>5, <2>2, HeadTailProperties
      <4> QED
        BY <4>1, EmptySeq
    <3>2. AllChunks(channel) = <<>> \o <<>>
      BY <1>2, <1>5, <2>2, <3>1, AllChunksHead, AllChunksEmpty
    <3>3. received \o (<<>> \o <<>>) \o <<>> = received
      BY <1>2 DEF Chunks
    <3> QED
      BY <1>0, <1>1, <2>2, <3>2, <3>3 DEF NothingLost
  <2>4. TypeOK'
    <3>1. channel' \in Seq(Parts) /\ Len(channel') <= Slots
      BY <1>5
    <3> QED
      BY <1>0, <1>1, <1>5, <3>1 DEF TypeOK, Hyper
  <2>5. ShapeInv' /\ PlainInv' /\ NothingLost'
    BY <1>0, <1>1, <1>5 DEF ShapeInv, PlainInv, NothingLost
  <2>6. DoneInv'
    <3>1. DOMAIN channel' = {}
      BY <1>5
    <3> QED
      BY <1>0, <1>1, <3>1 DEF DoneInv
  <2>7. NoTruncation'
    BY <1>1, <1>5, <2>2, <2>3 DEF NoTruncation
  <2> QED
    BY <1>3, <2>4, <2>5, <2>6, <2>7 DEF BodyInv
<1>6. CASE /\ channel = <<>> /\ inner' = "Empty" /\ hyper' = WithoutDone
           /\ UNCHANGED <<channel, received>>
  <2>1. TypeOK'
    BY <1>0, <1>1, <1>6 DEF TypeOK, Hyper, WithoutDone
  <2>2. ShapeInv' /\ PlainInv' /\ NothingLost' /\ NoTruncation'
    BY <1>0, <1>1, <1>6 DEF ShapeInv, PlainInv, NothingLost, NoTruncation, WithoutDone
  <2>3. DoneInv'
    BY <1>0, <1>1, <1>6 DEF DoneInv
  <2> QED
    BY <1>3, <2>1, <2>2, <2>3 DEF BodyInv
<1>7. CASE UNCHANGED <<inner, channel, hyper, received>>
  <2>1. TypeOK'
    BY <1>0, <1>1, <1>7 DEF TypeOK
  <2>2. ShapeInv' /\ PlainInv' /\ NoTruncation'
    BY <1>0, <1>1, <1>7 DEF ShapeInv, PlainInv, NoTruncation
  <2>3. DoneInv'
    BY <1>0, <1>1, <1>7 DEF DoneInv
  <2>4. NothingLost'
    BY <1>0, <1>1, <1>7 DEF NothingLost, AllChunks, Upto
  <2> QED
    BY <1>3, <2>1, <2>2, <2>3, <2>4 DEF BodyInv
<1> QED
  BY <1>h, <1>4, <1>5, <1>6, <1>7 DEF poll_stream

(* Where Writer::write goes on its own, or by a decision of the caller. *)
Moves ==
    \/ start_write \/ never_polled \/ begin_flush \/ write_bytes \/ frame_sent \/ body_complete
    \/ done_sent \/ body_fails \/ send_fails \/ write_error_ignored \/ cancel

(* These steps move no chunk, and keep the invariant. *)
LEMMA MovesKeep == BodyInv /\ Moves => BodyInv'
<1> SUFFICES ASSUME BodyInv, Moves PROVE BodyInv'
  OBVIOUS
<1>1. CASE start_write
  BY <1>1, ProceedKeeps DEF start_write, Stages
<1>2. CASE never_polled
  BY <1>2, ProceedKeeps DEF never_polled, Stages
<1>3. CASE begin_flush
  BY <1>3, ProceedKeeps DEF begin_flush, Stages
<1>4. CASE write_bytes
  BY <1>4, ProceedKeeps DEF write_bytes, Stages
<1>5. CASE frame_sent
  BY <1>5, ProceedKeeps DEF frame_sent, Stages
<1>6. CASE body_complete
  BY <1>6, ProceedKeeps DEF body_complete, Stages
<1>7. CASE done_sent
  BY <1>7, ProceedKeeps DEF done_sent, Stages
<1>8. CASE body_fails
  BY <1>8, ProceedKeeps DEF body_fails, Stages
<1>9. CASE send_fails
  <2>1. /\ stage \in Stages \ {"ok", "error", "cancelled", "flush_done", "await_polled"}
        /\ Proceed(stage, "error")
    BY <1>9 DEF send_fails, Stages
  <2> QED
    BY <2>1, ProceedKeeps DEF Stages
<1>10. CASE write_error_ignored
  <2>1. /\ stage \in Stages \ {"ok", "error", "cancelled", "flush_done", "await_polled"}
        /\ Proceed(stage, "write_body")
    BY <1>10 DEF write_error_ignored, Stages
  <2> QED
    BY <2>1, ProceedKeeps DEF Stages
<1>11. CASE cancel
  <2>1. stage \in Stages \ {"ok", "error", "cancelled"} /\ Proceed(stage, "cancelled")
    BY <1>11 DEF cancel, SenderGone, BodyInv, TypeOK
  <2> QED
    BY <2>1, ProceedKeeps DEF Stages
<1> QED
  BY <1>1, <1>2, <1>3, <1>4, <1>5, <1>6, <1>7, <1>8, <1>9, <1>10, <1>11 DEF Moves

(* Every step of writer, caller and hyper keeps the invariant. *)
LEMMA StepBody == BodyInv /\ [Next]_vars => BodyInv'
<1> SUFFICES ASSUME BodyInv, [Next]_vars PROVE BodyInv'
  OBVIOUS
<1>1. CASE poll_frame \/ hang_up
  BY <1>1, PlainPollKeeps, StreamPollKeeps DEF poll_frame
<1>2. CASE flush \/ flush_before_frame \/ finish
  <2>1. CASE flush
    BY <2>1, FlushKeeps DEF flush
  <2>2. CASE flush_before_frame
    BY <2>2, FlushKeeps DEF flush_before_frame
  <2>3. CASE finish
    BY <2>3, FlushKeeps DEF finish
  <2> QED
    BY <1>2, <2>1, <2>2, <2>3
<1>3. CASE poll_write
  BY <1>3, WriteKeeps
<1>4. CASE send_frame \/ send_done
  BY <1>4, SendFrameKeeps, SendDoneKeeps
<1>5. CASE Moves
  BY <1>5, MovesKeep
<1>6. CASE UNCHANGED vars
  <2>1. TypeOK'
    BY <1>6 DEF BodyInv, TypeOK, vars, writerVars, hyperVars
  <2>2. ShapeInv' /\ PlainInv' /\ NoTruncation' /\ UntouchedUnlessPolled'
    BY <1>6 DEF BodyInv, ShapeInv, PlainInv, NoTruncation, UntouchedUnlessPolled, Upto, vars, writerVars, hyperVars
  <2>3. DoneInv'
    BY <1>6 DEF BodyInv, DoneInv, vars, writerVars
  <2>4. NothingLost'
    BY <1>6 DEF BodyInv, NothingLost, AllChunks, Upto, vars, writerVars, hyperVars
  <2> QED
    BY <2>1, <2>2, <2>3, <2>4 DEF BodyInv
<1> QED
  BY <1>1, <1>2, <1>3, <1>4, <1>5, <1>6 DEF Next, WriterStep, CallerStep, Moves

-----------------------------------------------------------------------------
(* The theorems *)

(* BodyInv is an invariant, for every number of chunks, every buffer size  *)
(* and every number of slots in the channel between the BodyWriter of      *)
(* body.rs and the RawRequestBody of raw/body.rs.                          *)
THEOREM BodyInvariance == Spec => []BodyInv
  BY InitBody, StepBody, PTL DEF Spec

(* Between BodyWriter::poll_write and hyper's poll_frame no chunk of a     *)
(* streamed body is lost, repeated or reordered.                           *)
THEOREM BytesArriveInOrder == Spec => []NothingLost
<1>1. BodyInv => NothingLost
  BY DEF BodyInv
<1> QED
  BY <1>1, BodyInvariance, PTL

(* hyper's poll_frame sees the end of the body only when write_body        *)
(* returned Ok and everything it wrote has been read: whatever the writer, *)
(* the caller and the connection do in between.                            *)
THEOREM EndIsWhole == Spec => []NoTruncation
<1>1. BodyInv => NoTruncation
  BY DEF BodyInv
<1> QED
  BY <1>1, BodyInvariance, PTL

(* Writer::write never calls the caller's write_body for a request whose   *)
(* body hyper has not asked for.                                           *)
THEOREM NotConsumedEarly == Spec => []UntouchedUnlessPolled
<1>1. BodyInv => UntouchedUnlessPolled
  BY DEF BodyInv
<1> QED
  BY <1>1, BodyInvariance, PTL

-----------------------------------------------------------------------------
(* The retry loop that resets and resends the body, for any number of      *)
(* retries, any configuration and any behaviour of server, network and     *)
(* body.                                                                   *)

(* The states in which a failed attempt is being prepared for a retry. *)
Preparing == phase \in {"failed", "reset", "sleep"}

(* `attempt` counts the failures that prepare_for_retry has looked at, and *)
(* passes the limit only with the call's last failure.                     *)
CountInv ==
    /\ phase \in {"start", "sending"} => attempt = sent /\ attempt <= MaxNumRetries
    /\ phase = "failed" => sent = attempt + 1 /\ attempt <= MaxNumRetries
    /\ phase \in {"reset", "sleep"} => attempt = sent /\ attempt \in 1 .. MaxNumRetries
    /\ phase = "done" => sent <= MaxNumRetries + 1

(* A body that was read in part is one that the tracker knows of, until it *)
(* is reset.                                                               *)
FreshInv ==
    /\ config.body # "Streaming" => body = "fresh"
    /\ phase \in {"start", "sleep"} => body = "fresh"
    /\ phase \in {"sending", "failed", "reset"} /\ ~needs_reset => body = "fresh"

(* What must hold of the attempts so far for another one to be safe. *)
SafeToResend ==
    /\ idempotent \/ ~applied
    /\ last # Success
    /\ config.server_qos = "Propagate429And503ToCaller" /\ last.origin = "inner" =>
          last.cause \in {"RawClient", "Remote 500"}

(* It holds from send_attempt's choice until the next attempt begins, and  *)
(* while that one is under way nothing before it may have been applied.    *)
CauseInv ==
    /\ Preparing \/ (phase = "start" /\ sent > 0) => SafeToResend
    /\ phase \in {"start", "sending"} => idempotent \/ ~applied

RetryInv == RetryTypeOK /\ CountInv /\ FreshInv /\ CauseInv

Backoffs == [retry_after : BOOLEAN, exponent : 0 .. ShiftBits - 1] \cup {<< >>}

(* A chosen backoff is one: the shift is masked to the bits of its type. *)
LEMMA ChosenBackoffType ==
    ASSUME attempt \in Nat \ {0} PROVE ChosenBackoff \in Backoffs
<1>1. (attempt - 1) % ShiftBits \in 0 .. ShiftBits - 1 /\ 0 \in 0 .. ShiftBits - 1
  BY RetryAssumption
<1> QED
  BY <1>1 DEF ChosenBackoff, Backoffs

(* A call begins with its body untouched. *)
LEMMA InitRetry == RetryInit => RetryInv
<1> SUFFICES ASSUME RetryInit PROVE RetryInv
  OBVIOUS
<1>1. RetryTypeOK
  <2>1. backoff \in Backoffs
    BY DEF RetryInit, Backoffs
  <2>2. attempt \in 0 .. MaxNumRetries + 1 /\ sent \in Nat
    BY RetryAssumption DEF RetryInit
  <2> QED
    BY <2>1, <2>2, Zenon DEF RetryInit, RetryTypeOK, Backoffs
<1>2. CountInv /\ FreshInv /\ CauseInv
  BY RetryAssumption DEF RetryInit, CountInv, FreshInv, CauseInv, Preparing
<1> QED
  BY <1>1, <1>2 DEF RetryInv

(* The error send_attempt looks at is the writer's own or the one of the   *)
(* answer. If it is retried although the request is not idempotent, the    *)
(* server refused the request or was never given all of it.                *)
LEMMA OutcomeFacts ==
    ASSUME NEW answer \in Answers, NEW body_result \in BodyErrors \cup {Success},
           answer = "aborted" => body_result # Success
    PROVE  LET outcome == AttemptResult(answer, body_result) IN
           /\ outcome \in Errors \cup {Success}
           /\ outcome # Success /\ Retried(outcome) =>
                 /\ idempotent \/ ~MayBeApplied(answer)
                 /\ config.server_qos = "Propagate429And503ToCaller" /\ outcome.origin = "inner" =>
                       outcome.cause \in {"RawClient", "Remote 500"}
<1> DEFINE outcome == AttemptResult(answer, body_result)
<1>1. CASE answer = "success"
  BY <1>1 DEF AttemptResult
<1>2. CASE answer = "aborted"
  <2>1. outcome = body_result /\ body_result \in Errors /\ body_result.origin = "body"
    BY <1>2 DEF AttemptResult, BodyErrors
  <2> QED
    BY <1>2, <2>1 DEF MayBeApplied
<1>3. CASE answer \notin {"success", "aborted"}
  <2>1. outcome = ErrorOf(answer)
    BY <1>3 DEF AttemptResult
  <2>2. CauseOf(answer) \in Causes /\ KindOf(answer) \in {"Service", "other"}
    BY DEF CauseOf, KindOf, Causes
  <2>3. /\ outcome \in Errors
        /\ outcome.cause = CauseOf(answer) /\ outcome.kind = KindOf(answer)
    BY <2>1, <2>2 DEF ErrorOf, Errors
  <2>4. CauseOf(answer) \in {"Throttled", "Throttled Retry-After", "Unavailable"} =>
              /\ ~MayBeApplied(answer)
              /\ config.server_qos = "Propagate429And503ToCaller" => KindOf(answer) = "other"
    BY DEF CauseOf, KindOf, MayBeApplied
  <2> QED
    BY <2>3, <2>4 DEF Retried
<1> QED
  BY <1>1, <1>2, <1>3

(* Each step of the loop keeps the invariant. *)
LEMMA StepRetry == RetryInv /\ [RetryNext]_retryVars => RetryInv'
<1> SUFFICES ASSUME RetryInv, [RetryNext]_retryVars PROVE RetryInv'
  OBVIOUS
<1> USE RetryAssumption DEF RetryInv
<1>1. CASE start_attempt
  <2>1. RetryTypeOK'
    BY <1>1 DEF start_attempt, historyVars, RetryTypeOK, CountInv
  <2>2. CountInv'
    BY <1>1 DEF start_attempt, historyVars, RetryTypeOK, CountInv
  <2>3. FreshInv'
    BY <1>1 DEF start_attempt, historyVars, RetryTypeOK, FreshInv
  <2>4. CauseInv'
    BY <1>1 DEF start_attempt, historyVars, RetryTypeOK, CountInv, CauseInv, SafeToResend,
       Preparing, idempotent
  <2> QED
    BY <2>1, <2>2, <2>3, <2>4
<1>2. CASE write_body
  <2>1. RetryTypeOK'
    BY <1>2 DEF write_body, historyVars, RetryTypeOK, CountInv
  <2>2. CountInv'
    BY <1>2 DEF write_body, historyVars, RetryTypeOK, CountInv
  <2>3. FreshInv'
    BY <1>2 DEF write_body, historyVars, RetryTypeOK, FreshInv
  <2>4. CauseInv'
    BY <1>2 DEF write_body, historyVars, RetryTypeOK, CountInv, CauseInv, SafeToResend,
       Preparing, idempotent
  <2> QED
    BY <2>1, <2>2, <2>3, <2>4
<1>3. ASSUME NEW answer \in Answers, NEW body_result \in BodyErrors \cup {Success},
             finish_attempt(answer, body_result)
      PROVE  RetryInv'
  <2> DEFINE outcome == AttemptResult(answer, body_result)
  <2>a. /\ outcome \in Errors \cup {Success}
        /\ outcome # Success /\ Retried(outcome) =>
              /\ idempotent \/ ~MayBeApplied(answer)
              /\ config.server_qos = "Propagate429And503ToCaller" /\ outcome.origin = "inner" =>
                    outcome.cause \in {"RawClient", "Remote 500"}
    BY <1>3, OutcomeFacts DEF finish_attempt
  <2>b. /\ phase = "sending" /\ phase' \in {"failed", "done"}
        /\ sent' = sent + 1 /\ attempt' = attempt
        /\ UNCHANGED <<config, needs_reset, body, backoff>>
        /\ last' = outcome
        /\ applied' = (applied \/ MayBeApplied(answer))
        /\ failure' = failure \/ (failure' = outcome /\ outcome # Success)
        /\ result' \in {result, outcome}
        /\ phase' = "failed" => failure' = outcome /\ outcome # Success /\ Retried(outcome)
    BY <1>3 DEF finish_attempt
  <2> HIDE DEF outcome
  <2>1. RetryTypeOK'
    <3>1. sent' \in Nat /\ attempt' \in 0 .. MaxNumRetries + 1 /\ applied' \in BOOLEAN
      BY <2>b DEF RetryTypeOK
    <3>2. failure' \in Errors \cup {None}
      BY <2>a, <2>b DEF RetryTypeOK
    <3>3. result' \in Errors \cup {Success, None} /\ last' \in Errors \cup {Success, None}
      BY <2>a, <2>b DEF RetryTypeOK
    <3> QED
      BY <2>b, <3>1, <3>2, <3>3 DEF RetryTypeOK
  <2>2. CountInv'
    BY <2>b DEF RetryTypeOK, CountInv
  <2>3. FreshInv'
    BY <2>b DEF RetryTypeOK, FreshInv
  <2>4. CauseInv'
    BY <2>a, <2>b DEF CauseInv, SafeToResend, Preparing, idempotent
  <2> QED
    BY <2>1, <2>2, <2>3, <2>4
<1>4. CASE give_up
  <2>1. RetryTypeOK'
    BY <1>4 DEF give_up, historyVars, Exhausted, RetryTypeOK, CountInv
  <2>2. CountInv'
    BY <1>4 DEF give_up, historyVars, Exhausted, RetryTypeOK, CountInv
  <2>3. FreshInv'
    BY <1>4 DEF give_up, historyVars, Exhausted, RetryTypeOK, FreshInv
  <2>4. CauseInv'
    BY <1>4 DEF give_up, historyVars, Exhausted, RetryTypeOK, CountInv, CauseInv, SafeToResend,
       Preparing, idempotent
  <2> QED
    BY <2>1, <2>2, <2>3, <2>4
<1>5. CASE retry
  <2>1. RetryTypeOK'
    BY <1>5 DEF retry, historyVars, Exhausted, RetryTypeOK, CountInv
  <2>2. CountInv'
    BY <1>5 DEF retry, historyVars, Exhausted, RetryTypeOK, CountInv
  <2>3. FreshInv'
    BY <1>5 DEF retry, historyVars, Exhausted, RetryTypeOK, FreshInv
  <2>4. CauseInv'
    BY <1>5 DEF retry, historyVars, Exhausted, RetryTypeOK, CountInv, CauseInv, SafeToResend,
       Preparing, idempotent
  <2> QED
    BY <2>1, <2>2, <2>3, <2>4
<1>6. ASSUME NEW ok \in BOOLEAN, reset(ok) PROVE RetryInv'
  <2>a. /\ phase = "reset" /\ phase' \in {"sleep", "done"}
        /\ UNCHANGED <<config, attempt, needs_reset, failure, sent, last, applied>>
        /\ body' \in {body, "fresh"}
        /\ phase' = "sleep" => body' = "fresh"
        /\ result' \in {result, failure} /\ backoff' \in {backoff, ChosenBackoff}
    BY <1>6 DEF reset, historyVars
  <2>1. RetryTypeOK'
    <3>1. ChosenBackoff \in Backoffs
      BY <2>a, ChosenBackoffType DEF CountInv
    <3> QED
      BY <2>a, <3>1 DEF RetryTypeOK, Backoffs
  <2>2. CountInv'
    BY <2>a DEF RetryTypeOK, CountInv
  <2>3. FreshInv'
    BY <2>a DEF RetryTypeOK, FreshInv
  <2>4. CauseInv'
    BY <2>a DEF CauseInv, SafeToResend, Preparing, idempotent
  <2> QED
    BY <2>1, <2>2, <2>3, <2>4
<1>7. CASE no_reset
  <2>1. RetryTypeOK'
    <3>1. ChosenBackoff \in Backoffs
      BY <1>7, ChosenBackoffType DEF CountInv, no_reset
    <3> QED
      BY <1>7, <3>1 DEF no_reset, historyVars, RetryTypeOK, Backoffs
  <2>2. CountInv'
    BY <1>7 DEF no_reset, historyVars, RetryTypeOK, CountInv
  <2>3. FreshInv'
    BY <1>7 DEF no_reset, historyVars, MustReset, RetryTypeOK, FreshInv
  <2>4. CauseInv'
    BY <1>7 DEF no_reset, historyVars, CauseInv, SafeToResend, Preparing, idempotent
  <2> QED
    BY <2>1, <2>2, <2>3, <2>4
<1>8. CASE wake_up
  <2>1. RetryTypeOK'
    BY <1>8 DEF wake_up, historyVars, RetryTypeOK, CountInv
  <2>2. CountInv'
    BY <1>8 DEF wake_up, historyVars, RetryTypeOK, CountInv
  <2>3. FreshInv'
    BY <1>8 DEF wake_up, historyVars, RetryTypeOK, FreshInv
  <2>4. CauseInv'
    BY <1>8 DEF wake_up, historyVars, RetryTypeOK, CountInv, CauseInv, SafeToResend,
       Preparing, idempotent
  <2> QED
    BY <2>1, <2>2, <2>3, <2>4
<1>9. CASE UNCHANGED retryVars
  <2>1. RetryTypeOK'
    BY <1>9 DEF retryVars, historyVars, RetryTypeOK, CountInv
  <2>2. CountInv'
    BY <1>9 DEF retryVars, historyVars, RetryTypeOK, CountInv
  <2>3. FreshInv'
    BY <1>9 DEF retryVars, historyVars, RetryTypeOK, FreshInv
  <2>4. CauseInv'
    BY <1>9 DEF retryVars, historyVars, RetryTypeOK, CountInv, CauseInv, SafeToResend,
       Preparing, idempotent
  <2> QED
    BY <2>1, <2>2, <2>3, <2>4
<1> QED
  BY <1>1, <1>2, <1>3, <1>4, <1>5, <1>6, <1>7, <1>8, <1>9 DEF RetryNext

-----------------------------------------------------------------------------
(* The inductive invariant of the retry loop. *)
THEOREM RetryInvariance == RetrySpec => []RetryInv
<1> QED
  BY InitRetry, StepRetry, PTL DEF RetrySpec

(* BodyIsFresh: no attempt is sent with a body that an earlier attempt     *)
(* began to read, whatever came in between.                                *)
THEOREM FreshBodies == RetrySpec => []BodyIsFresh
<1>1. RetryInv => BodyIsFresh
  BY DEF RetryInv, FreshInv, BodyIsFresh
<1> QED
  BY <1>1, RetryInvariance, PTL

(* AttemptsBounded: at most 1 + max_num_retries attempts, for any limit. *)
THEOREM BoundedAttempts == RetrySpec => []AttemptsBounded
<1>1. RetryInv => AttemptsBounded
  BY RetryAssumption DEF RetryInv, CountInv, RetryTypeOK, AttemptsBounded
<1> QED
  BY <1>1, RetryInvariance, PTL

(* ResentOnlyIfSafe: whatever the server answered and whatever the body    *)
(* failed with, no attempt that may have been applied is followed by       *)
(* another one unless the request is idempotent, and nothing that is the   *)
(* caller's to handle is retried.                                          *)
THEOREM SafeResends == RetrySpec => ResentOnlyIfSafe
<1> DEFINE Safe == phase = "start" /\ phase' = "sending" /\ sent > 0 =>
                     /\ idempotent \/ ~applied
                     /\ last # Success
                     /\ config.server_qos = "Propagate429And503ToCaller" /\ last.origin = "inner" =>
                           last.cause \in {"RawClient", "Remote 500"}
<1>1. RetryInv => [Safe]_retryVars
  BY DEF RetryInv, CauseInv, SafeToResend
<1> QED
  BY <1>1, RetryInvariance, PTL DEF RetrySpec, ResentOnlyIfSafe

(* While the scale fits its type, a default backoff has the scale of an    *)
(* earlier attempt than any that is still to come.                         *)
ScaleInv ==
    backoff # << >> /\ ~backoff.retry_after =>
        backoff.exponent < attempt /\ (phase = "reset" => backoff.exponent < attempt - 1)

(* BackoffGrows, for every limit of retries up to the width of the scale:  *)
(* beyond it the shift is masked and the backoff starts over.              *)
THEOREM GrowingBackoff == MaxNumRetries <= ShiftBits => (RetrySpec => BackoffGrows)
<1> SUFFICES ASSUME MaxNumRetries <= ShiftBits PROVE RetrySpec => BackoffGrows
  OBVIOUS
<1> DEFINE Grows == phase = "reset" /\ phase' = "sleep" /\ backoff # << >>
                      /\ ~backoff.retry_after /\ ~backoff'.retry_after =>
                      backoff'.exponent > backoff.exponent
<1>1. RetryInit => ScaleInv
  BY DEF RetryInit, ScaleInv
<1>2. ASSUME RetryInv, phase = "reset"
      PROVE  /\ attempt \in 1 .. MaxNumRetries
             /\ ChosenBackoff.retry_after \/ ChosenBackoff.exponent = attempt - 1
  <2>1. attempt \in 1 .. MaxNumRetries
    BY <1>2 DEF RetryInv, CountInv
  <2>2. (attempt - 1) % ShiftBits = attempt - 1
    BY <2>1, RetryAssumption
  <2> QED
    BY <2>1, <2>2 DEF ChosenBackoff
<1>3. ASSUME RetryInv, ScaleInv, [RetryNext]_retryVars PROVE ScaleInv' /\ [Grows]_retryVars
  <2>1. attempt \in Nat /\ (backoff # << >> => backoff.exponent \in Nat)
    BY <1>3, RetryAssumption DEF RetryInv, RetryTypeOK
  <2>2. CASE /\ UNCHANGED backoff
             /\ phase' # "reset" \/ UNCHANGED <<phase, attempt>>
             /\ phase # "reset" \/ phase' # "sleep"
             /\ attempt' \in {attempt, attempt + 1}
    BY <1>3, <2>1, <2>2 DEF ScaleInv, retryVars
  <2>3. CASE retry
    BY <1>3, <2>1, <2>3 DEF ScaleInv, retry
  <2>4. CASE /\ phase = "reset" /\ phase' = "sleep"
             /\ attempt' = attempt /\ backoff' = ChosenBackoff
    BY <1>2, <1>3, <2>1, <2>4 DEF ScaleInv
  <2> QED
    BY <1>3, <2>2, <2>3, <2>4
    DEF RetryNext, start_attempt, write_body, finish_attempt, give_up, reset, no_reset,
       wake_up, retryVars
<1> QED
  BY <1>1, <1>3, RetryInvariance, PTL DEF RetrySpec, BackoffGrows
=============================================================================

-------------------------- MODULE BlockingBodyProofs --------------------------
(***************************************************************************)
(* Proofs about the blocking client's thread and task.                     *)
(***************************************************************************)
EXTENDS BlockingBody, DataLemmas

(* At most one ShimRequest is queued: that of the attempt, or a reset. A   *)
(* write that is yet to be served finds the thread waiting for it, and the *)
(* body untouched.                                                         *)
QueueInv ==
    /\ requests \in {<<>>, <<0>>, <<attempt>>}
    /\ task \in {"idle", "returning"} => requests = <<>>
    /\ task = "write_body" => attempt > 0
    /\ task = "write_body" /\ requests = <<>> => serving = attempt
    /\ task = "write_body" /\ requests # <<>> =>
          /\ requests = <<attempt>> /\ serving # attempt
          /\ thread = "next" /\ position = 0 /\ forwarded = <<>>
    /\ task = "reset" => requests \in {<<>>, <<0>>}
    /\ StreamerGone => requests = <<>>
    /\ serving <= attempt

(* The body counts as touched from the start of a write to the end of a    *)
(* reset; a reset that succeeded leaves the thread waiting and the body    *)
(* untouched.                                                              *)
ResetInv ==
    /\ needs_reset => streaming
    /\ task \in {"write_body", "reset"} => needs_reset
    /\ streaming /\ ~needs_reset /\ task = "idle" => thread = "next" /\ position = 0
    /\ task = "reset" /\ answer # "none" => requests = <<>>
    /\ task = "reset" /\ answer = "true" => thread = "next" /\ position = 0
    /\ answer # "none" => task \in {"reset", "ended"}

(* While the task receives what the thread sends, nothing of what user     *)
(* code read is lost, repeated or reordered, and Done is the last part.    *)
FlowInv ==
    /\ thread = "write_bytes" => buf = <<>>
    /\ thread = "finish" => buf = <<>> /\ position = MaxChunks
    /\ Receiving => forwarded \o Contents(parts) \o buf = Upto(position)
    /\ Receiving => \A i \in DOMAIN parts : parts[i].kind = "done" =>
          /\ i = Len(parts) /\ parts[i].chunks = <<>>
          /\ buf = <<>> /\ position = MaxChunks
          /\ thread \notin {"write_body", "write_bytes", "finish"}

SentInv ==
    /\ InSequence
    /\ OkIsWhole
    /\ task = "write_body" => ~whole

BlockingInv == TypeOK /\ QueueInv /\ ResetInv /\ FlowInv /\ SentInv

-----------------------------------------------------------------------------
(* Chunks on their way *)

Chunks == Seq(1 .. MaxChunks)

(* Every part carries chunks of the body. *)
LEMMA PartsCarryChunks == \A p \in Parts : p.chunks \in Seq(1 .. MaxChunks)
  BY DEF Parts

(* So does the channel of parts. *)
LEMMA OnTheWay ==
    ASSUME NEW c \in Seq(Parts)
    PROVE  Contents(c) \in Chunks
  BY PartsCarryChunks, ContentsType, Zenon DEF Chunks

(* A part sent comes after those in the channel. *)
LEMMA OnTheWayAppend ==
    ASSUME NEW c \in Seq(Parts), NEW p \in Parts
    PROVE  Contents(Append(c, p)) = Contents(c) \o p.chunks
  BY PartsCarryChunks, ContentsAppend, Zenon

(* A part received is the first of the channel. *)
LEMMA OnTheWayHead ==
    ASSUME NEW c \in Seq(Parts), c # <<>>
    PROVE  /\ Tail(c) \in Seq(Parts) /\ Head(c) \in Parts
           /\ Contents(c) = Head(c).chunks \o Contents(Tail(c))
  BY PartsCarryChunks, ContentsHead, Zenon

(* The first n chunks of the body, and the one after them. *)
LEMMA UptoFacts ==
    ASSUME NEW n \in Nat
    PROVE  /\ Upto(n) \in Seq(1 .. n) /\ Len(Upto(n)) = n
           /\ Append(Upto(n), n + 1) = Upto(n + 1)
  BY DEF Upto

(* What has been forwarded of a body is a beginning of it. *)
LEMMA ForwardedIsPrefix ==
    ASSUME NEW r \in Chunks, NEW b \in Chunks, NEW n \in 0 .. MaxChunks, r \o b = Upto(n)
    PROVE  IsPrefix(r, Upto(MaxChunks))
<1> USE BlockingAssumption
<1>0. Len(r) \in Nat /\ Len(b) \in Nat /\ n \in Nat /\ n <= MaxChunks
  BY DEF Chunks
<1>1. Len(r) + Len(b) = n
  <2>1. Len(r \o b) = Len(r) + Len(b)
    BY ConcatProperties DEF Chunks
  <2> QED
    BY <2>1, UptoFacts, <1>0
<1>2. \A i \in 1 .. Len(r) : r[i] = i
  <2> TAKE i \in 1 .. Len(r)
  <2>1. (r \o b)[i] = r[i]
    BY ConcatProperties DEF Chunks
  <2>2. Upto(n)[i] = i
    BY <1>0, <1>1 DEF Upto
  <2> QED
    BY <2>1, <2>2
<1>3. r = SubSeq(Upto(MaxChunks), 1, Len(r))
  <2>1. Len(r) <= MaxChunks
    BY <1>0, <1>1
  <2> QED
    BY <1>0, <1>2, <2>1 DEF Upto, Chunks
<1>4. SubSeq(r, 1, Len(r)) = r
  BY DEF Chunks
<1>5. Len(r) <= Len(Upto(MaxChunks))
  BY <1>0, <1>1, UptoFacts
<1> QED
  BY <1>3, <1>4, <1>5, Zenon DEF IsPrefix

(* What is flushed goes to the end of the channel. *)
LEMMA FlushingChunks ==
    ASSUME NEW r \in Chunks, NEW a \in Chunks, NEW b \in Chunks
    PROVE  r \o (a \o b) \o <<>> = r \o a \o b
<1> DEFINE A == 1 .. MaxChunks
<1>1. r \in Seq(A) /\ a \in Seq(A) /\ b \in Seq(A)
  BY DEF Chunks
<1> HIDE DEF A
<1> QED
  BY <1>1

(* What is forwarded comes from the front of the channel. *)
LEMMA ReadingChunks ==
    ASSUME NEW r \in Chunks, NEW h \in Chunks, NEW t \in Chunks
    PROVE  r \o (h \o t) = r \o h \o t
  BY ConcatAssociative DEF Chunks

(* User code writes the next chunk of the body. *)
LEMMA WritingChunk ==
    ASSUME NEW r \in Chunks, NEW a \in Chunks, NEW b \in Chunks, NEW n \in 0 .. MaxChunks - 1,
           r \o a \o b = Upto(n)
    PROVE  /\ n + 1 \in 1 .. MaxChunks /\ Append(b, n + 1) \in Chunks
           /\ r \o a \o Append(b, n + 1) = Upto(n + 1)
<1>0. n \in Nat /\ n + 1 \in 1 .. MaxChunks
  BY BlockingAssumption
<1>1. PICK x \in 1 .. MaxChunks : x = n + 1
  BY <1>0
<1>2. r \o a \o Append(b, x) = Append(r \o a \o b, x) /\ Append(b, x) \in Chunks
  <2> DEFINE A == 1 .. MaxChunks
             c == r \o a
  <2>1. r \in Seq(A) /\ a \in Seq(A) /\ b \in Seq(A) /\ x \in A
    BY DEF Chunks
  <2> HIDE DEF A
  <2>2. c \in Seq(A) /\ Append(b, x) \in Seq(A)
    BY <2>1, ConcatProperties
  <2> HIDE DEF c
  <2>3. c \o Append(b, x) = Append(c \o b, x)
    BY <2>1, <2>2, SMTT(30)
  <2> QED
    BY <2>2, <2>3, Zenon DEF A, c, Chunks
<1> QED
  BY <1>0, <1>1, <1>2, UptoFacts

-----------------------------------------------------------------------------
(* Initial states *)

(* When send begins, nothing has been asked for or read. *)
LEMMA InitBlocking == Init => BlockingInv
<1> USE BlockingAssumption
<1>h. SUFFICES ASSUME Init PROVE BlockingInv
  OBVIOUS
<1>1. TypeOK
  <2>1. /\ requests = <<>> /\ parts = <<>> /\ buf = <<>> /\ forwarded = <<>>
        /\ position = 0 /\ serving = 0 /\ attempt = 0
        /\ answer = "none" /\ result = "none" /\ task = "idle"
        /\ thread \in {"next", "receive"}
    BY <1>h DEF Init
  <2>2. streaming \in BOOLEAN /\ needs_reset \in BOOLEAN /\ whole \in BOOLEAN
    BY <1>h, Zenon DEF Init
  <2>3. \A S : <<>> \in Seq(S) /\ Len(<<>>) = 0
    BY EmptySeq
  <2> QED
    BY <2>1, <2>2, <2>3 DEF TypeOK, Threads, Tasks
<1>2. QueueInv
  BY <1>h DEF Init, QueueInv, StreamerGone
<1>3. ResetInv
  BY <1>h DEF Init, ResetInv
<1>4. FlowInv
  BY <1>h DEF Init, FlowInv, Receiving
<1>5. SentInv
  <2>1. forwarded = <<>> /\ ~whole
    BY <1>h DEF Init
  <2>2. IsPrefix(<<>>, Upto(MaxChunks))
    <3>1. <<>> \o <<>> = Upto(0) /\ <<>> \in Chunks
      BY DEF Upto, Chunks
    <3>2. PICK n \in 0 .. MaxChunks : n = 0
      OBVIOUS
    <3> QED
      BY <3>1, <3>2, ForwardedIsPrefix
  <2> QED
    BY <2>1, <2>2 DEF SentInv, InSequence, OkIsWhole
<1> QED
  BY <1>1, <1>2, <1>3, <1>4, <1>5 DEF BlockingInv

-----------------------------------------------------------------------------
(* The thread serves a write *)

Writing == thread \in {"write_body", "write_bytes", "finish", "done"}

(* While it does, it takes no request; the body counts as touched. *)
LEMMA ServingKeeps ==
    ASSUME QueueInv, ResetInv, Writing,
           thread' \in {"write_body", "write_bytes", "finish", "done", "next"},
           UNCHANGED <<streaming, taskVars, requests, answer, serving>>
    PROVE  QueueInv' /\ ResetInv'
<1>1. QueueInv'
  BY DEF QueueInv, StreamerGone, Writing, taskVars
<1>2. ResetInv'
  BY DEF ResetInv, Writing, taskVars
<1> QED
  BY <1>1, <1>2

(* The flow of chunks: what FlowInv says of the parts. *)
Flow ==
    /\ Receiving => forwarded \o Contents(parts) \o buf = Upto(position)
    /\ Receiving => \A i \in DOMAIN parts : parts[i].kind = "done" =>
          /\ i = Len(parts) /\ parts[i].chunks = <<>>
          /\ buf = <<>> /\ position = MaxChunks
          /\ thread \notin {"write_body", "write_bytes", "finish"}

(* A part is sent, if anybody receives it. *)
LEMMA PutKeeps ==
    ASSUME NEW part \in Parts
    PROVE  /\ parts \in Seq(Parts) /\ Len(parts) <= 2
           /\ Flow /\ thread \in {"write_body", "write_bytes", "finish"}
           /\ Unblocked /\ Put(part)
           /\ UNCHANGED <<task, attempt, serving, forwarded>>
           /\ Receiving => forwarded \o (Contents(parts) \o part.chunks) \o buf' = Upto(position')
           /\ part.kind = "done" => /\ part.chunks = <<>> /\ buf' = <<>> /\ position' = MaxChunks
                                    /\ thread' = "done"
           => parts' \in Seq(Parts) /\ Len(parts') <= 2 /\ Flow'
<1>h. SUFFICES ASSUME parts \in Seq(Parts), Len(parts) <= 2,
                      Flow, thread \in {"write_body", "write_bytes", "finish"},
                      Unblocked, Put(part), UNCHANGED <<task, attempt, serving, forwarded>>,
                      Receiving => forwarded \o (Contents(parts) \o part.chunks) \o buf' = Upto(position'),
                      part.kind = "done" => /\ part.chunks = <<>> /\ buf' = <<>> /\ position' = MaxChunks
                                            /\ thread' = "done"
               PROVE  parts' \in Seq(Parts) /\ Len(parts') <= 2 /\ Flow'
  BY Zenon
<1>0. Receiving' <=> Receiving
  BY <1>h DEF Receiving
<1>1. CASE ~Receiving
  <2>1. parts' = parts
    BY <1>h, <1>1 DEF Put
  <2>2. Flow'
    BY <1>0, <1>1 DEF Flow
  <2> QED
    BY <1>h, <2>1, <2>2
<1>2. CASE Receiving
  <2>1. parts' = Append(parts, part) /\ Len(parts) <= 1
    BY <1>h, <1>2 DEF Put, Unblocked
  <2>2. parts \in Seq(Parts) /\ Len(parts) \in Nat
    BY <1>h
  <2>3. /\ parts' \in Seq(Parts) /\ Len(parts') = Len(parts) + 1
        /\ \A i \in DOMAIN parts' : \/ i \in DOMAIN parts /\ parts'[i] = parts[i]
                                    \/ i = Len(parts') /\ parts'[i] = part
    <3>1. /\ Append(parts, part) \in Seq(Parts) /\ Len(Append(parts, part)) = Len(parts) + 1
          /\ \A i \in DOMAIN Append(parts, part) :
                 \/ i \in DOMAIN parts /\ Append(parts, part)[i] = parts[i]
                 \/ i = Len(parts) + 1 /\ Append(parts, part)[i] = part
      BY <2>2, SentPart
    <3> QED
      BY <2>1, <3>1, Zenon
  <2>4. \A i \in DOMAIN parts : parts[i].kind # "done"
    BY <1>h, <1>2 DEF Flow
  <2>5. Len(parts') <= 2
    BY <2>1, <2>2, <2>3
  <2>6. forwarded' \o Contents(parts') \o buf' = Upto(position')
    <3>1. Contents(parts') = Contents(parts) \o part.chunks
      BY <2>1, <2>2, OnTheWayAppend
    <3> QED
      BY <1>h, <1>2, <3>1
  <2>7. ASSUME NEW i \in DOMAIN parts', parts'[i].kind = "done"
        PROVE  /\ i = Len(parts') /\ parts'[i].chunks = <<>>
               /\ buf' = <<>> /\ position' = MaxChunks
               /\ thread' \notin {"write_body", "write_bytes", "finish"}
    BY <1>h, <2>3, <2>4, <2>7
  <2>8. Flow'
    BY <2>6, <2>7 DEF Flow
  <2> QED
    BY <2>3, <2>5, <2>8
<1> QED
  BY <1>1, <1>2

(* A step of the thread within write_body keeps the invariant, if what it  *)
(* buffers and sends is in order (Flow).                                   *)
LEMMA WritingStep ==
    ASSUME BlockingInv, Writing,
           thread' \in {"write_body", "write_bytes", "finish", "done", "next"},
           UNCHANGED <<streaming, taskVars, requests, answer, serving>>,
           buf' \in Chunks, position' \in 0 .. MaxChunks,
           parts' \in Seq(Parts), Len(parts') <= 2, Flow',
           thread' = "write_bytes" => buf' = <<>>,
           thread' = "finish" => buf' = <<>> /\ position' = MaxChunks
    PROVE  BlockingInv'
<1>1. TypeOK'
  <2>1. streaming' \in BOOLEAN /\ needs_reset' \in BOOLEAN /\ whole' \in BOOLEAN
    BY Zenon DEF BlockingInv, TypeOK, taskVars
  <2> QED
    BY <2>1 DEF BlockingInv, TypeOK, taskVars, Threads, Chunks
<1>2. QueueInv' /\ ResetInv'
  BY ServingKeeps DEF BlockingInv
<1>3. FlowInv'
  BY DEF FlowInv, Flow
<1>4. SentInv'
  BY DEF BlockingInv, SentInv, InSequence, OkIsWhole, Upto, taskVars
<1> QED
  BY <1>1, <1>2, <1>3, <1>4 DEF BlockingInv

(* What is known when the thread writes. *)
LEMMA WritingFacts ==
    ASSUME BlockingInv
    PROVE  /\ parts \in Seq(Parts) /\ Len(parts) <= 2 /\ Contents(parts) \in Chunks
           /\ buf \in Chunks /\ forwarded \in Chunks /\ position \in 0 .. MaxChunks
           /\ Flow
<1>1. /\ parts \in Seq(Parts) /\ Len(parts) <= 2
      /\ buf \in Chunks /\ forwarded \in Chunks /\ position \in 0 .. MaxChunks
  BY DEF BlockingInv, TypeOK, Chunks
<1>2. Flow
  BY DEF BlockingInv, FlowInv, Flow
<1> QED
  BY <1>1, <1>2, OnTheWay

(* What a thread's step with Goto leaves alone. *)
LEMMA GotoFacts ==
    ASSUME NEW pc, Goto(pc)
    PROVE  thread' = pc /\ UNCHANGED <<streaming, taskVars>>
  BY DEF Goto

(* Write::write of a small slice. *)
LEMMA WriteKeeps == BlockingInv /\ write => BlockingInv'
<1> USE BlockingAssumption
<1>h. SUFFICES ASSUME BlockingInv, write PROVE BlockingInv'
  OBVIOUS
<1>0. /\ parts \in Seq(Parts) /\ Len(parts) <= 2 /\ Contents(parts) \in Chunks
      /\ buf \in Chunks /\ forwarded \in Chunks /\ position \in 0 .. MaxChunks
      /\ Flow
  BY <1>h, WritingFacts
<1>1. /\ thread = "write_body" /\ thread' = "write_body" /\ UNCHANGED <<streaming, taskVars>>
      /\ position < MaxChunks /\ position' = position + 1 /\ buf' = Append(buf, position + 1)
      /\ UNCHANGED <<requests, answer, parts, serving>>
  BY <1>h DEF write, Running, Takes, Goto, Chunk, channelVars
<1>2. position \in 0 .. MaxChunks - 1 /\ position' \in 0 .. MaxChunks /\ position + 1 \in 1 .. MaxChunks
  BY <1>0, <1>1
<1>3. buf' \in Chunks
  BY <1>0, <1>1, <1>2, AppendProperties DEF Chunks
<1>4. Flow'
  <2>1. (Receiving' <=> Receiving) /\ UNCHANGED <<forwarded, parts>>
    BY <1>1 DEF Receiving, taskVars
  <2>2. ASSUME Receiving PROVE forwarded' \o Contents(parts') \o buf' = Upto(position')
    <3>1. forwarded \o Contents(parts) \o buf = Upto(position)
      BY <1>0, <2>2 DEF Flow
    <3>2. forwarded \o Contents(parts) \o Append(buf, position + 1) = Upto(position + 1)
      BY <1>0, <1>2, <3>1, WritingChunk, Zenon
    <3> QED
      BY <1>1, <2>1, <3>2
  <2>3. ASSUME Receiving PROVE \A i \in DOMAIN parts' : parts'[i].kind # "done"
    BY <1>0, <1>1, <2>1, <2>3 DEF Flow
  <2> QED
    BY <2>1, <2>2, <2>3 DEF Flow
<1> QED
  BY <1>h, <1>0, <1>1, <1>2, <1>3, <1>4, WritingStep DEF Writing

(* Data is a part, and does not end the body. *)
LEMMA DataIsPart ==
    ASSUME NEW chunks \in Chunks
    PROVE  /\ Data(chunks) \in Parts /\ Data(chunks).chunks = chunks
           /\ Data(chunks).kind # "done"
  BY DEF Data, Parts, Chunks

(* BodyWriter::flush sends what is buffered. *)
LEMMA FlushFlow ==
    BlockingInv /\ thread = "write_body" /\ Unblocked
    /\ buf' = <<>> /\ (IF buf = <<>> THEN UNCHANGED parts ELSE Put(Data(buf)))
    /\ thread' \in {"write_body", "write_bytes", "finish"}
    /\ UNCHANGED <<taskVars, serving, position>>
    => parts' \in Seq(Parts) /\ Len(parts') <= 2 /\ Flow'
<1>h. SUFFICES ASSUME BlockingInv, thread = "write_body", Unblocked,
                      buf' = <<>>, IF buf = <<>> THEN UNCHANGED parts ELSE Put(Data(buf)),
                      thread' \in {"write_body", "write_bytes", "finish"},
                      UNCHANGED <<taskVars, serving, position>>
               PROVE  parts' \in Seq(Parts) /\ Len(parts') <= 2 /\ Flow'
  OBVIOUS
<1>0. /\ parts \in Seq(Parts) /\ Len(parts) <= 2 /\ Contents(parts) \in Chunks
      /\ buf \in Chunks /\ forwarded \in Chunks /\ position \in 0 .. MaxChunks
      /\ Flow
  BY <1>h, WritingFacts
<1>1. UNCHANGED <<task, attempt, serving, forwarded, position>> /\ (Receiving' <=> Receiving)
  BY <1>h DEF taskVars, Receiving
<1>2. CASE buf = <<>>
  <2>1. UNCHANGED <<parts, buf>>
    BY <1>h, <1>2
  <2>2. Receiving => \A i \in DOMAIN parts : parts[i].kind # "done"
    BY <1>h, <1>0 DEF Flow
  <2> QED
    BY <1>0, <1>1, <2>1, <2>2 DEF Flow, Upto
<1>3. CASE buf # <<>>
  <2>1. Data(buf) \in Parts /\ Data(buf).chunks = buf /\ Data(buf).kind # "done"
    BY <1>0, DataIsPart
  <2>2. ASSUME Receiving
        PROVE  forwarded \o (Contents(parts) \o Data(buf).chunks) \o buf' = Upto(position')
    <3>1. forwarded \o Contents(parts) \o buf = Upto(position)
      BY <1>0, <2>2 DEF Flow
    <3>2. forwarded \o (Contents(parts) \o buf) \o <<>> = forwarded \o Contents(parts) \o buf
      BY <1>0, FlushingChunks, Zenon
    <3> QED
      BY <1>h, <1>1, <2>1, <3>1, <3>2
  <2>3. Put(Data(buf)) /\ thread \in {"write_body", "write_bytes", "finish"}
    BY <1>h, <1>3
  <2> QED
    BY <1>h, <1>0, <1>1, <2>1, <2>2, <2>3, PutKeeps, Zenon
<1> QED
  BY <1>2, <1>3

(* BodyWriter::flush, write_bytes and the end of the write. *)
LEMMA FlushKeeps == BlockingInv /\ (flush \/ write_bytes \/ written) => BlockingInv'
<1> USE BlockingAssumption
<1>h. SUFFICES ASSUME BlockingInv, flush \/ write_bytes \/ written PROVE BlockingInv'
  OBVIOUS
<1>1. /\ thread = "write_body" /\ Unblocked
      /\ buf' = <<>> /\ (IF buf = <<>> THEN UNCHANGED parts ELSE Put(Data(buf)))
      /\ thread' \in {"write_body", "write_bytes", "finish"}
      /\ thread' = "finish" => position = MaxChunks
      /\ UNCHANGED <<streaming, taskVars, requests, answer, serving, position>>
  BY <1>h DEF flush, write_bytes, written, Running, Goto
<1>2. parts' \in Seq(Parts) /\ Len(parts') <= 2 /\ Flow'
  BY <1>h, <1>1, FlushFlow
<1>3. buf' \in Chunks /\ position' \in 0 .. MaxChunks
  BY <1>h, <1>1, WritingFacts, EmptySeq DEF Chunks
<1> QED
  BY <1>h, <1>1, <1>2, <1>3, WritingStep DEF Writing

(* Write::write of a large slice, and the bytes of write_bytes. *)
LEMMA WriteLargeKeeps == BlockingInv /\ (write_large \/ send_bytes) => BlockingInv'
<1> USE BlockingAssumption
<1>h. SUFFICES ASSUME BlockingInv, write_large \/ send_bytes PROVE BlockingInv'
  OBVIOUS
<1>0. /\ parts \in Seq(Parts) /\ Len(parts) <= 2 /\ Contents(parts) \in Chunks
      /\ buf \in Chunks /\ forwarded \in Chunks /\ position \in 0 .. MaxChunks
      /\ Flow
  BY <1>h, WritingFacts
<1> DEFINE x == Append(buf, position + 1)
<1>1. /\ thread \in {"write_body", "write_bytes"} /\ Unblocked /\ thread' = "write_body"
      /\ position < MaxChunks /\ position' = position + 1
      /\ buf' = <<>> /\ Put(Data(x))
      /\ UNCHANGED <<streaming, taskVars, requests, answer, serving>>
  <2>1. CASE write_large
    BY <2>1 DEF write_large, Running, Takes, Goto, Chunk
  <2>2. CASE send_bytes
    <3>1. buf = <<>>
      BY <1>h, <2>2 DEF send_bytes, Running, BlockingInv, FlowInv
    <3>2. x = <<position + 1>>
      BY <3>1
    <3> HIDE DEF x
    <3> QED
      BY <2>2, <3>1, <3>2 DEF send_bytes, Running, Takes, Goto, Chunk
  <2> QED
    BY <1>h, <2>1, <2>2
<1>2. position \in 0 .. MaxChunks - 1 /\ position' \in 0 .. MaxChunks /\ position + 1 \in 1 .. MaxChunks
  BY <1>0, <1>1
<1>3. x \in Chunks
  BY <1>0, <1>2, AppendProperties DEF Chunks
<1>4. ASSUME Receiving
      PROVE  forwarded \o (Contents(parts) \o x) \o <<>> = Upto(position + 1)
  <2>1. forwarded \o Contents(parts) \o buf = Upto(position)
    BY <1>0, <1>4 DEF Flow
  <2>2. forwarded \o Contents(parts) \o x = Upto(position + 1)
    BY <1>0, <1>2, <2>1, WritingChunk, Zenon
  <2> HIDE DEF x
  <2>3. forwarded \o (Contents(parts) \o x) \o <<>> = forwarded \o Contents(parts) \o x
    BY <1>0, <1>3, FlushingChunks, Zenon
  <2> QED
    BY <2>2, <2>3
<1> HIDE DEF x
<1>5. parts' \in Seq(Parts) /\ Len(parts') <= 2 /\ Flow'
  <2>1. Data(x) \in Parts /\ Data(x).chunks = x /\ Data(x).kind # "done"
    BY <1>3, DataIsPart
  <2>2. Receiving => forwarded \o (Contents(parts) \o Data(x).chunks) \o buf' = Upto(position')
    BY <1>1, <1>4, <2>1
  <2>3. thread \in {"write_body", "write_bytes", "finish"} /\ UNCHANGED <<task, attempt, serving, forwarded>>
    BY <1>1 DEF taskVars
  <2> QED
    BY <1>0, <1>1, <2>1, <2>2, <2>3, PutKeeps, Zenon
<1>6. buf' \in Chunks
  BY <1>1, EmptySeq DEF Chunks
<1> QED
  BY <1>h, <1>1, <1>2, <1>5, <1>6, WritingStep DEF Writing

(* The last part of a write: Done or Error. *)
LEMMA FinishKeeps == BlockingInv /\ (finish \/ write_fails) => BlockingInv'
<1> USE BlockingAssumption
<1>h. SUFFICES ASSUME BlockingInv, finish \/ write_fails PROVE BlockingInv'
  OBVIOUS
<1>0. /\ parts \in Seq(Parts) /\ Len(parts) <= 2 /\ Contents(parts) \in Chunks
      /\ buf \in Chunks /\ forwarded \in Chunks /\ position \in 0 .. MaxChunks
      /\ Flow
  BY <1>h, WritingFacts
<1>1. PICK last \in Parts :
        /\ last.chunks = <<>> /\ Put(last)
        /\ last.kind = "done" => buf = <<>> /\ position = MaxChunks
  <2>1. CASE finish
    <3>1. Done \in Parts /\ Done.chunks = <<>>
      BY DEF Done, Parts
    <3>2. buf = <<>> /\ position = MaxChunks /\ Put(Done)
      BY <1>h, <2>1 DEF finish, Running, BlockingInv, FlowInv
    <3> QED
      BY <3>1, <3>2, Zenon
  <2>2. CASE write_fails
    <3>1. Error \in Parts /\ Error.chunks = <<>> /\ Error.kind # "done"
      BY DEF Error, Parts
    <3>2. Put(Error)
      BY <2>2 DEF write_fails
    <3> QED
      BY <3>1, <3>2, Zenon
  <2> QED
    BY <1>h, <2>1, <2>2
<1>2. /\ thread \in {"write_body", "write_bytes", "finish"} /\ Unblocked /\ thread' = "done"
      /\ UNCHANGED <<streaming, taskVars, requests, answer, serving, buf, position>>
  BY <1>h DEF finish, write_fails, Running, Goto
<1>3. ASSUME Receiving
      PROVE  forwarded \o (Contents(parts) \o last.chunks) \o buf' = Upto(position')
  <2>1. Contents(parts) \o <<>> = Contents(parts)
    BY <1>0 DEF Chunks
  <2> QED
    BY <1>0, <1>1, <1>2, <1>3, <2>1 DEF Flow, Upto
<1>4. parts' \in Seq(Parts) /\ Len(parts') <= 2 /\ Flow'
  <2>1. UNCHANGED <<task, attempt, serving, forwarded>>
    BY <1>2 DEF taskVars
  <2>2. last.kind = "done" => last.chunks = <<>> /\ buf' = <<>> /\ position' = MaxChunks /\ thread' = "done"
    BY <1>1, <1>2
  <2> QED
    BY <1>0, <1>1, <1>2, <1>3, <2>1, <2>2, PutKeeps, Zenon
<1>5. buf' \in Chunks /\ position' \in 0 .. MaxChunks
  BY <1>0, <1>2
<1> QED
  BY <1>h, <1>2, <1>4, <1>5, WritingStep DEF Writing

(* The thread goes back to wait for the next ShimRequest. *)
LEMMA NextRequestKeeps == BlockingInv /\ next_request => BlockingInv'
<1>h. SUFFICES ASSUME BlockingInv, next_request PROVE BlockingInv'
  OBVIOUS
<1>0. /\ parts \in Seq(Parts) /\ Len(parts) <= 2 /\ Contents(parts) \in Chunks
      /\ buf \in Chunks /\ forwarded \in Chunks /\ position \in 0 .. MaxChunks
      /\ Flow
  BY <1>h, WritingFacts
<1>1. /\ thread = "done" /\ thread' = "next"
      /\ UNCHANGED <<streaming, taskVars, requests, answer, parts, serving, buf, position>>
  BY <1>h DEF next_request, Running, Goto, channelVars
<1>2. Flow'
  BY <1>0, <1>1 DEF Flow, Receiving, Upto, taskVars
<1> QED
  BY <1>h, <1>0, <1>1, <1>2, WritingStep DEF Writing

-----------------------------------------------------------------------------
(* The thread takes a request, or stops to *)

(* A queue of one request, and what its receipt leaves. *)
LEMMA OneRequest == \A r : Head(<<r>>) = r /\ Tail(<<r>>) = <<>>
  OBVIOUS

(* The thread takes up the write of the present attempt. *)
LEMMA ServeWriteKeeps == BlockingInv /\ serve_write => BlockingInv'
<1> USE BlockingAssumption
<1>h. SUFFICES ASSUME BlockingInv, serve_write PROVE BlockingInv'
  OBVIOUS
<1>0. TypeOK /\ QueueInv /\ ResetInv /\ FlowInv /\ SentInv
  BY <1>h DEF BlockingInv
<1>1. /\ thread = "next" /\ thread' = "write_body" /\ requests # <<>> /\ Head(requests) # 0
      /\ requests' = Tail(requests) /\ serving' = Head(requests)
      /\ parts' = <<>> /\ buf' = <<>>
      /\ UNCHANGED <<streaming, answer, position, task, attempt, needs_reset, forwarded, whole, result>>
  BY <1>h DEF serve_write, Running, Goto, taskVars
<1>2. requests = <<attempt>> /\ requests' = <<>> /\ serving' = attempt
  <2>1. requests \in {<<>>, <<0>>, <<attempt>>}
    BY <1>0 DEF QueueInv
  <2> QED
    BY <1>1, <2>1, OneRequest, Zenon
<1>3. task \notin {"idle", "returning", "reset"}
  BY <1>0, <1>1, <1>2 DEF QueueInv
<1>4. TypeOK'
  <2>1. streaming' \in BOOLEAN /\ needs_reset' \in BOOLEAN /\ whole' \in BOOLEAN
    BY <1>0, <1>1, Zenon DEF TypeOK
  <2>2. \A S : <<>> \in Seq(S) /\ Len(<<>>) = 0
    BY EmptySeq
  <2> QED
    BY <1>0, <1>1, <1>2, <2>1, <2>2 DEF TypeOK, Threads
<1>5. QueueInv'
  <2>1. attempt \in Nat /\ serving' <= attempt'
    BY <1>0, <1>1, <1>2 DEF TypeOK
  <2> QED
    BY <1>0, <1>1, <1>2, <1>3, <2>1 DEF QueueInv, StreamerGone
<1>6. ResetInv'
  BY <1>0, <1>1, <1>3 DEF ResetInv
<1>7. FlowInv'
  <2>1. ASSUME Receiving' PROVE forwarded = <<>> /\ position = 0
    BY <1>0, <1>1, <2>1 DEF Receiving, QueueInv
  <2>2. <<>> \o <<>> \o <<>> = Upto(0) /\ DOMAIN <<>> = {}
    BY DEF Upto
  <2> QED
    BY <1>1, <2>1, <2>2, ContentsEmpty DEF FlowInv, Upto
<1>8. SentInv'
  BY <1>0, <1>1 DEF SentInv, InSequence, OkIsWhole, Upto
<1> QED
  BY <1>4, <1>5, <1>6, <1>7, <1>8 DEF BlockingInv

(* A reset leaves the flow of chunks alone: the task that waits for it     *)
(* receives none.                                                          *)
LEMMA ServeResetKeeps == BlockingInv /\ serve_reset => BlockingInv'
<1> USE BlockingAssumption
<1>h. SUFFICES ASSUME BlockingInv, serve_reset PROVE BlockingInv'
  OBVIOUS
<1>0. TypeOK /\ QueueInv /\ ResetInv /\ FlowInv /\ SentInv
  BY <1>h DEF BlockingInv
<1>1. /\ thread = "next" /\ thread' = "next" /\ requests # <<>> /\ Head(requests) = 0
      /\ requests' = Tail(requests)
      /\ \/ answer' = "true" /\ position' = 0
         \/ answer' = "false" /\ UNCHANGED position
      /\ UNCHANGED <<streaming, parts, serving, buf, task, attempt, needs_reset, forwarded, whole, result>>
  BY <1>h DEF serve_reset, Running, Goto, taskVars
<1>2. requests' = <<>> /\ task \in {"reset", "ended"}
  <2>1. requests' = <<>>
    <3>1. requests \in {<<>>, <<0>>, <<attempt>>}
      BY <1>0 DEF QueueInv
    <3> QED
      BY <1>1, <3>1, OneRequest, Zenon
  <2>2. task # "write_body"
    BY <1>0, <1>1 DEF QueueInv, TypeOK
  <2> QED
    BY <1>0, <1>1, <2>1, <2>2 DEF QueueInv, TypeOK, Tasks
<1>3. TypeOK'
  <2>1. streaming' \in BOOLEAN /\ needs_reset' \in BOOLEAN /\ whole' \in BOOLEAN
    BY <1>0, <1>1, Zenon DEF TypeOK
  <2>2. \A S : <<>> \in Seq(S) /\ Len(<<>>) = 0
    BY EmptySeq
  <2>3. answer' \in {"none", "true", "false"}
    BY <1>1
  <2>4. position' \in 0 .. MaxChunks
    BY <1>0, <1>1 DEF TypeOK
  <2> QED
    BY <1>0, <1>1, <1>2, <2>1, <2>2, <2>3, <2>4 DEF TypeOK
<1>4. QueueInv'
  BY <1>0, <1>1, <1>2 DEF QueueInv, StreamerGone
<1>5. ResetInv'
  BY <1>0, <1>1, <1>2 DEF ResetInv
<1>6. FlowInv'
  BY <1>1, <1>2 DEF FlowInv, Receiving
<1>7. SentInv'
  BY <1>0, <1>1 DEF SentInv, InSequence, OkIsWhole, Upto
<1> QED
  BY <1>3, <1>4, <1>5, <1>6, <1>7 DEF BlockingInv

(* The thread ends: a panic, the task gone, or the result. *)
LEMMA LeavingKeeps == BlockingInv /\ (panic \/ end_stream \/ receive_result) => BlockingInv'
<1> USE BlockingAssumption
<1>h. SUFFICES ASSUME BlockingInv, panic \/ end_stream \/ receive_result PROVE BlockingInv'
  OBVIOUS
<1>0. TypeOK /\ QueueInv /\ ResetInv /\ FlowInv /\ SentInv
  BY <1>h DEF BlockingInv
<1>1. /\ thread' \in {"unwound", "receive", "returned"} /\ requests' = <<>>
      /\ UNCHANGED <<streaming, answer, parts, serving, buf, position, task, attempt, needs_reset, forwarded, whole, result>>
  BY <1>h, <1>0 DEF panic, end_stream, receive_result, Goto, taskVars, channelVars, QueueInv, StreamerGone
<1>2. /\ thread = "write_body" \/ (requests # <<>> /\ Head(requests) = 0)
         \/ ShimGone \/ thread = "receive"
  BY <1>h DEF panic, end_stream, receive_result, Running
<1>3. TypeOK'
  <2>1. streaming' \in BOOLEAN /\ needs_reset' \in BOOLEAN /\ whole' \in BOOLEAN
    BY <1>0, <1>1, Zenon DEF TypeOK
  <2>2. \A S : <<>> \in Seq(S) /\ Len(<<>>) = 0
    BY EmptySeq
  <2> QED
    BY <1>0, <1>1, <2>1, <2>2 DEF TypeOK, Threads
<1>4. QueueInv'
  <2>1. ASSUME task = "write_body" PROVE serving = attempt
    <3>1. requests # <<>> => thread = "next" /\ requests = <<attempt>> /\ attempt # 0
      BY <1>0, <2>1 DEF QueueInv, TypeOK
    <3> QED
      BY <1>0, <1>2, <2>1, <3>1 DEF QueueInv, ShimGone
  <2> QED
    BY <1>0, <1>1, <2>1 DEF QueueInv
<1>5. ResetInv'
  <2>1. ~(streaming /\ ~needs_reset /\ task = "idle")
    BY <1>0, <1>2 DEF ResetInv, QueueInv, ShimGone
  <2>2. ~(task = "reset" /\ answer = "true")
    BY <1>0, <1>2 DEF ResetInv, QueueInv, ShimGone
  <2> QED
    BY <1>0, <1>1, <2>1, <2>2 DEF ResetInv
<1>6. FlowInv'
  BY <1>0, <1>1 DEF FlowInv, Receiving, Upto
<1>7. SentInv'
  BY <1>0, <1>1 DEF SentInv, InSequence, OkIsWhole, Upto
<1> QED
  BY <1>3, <1>4, <1>5, <1>6, <1>7 DEF BlockingInv

-----------------------------------------------------------------------------
(* The task *)

(* ResetTracker and BodyWriterShim::write_body: the body is untouched, and *)
(* the thread waits for a request.                                         *)
LEMMA StartWriteKeeps == BlockingInv /\ start_write => BlockingInv'
<1> USE BlockingAssumption
<1>h. SUFFICES ASSUME BlockingInv, start_write PROVE BlockingInv'
  OBVIOUS
<1>0. TypeOK /\ QueueInv /\ ResetInv /\ FlowInv /\ SentInv
  BY <1>h DEF BlockingInv
<1>1. /\ task = "idle" /\ task' = "write_body" /\ streaming /\ ~needs_reset
      /\ attempt < MaxAttempts /\ attempt' = attempt + 1
      /\ requests' = Append(requests, attempt + 1)
      /\ forwarded' = <<>>
      /\ UNCHANGED <<streaming, thread, serving, buf, position, answer, parts, result>>
  BY <1>h DEF start_write, Become, threadVars
<1>2. needs_reset' /\ ~whole'
  BY <1>h, Zenon DEF start_write
<1>3. requests' = <<attempt'>> /\ thread = "next" /\ position = 0
  <2>1. requests = <<>> /\ thread = "next" /\ position = 0
    BY <1>0, <1>1 DEF QueueInv, ResetInv
  <2>2. \A r : Append(<<>>, r) = <<r>>
    OBVIOUS
  <2> QED
    BY <1>1, <2>1, <2>2
<1>4. attempt \in Nat /\ attempt' \in 0 .. MaxAttempts /\ attempt' > 0 /\ serving < attempt'
  BY <1>0, <1>1 DEF TypeOK, QueueInv
<1>5. TypeOK'
  <2>1. streaming' \in BOOLEAN /\ needs_reset' \in BOOLEAN /\ whole' \in BOOLEAN
    <3>1. needs_reset' = TRUE /\ whole' = FALSE
      BY <1>h, Zenon DEF start_write
    <3>2. streaming' = streaming /\ streaming \in BOOLEAN
      BY <1>0, <1>1, Zenon DEF TypeOK
    <3> QED
      BY <3>1, <3>2, Zenon
  <2>2. requests' \in Seq(0 .. MaxAttempts) /\ Len(requests') <= 2 /\ forwarded' \in Seq(1 .. MaxChunks)
    <3>1. \A S : <<>> \in Seq(S)
      BY EmptySeq
    <3>2. <<attempt'>> \in Seq(0 .. MaxAttempts) /\ Len(<<attempt'>>) = 1
      BY <1>4
    <3>3. Len(requests') = 1 /\ requests' \in Seq(0 .. MaxAttempts)
      BY <1>3, <3>2
    <3>4. forwarded' \in Seq(1 .. MaxChunks)
      BY <1>1, <3>1
    <3> QED
      BY <3>3, <3>4
  <2> QED
    BY <1>0, <1>1, <1>4, <2>1, <2>2 DEF TypeOK, Tasks
<1>6. QueueInv'
  <2>1. <<attempt'>> # <<>>
    OBVIOUS
  <2>2. serving # attempt' /\ serving <= attempt'
    BY <1>0, <1>4 DEF TypeOK
  <2> QED
    BY <1>1, <1>3, <1>4, <2>1, <2>2 DEF QueueInv, StreamerGone
<1>7. ResetInv'
  BY <1>0, <1>1, <1>2 DEF ResetInv
<1>8. FlowInv'
  <2>1. ~Receiving'
    BY <1>0, <1>1, <1>4 DEF Receiving, TypeOK
  <2> QED
    BY <1>1, <1>3, <2>1 DEF FlowInv
<1>9. SentInv'
  <2>1. IsPrefix(<<>>, Upto(MaxChunks))
    <3>1. <<>> \o <<>> = Upto(0) /\ <<>> \in Chunks
      BY DEF Upto, Chunks
    <3>2. PICK n \in 0 .. MaxChunks : n = 0
      OBVIOUS
    <3> QED
      BY <3>1, <3>2, ForwardedIsPrefix
  <2> QED
    BY <1>1, <1>2, <2>1 DEF SentInv, InSequence, OkIsWhole, Upto
<1> QED
  BY <1>5, <1>6, <1>7, <1>8, <1>9 DEF BlockingInv

(* The shim forwards a part to the request body, or sees Done. *)
LEMMA ForwardKeeps == BlockingInv /\ forward => BlockingInv'
<1> USE BlockingAssumption
<1>h. SUFFICES ASSUME BlockingInv, forward PROVE BlockingInv'
  OBVIOUS
<1>0. TypeOK /\ QueueInv /\ ResetInv /\ FlowInv /\ SentInv
  BY <1>h DEF BlockingInv
<1>1. /\ Receiving /\ task = "write_body" /\ parts # <<>> /\ Head(parts).kind = "data"
      /\ forwarded' = forwarded \o Head(parts).chunks /\ parts' = Tail(parts)
      /\ UNCHANGED <<streaming, thread, serving, buf, position, requests, answer, task, attempt, needs_reset, whole, result>>
  BY <1>h DEF forward, shim_receive, Become, threadVars, Receiving
<1> DEFINE h == Head(parts).chunks
           t == Contents(Tail(parts))
<1>2. /\ parts \in Seq(Parts) /\ buf \in Chunks /\ forwarded \in Chunks
      /\ position \in 0 .. MaxChunks /\ forwarded \o Contents(parts) \o buf = Upto(position)
  BY <1>0, <1>1 DEF TypeOK, FlowInv, Chunks
<1>3. Tail(parts) \in Seq(Parts) /\ h \in Chunks /\ t \in Chunks /\ Contents(parts) = h \o t
  BY <1>1, <1>2, OnTheWayHead, OnTheWay, PartsCarryChunks DEF Chunks
<1>4. Len(parts) \in Nat \ {0} /\ Len(parts') = Len(parts) - 1 /\ parts' \in Seq(Parts)
  BY <1>1, <1>2, HeadTailProperties, EmptySeq, LenProperties
<1>5. forwarded' \o Contents(parts') \o buf = Upto(position)
  <2>1. forwarded' = forwarded \o h /\ Contents(parts') = t
    BY <1>1
  <2>2. forwarded \o (h \o t) \o buf = Upto(position)
    BY <1>2, <1>3
  <2> HIDE DEF h, t
  <2>3. forwarded \o (h \o t) = forwarded \o h \o t
    BY <1>2, <1>3, ReadingChunks, Zenon
  <2> QED
    BY <2>1, <2>2, <2>3
<1>6. forwarded' \in Chunks
  BY <1>1, <1>2, <1>3, ConcatProperties DEF Chunks
<1>7. TypeOK'
  <2>1. streaming' \in BOOLEAN /\ needs_reset' \in BOOLEAN /\ whole' \in BOOLEAN
    BY <1>0, <1>1, Zenon DEF TypeOK
  <2>2. Len(parts') <= 2
    BY <1>0, <1>4 DEF TypeOK
  <2> QED
    BY <1>0, <1>1, <1>4, <1>6, <2>1, <2>2 DEF TypeOK, Chunks
<1>8. QueueInv'
  BY <1>0, <1>1 DEF QueueInv, StreamerGone, Receiving
<1>9. ResetInv'
  BY <1>0, <1>1 DEF ResetInv
<1>10. FlowInv'
  <2>1. ASSUME NEW i \in DOMAIN parts'
        PROVE  /\ i + 1 \in DOMAIN parts /\ parts'[i] = parts[i + 1]
               /\ i + 1 = Len(parts) => i = Len(parts')
    BY <1>1, <1>2, <1>4, HeadTailProperties, LenProperties
  <2>2. \A i \in DOMAIN parts : parts[i].kind = "done" =>
          /\ i = Len(parts) /\ parts[i].chunks = <<>>
          /\ buf = <<>> /\ position = MaxChunks
          /\ thread \notin {"write_body", "write_bytes", "finish"}
    BY <1>0, <1>1 DEF FlowInv
  <2>3. ASSUME NEW i \in DOMAIN parts', parts'[i].kind = "done"
        PROVE  /\ i = Len(parts') /\ parts'[i].chunks = <<>>
               /\ buf = <<>> /\ position = MaxChunks
               /\ thread \notin {"write_body", "write_bytes", "finish"}
    BY <2>1, <2>2, <2>3, Zenon
  <2> QED
    BY <1>0, <1>1, <1>5, <2>3 DEF FlowInv, Upto
<1>11. SentInv'
  <2>1. forwarded' \o (Contents(parts') \o buf) = Upto(position)
    <3>1. forwarded' \o (Contents(parts') \o buf) = forwarded' \o Contents(parts') \o buf
      <4>1. Contents(parts') \in Chunks
        BY <1>4, OnTheWay
      <4> QED
        BY <1>2, <1>6, <4>1, ReadingChunks, Zenon
    <3> QED
      BY <1>5, <3>1
  <2>2. Contents(parts') \o buf \in Chunks
    BY <1>2, <1>4, OnTheWay, ConcatProperties DEF Chunks
  <2>3. IsPrefix(forwarded', Upto(MaxChunks))
    BY <1>2, <1>6, <2>1, <2>2, ForwardedIsPrefix
  <2> QED
    BY <1>0, <1>1, <2>3 DEF SentInv, InSequence, OkIsWhole, Upto
<1> QED
  BY <1>7, <1>8, <1>9, <1>10, <1>11 DEF BlockingInv

(* Done is received when everything before it was. *)
LEMMA CompleteKeeps == BlockingInv /\ complete => BlockingInv'
<1> USE BlockingAssumption
<1>h. SUFFICES ASSUME BlockingInv, complete PROVE BlockingInv'
  OBVIOUS
<1>0. TypeOK /\ QueueInv /\ ResetInv /\ FlowInv /\ SentInv
  BY <1>h DEF BlockingInv
<1>1. /\ Receiving /\ task = "write_body" /\ parts # <<>> /\ Head(parts).kind = "done"
      /\ task' = "idle" /\ parts' = Tail(parts)
      /\ UNCHANGED <<streaming, thread, serving, buf, position, requests, answer, attempt, needs_reset, forwarded, result>>
  BY <1>h DEF complete, shim_receive, Become, threadVars, Receiving
<1>2. parts \in Seq(Parts) /\ buf \in Chunks /\ forwarded \in Chunks /\ position \in 0 .. MaxChunks
  BY <1>0 DEF TypeOK, Chunks
<1>3. 1 \in DOMAIN parts /\ parts[1] = Head(parts) /\ Len(parts) \in Nat
  BY <1>1, <1>2
<1>4. Len(parts) = 1 /\ Head(parts).chunks = <<>> /\ buf = <<>> /\ position = MaxChunks
  BY <1>0, <1>1, <1>3 DEF FlowInv
<1>5. Tail(parts) = <<>>
  <2>1. Tail(parts) \in Seq(Parts) /\ Len(Tail(parts)) = 0
    BY <1>1, <1>2, <1>4, HeadTailProperties
  <2> QED
    BY <2>1, EmptySeq
<1>6. forwarded = Upto(MaxChunks)
  <2>1. Contents(parts) = <<>> \o <<>>
    BY <1>1, <1>2, <1>4, <1>5, OnTheWayHead, ContentsEmpty
  <2>2. forwarded \o (<<>> \o <<>>) \o <<>> = forwarded
    BY <1>2 DEF Chunks
  <2> QED
    BY <1>0, <1>1, <1>4, <2>1, <2>2 DEF FlowInv
<1>7. requests = <<>>
  BY <1>0, <1>1 DEF QueueInv, Receiving
<1>8. TypeOK'
  <2>1. streaming' \in BOOLEAN /\ needs_reset' \in BOOLEAN /\ whole' \in BOOLEAN
    BY <1>h, <1>0, <1>1, Zenon DEF TypeOK, complete
  <2>2. parts' \in Seq(Parts) /\ Len(parts') <= 2
    <3>1. <<>> \in Seq(Parts) /\ Len(<<>>) = 0
      BY EmptySeq
    <3>2. parts' \in Seq(Parts) /\ Len(parts') = 0
      BY <1>1, <1>5, <3>1
    <3> QED
      BY <3>2
  <2> QED
    BY <1>0, <1>1, <2>1, <2>2 DEF TypeOK, Tasks
<1>9. QueueInv'
  BY <1>0, <1>1, <1>7 DEF QueueInv, StreamerGone
<1>10. ResetInv'
  BY <1>0, <1>1 DEF ResetInv
<1>11. FlowInv'
  BY <1>0, <1>1 DEF FlowInv, Receiving
<1>12. SentInv'
  BY <1>0, <1>1, <1>6 DEF SentInv, InSequence, OkIsWhole, Upto
<1> QED
  BY <1>8, <1>9, <1>10, <1>11, <1>12 DEF BlockingInv

(* The task gives up the write, ends, or ends a reset: nothing of what it  *)
(* shares with the thread changes but the answer of the reset.             *)
LEMMA MovingOn ==
    ASSUME NEW to \in {"idle", "returning", "ended"}
    PROVE  BlockingInv /\ task' = to
           /\ answer' \in {"none", answer}
           /\ (to # "ended" => requests = <<>> /\ answer' = "none")
           /\ needs_reset' \in BOOLEAN
           /\ (needs_reset => needs_reset' \/ (thread = "next" /\ position = 0))
           /\ (needs_reset' => needs_reset)
           /\ (to = "idle" => task \in {"write_body", "reset"})
           /\ result' \in {"none", "ok", "error", "canceled", result}
           /\ UNCHANGED <<streaming, threadVars, requests, parts, attempt, forwarded, whole>>
           => BlockingInv'
<1>h. SUFFICES ASSUME BlockingInv, task' = to,
                      answer' \in {"none", answer},
                      to # "ended" => requests = <<>> /\ answer' = "none",
                      needs_reset' \in BOOLEAN,
                      needs_reset => needs_reset' \/ (thread = "next" /\ position = 0),
                      needs_reset' => needs_reset,
                      to = "idle" => task \in {"write_body", "reset"},
                      result' \in {"none", "ok", "error", "canceled", result},
                      UNCHANGED <<streaming, threadVars, requests, parts, attempt, forwarded, whole>>
               PROVE  BlockingInv'
  BY Zenon
<1>0. TypeOK /\ QueueInv /\ ResetInv /\ FlowInv /\ SentInv
  BY <1>h DEF BlockingInv
<1>1. UNCHANGED <<streaming, thread, serving, buf, position, requests, parts, attempt, forwarded, whole>>
  BY <1>h DEF threadVars
<1>2. TypeOK'
  <2>1. streaming' \in BOOLEAN /\ needs_reset' \in BOOLEAN /\ whole' \in BOOLEAN
    BY <1>h, <1>0, <1>1, Zenon DEF TypeOK
  <2>2. answer' \in {"none", "true", "false"} /\ result' \in {"none", "ok", "error", "canceled"}
        /\ task' \in Tasks
    BY <1>h, <1>0 DEF TypeOK, Tasks
  <2> QED
    BY <1>0, <1>1, <2>1, <2>2 DEF TypeOK
<1>3. QueueInv'
  BY <1>h, <1>0, <1>1 DEF QueueInv, StreamerGone
<1>4. ResetInv'
  BY <1>h, <1>0, <1>1 DEF ResetInv
<1>5. FlowInv'
  BY <1>h, <1>0, <1>1 DEF FlowInv, Receiving
<1>6. SentInv'
  BY <1>h, <1>0, <1>1 DEF SentInv, InSequence, OkIsWhole, Upto
<1> QED
  BY <1>2, <1>3, <1>4, <1>5, <1>6 DEF BlockingInv

(* The attempt is given up: by the client, for an error of the thread, or  *)
(* because the thread is gone.                                             *)
LEMMA GivenUpKeeps == BlockingInv /\ (aborted \/ receive_error \/ write_rejected) => BlockingInv'
<1>h. SUFFICES ASSUME BlockingInv, aborted \/ receive_error \/ write_rejected PROVE BlockingInv'
  OBVIOUS
<1>0. TypeOK /\ QueueInv /\ ResetInv
  BY <1>h DEF BlockingInv
<1>1. /\ task = "write_body" /\ task' = "idle"
      /\ UNCHANGED <<streaming, threadVars, requests, answer, parts, attempt, needs_reset, forwarded, whole, result>>
  BY <1>h DEF aborted, receive_error, write_rejected, shim_receive, Become, channelVars
<1>2. requests = <<>>
  <2>1. CASE aborted
    <3>1. attempt \notin ToSet(requests)
      BY <2>1 DEF aborted, SenderGone
    <3>2. attempt \in ToSet(<<attempt>>)
      BY DEF ToSet
    <3> QED
      BY <1>0, <1>1, <3>1, <3>2, Zenon DEF QueueInv
  <2>2. CASE receive_error \/ write_rejected
    BY <1>0, <1>1, <2>2 DEF QueueInv, receive_error, write_rejected, shim_receive
  <2> QED
    BY <1>h, <2>1, <2>2
<1>3. answer = "none" /\ needs_reset \in BOOLEAN
  BY <1>0, <1>1 DEF ResetInv, TypeOK
<1>4. needs_reset' \in BOOLEAN /\ (needs_reset => needs_reset') /\ (needs_reset' => needs_reset)
  BY <1>1, <1>3, Zenon
<1> QED
  BY <1>h, <1>1, <1>2, <1>3, <1>4, MovingOn

(* The task after the write: it returns, sends the result, is dropped, or  *)
(* learns how the reset went.                                              *)
LEMMA EndingKeeps ==
    BlockingInv /\ (client_returns \/ send_result \/ drop_task \/ reset_done \/ reset_failed) => BlockingInv'
<1>h. SUFFICES ASSUME BlockingInv,
                      client_returns \/ send_result \/ drop_task \/ reset_done \/ reset_failed
               PROVE  BlockingInv'
  OBVIOUS
<1>0. TypeOK /\ QueueInv /\ ResetInv
  BY <1>h DEF BlockingInv
<1>1. needs_reset \in BOOLEAN
  BY <1>0 DEF TypeOK
<1>2. CASE client_returns
  <2>1. /\ task = "idle" /\ task' = "returning"
        /\ UNCHANGED <<streaming, threadVars, requests, answer, parts, attempt, forwarded, whole, result>>
    BY <1>2 DEF client_returns, Become, channelVars
  <2>2. requests = <<>> /\ answer = "none"
    BY <1>0, <2>1 DEF QueueInv, ResetInv
  <2>3. needs_reset' = needs_reset
    BY <1>2 DEF client_returns
  <2>4. needs_reset' \in BOOLEAN /\ (needs_reset => needs_reset') /\ (needs_reset' => needs_reset)
    BY <1>1, <2>3, Zenon
  <2> QED
    BY <1>h, <2>1, <2>2, <2>4, MovingOn
<1>3. CASE send_result \/ drop_task
  <2>1. /\ task' = "ended" /\ result' \in {"none", "ok", "error", "canceled", result}
        /\ UNCHANGED <<streaming, threadVars, requests, answer, parts, attempt, forwarded, whole>>
    BY <1>3 DEF send_result, drop_task, Become, channelVars
  <2>2. needs_reset' = needs_reset
    BY <1>3 DEF send_result, drop_task
  <2>3. needs_reset' \in BOOLEAN /\ (needs_reset => needs_reset') /\ (needs_reset' => needs_reset)
    BY <1>1, <2>2, Zenon
  <2> QED
    BY <1>h, <2>1, <2>3, MovingOn
<1>4. CASE reset_done
  <2>1. /\ task = "reset" /\ task' = "idle" /\ answer = "true" /\ answer' = "none"
        /\ UNCHANGED <<streaming, threadVars, requests, parts, attempt, forwarded, whole, result>>
    BY <1>4 DEF reset_done, Become
  <2>2. requests = <<>> /\ thread = "next" /\ position = 0
    BY <1>0, <2>1 DEF ResetInv
  <2>3. needs_reset' = FALSE
    BY <1>4 DEF reset_done
  <2>4. needs_reset' \in BOOLEAN /\ ~needs_reset'
    BY <2>3, Zenon
  <2> QED
    BY <1>h, <2>1, <2>2, <2>4, MovingOn
<1>5. CASE reset_failed
  <2>1. /\ task = "reset" /\ task' = "returning" /\ answer' = "none"
        /\ answer = "false" \/ (answer = "none" /\ StreamerGone)
        /\ UNCHANGED <<streaming, threadVars, requests, parts, attempt, forwarded, whole, result>>
    BY <1>5 DEF reset_failed, Become
  <2>2. requests = <<>>
    BY <1>0, <2>1 DEF ResetInv, QueueInv
  <2>3. needs_reset' = needs_reset
    BY <1>5 DEF reset_failed
  <2>4. needs_reset' \in BOOLEAN /\ (needs_reset => needs_reset') /\ (needs_reset' => needs_reset)
    BY <1>1, <2>3, Zenon
  <2> QED
    BY <1>h, <2>1, <2>2, <2>4, MovingOn
<1> QED
  BY <1>h, <1>2, <1>3, <1>4, <1>5

(* The task asks the thread to reset the body. *)
LEMMA ResetKeeps == BlockingInv /\ reset => BlockingInv'
<1> USE BlockingAssumption
<1>h. SUFFICES ASSUME BlockingInv, reset PROVE BlockingInv'
  OBVIOUS
<1>0. TypeOK /\ QueueInv /\ ResetInv /\ FlowInv /\ SentInv
  BY <1>h DEF BlockingInv
<1>1. /\ task = "idle" /\ task' = "reset" /\ needs_reset
      /\ requests' = IF StreamerGone THEN requests ELSE Append(requests, 0)
      /\ UNCHANGED <<streaming, thread, serving, buf, position, answer, parts, attempt, needs_reset, forwarded, whole, result>>
  BY <1>h DEF reset, Become, threadVars
<1>2. requests' \in {<<>>, <<0>>} /\ (StreamerGone' => requests' = <<>>) /\ answer = "none"
  <2>1. requests = <<>> /\ answer = "none"
    BY <1>0, <1>1 DEF QueueInv, ResetInv
  <2>2. Append(<<>>, 0) = <<0>>
    OBVIOUS
  <2> QED
    BY <1>1, <2>1, <2>2 DEF StreamerGone
<1>3. TypeOK'
  <2>1. streaming' \in BOOLEAN /\ needs_reset' \in BOOLEAN /\ whole' \in BOOLEAN
    BY <1>0, <1>1, Zenon DEF TypeOK
  <2>2. requests' \in Seq(0 .. MaxAttempts) /\ Len(requests') <= 2
    <3>1. /\ <<>> \in Seq(0 .. MaxAttempts) /\ Len(<<>>) = 0
          /\ <<0>> \in Seq(0 .. MaxAttempts) /\ Len(<<0>>) = 1
      OBVIOUS
    <3>2. requests' \in Seq(0 .. MaxAttempts) /\ Len(requests') \in {0, 1}
      BY <1>2, <3>1
    <3>3. \A n \in {0, 1} : n <= 2
      OBVIOUS
    <3> QED
      BY <3>2, <3>3, Zenon
  <2> QED
    BY <1>0, <1>1, <2>1, <2>2 DEF TypeOK, Tasks
<1>4. QueueInv'
  BY <1>0, <1>1, <1>2 DEF QueueInv
<1>5. ResetInv'
  BY <1>0, <1>1, <1>2 DEF ResetInv
<1>6. FlowInv'
  BY <1>0, <1>1 DEF FlowInv, Receiving
<1>7. SentInv'
  BY <1>0, <1>1 DEF SentInv, InSequence, OkIsWhole, Upto
<1> QED
  BY <1>3, <1>4, <1>5, <1>6, <1>7 DEF BlockingInv

-----------------------------------------------------------------------------
(* The theorems *)

(* Every step of thread and task keeps the invariant. *)
LEMMA StepBlocking == BlockingInv /\ [Next]_vars => BlockingInv'
<1> SUFFICES ASSUME BlockingInv, [Next]_vars PROVE BlockingInv'
  OBVIOUS
<1>1. CASE Thread
  BY <1>1, ServeWriteKeeps, ServeResetKeeps, NextRequestKeeps, LeavingKeeps, WriteLargeKeeps,
     FlushKeeps, WriteKeeps, FinishKeeps DEF Thread
<1>2. CASE Task \/ drop_task
  BY <1>2, StartWriteKeeps, ForwardKeeps, CompleteKeeps, GivenUpKeeps, ResetKeeps, EndingKeeps DEF Task
<1>3. CASE UNCHANGED vars
  <2>1. UNCHANGED <<streaming, requests, answer, parts, thread, serving, buf, position, task, attempt, needs_reset, forwarded, whole, result>>
    BY <1>3 DEF vars, channelVars, threadVars, taskVars
  <2>2. TypeOK'
    BY <2>1, Zenon DEF BlockingInv, TypeOK
  <2>3. QueueInv' /\ ResetInv'
    BY <2>1 DEF BlockingInv, QueueInv, ResetInv, StreamerGone
  <2>4. FlowInv' /\ SentInv'
    BY <2>1 DEF BlockingInv, FlowInv, SentInv, Receiving, InSequence, OkIsWhole, Upto
  <2> QED
    BY <2>2, <2>3, <2>4 DEF BlockingInv
<1> QED
  BY <1>1, <1>2, <1>3 DEF Next

(* BlockingInv is an invariant of blocking::Client::send, for a body of    *)
(* any length and any number of attempts.                                  *)
THEOREM BlockingInvariance == Spec => []BlockingInv
  BY InitBlocking, StepBlocking, PTL DEF Spec

(* What BodyWriterShim::write_body forwards in an attempt is the body from *)
(* its first chunk on, whatever the thread still did for the last one.     *)
THEOREM AttemptsStartOver == Spec => []InSequence
<1>1. BlockingInv => InSequence
  BY DEF BlockingInv, SentInv
<1> QED
  BY <1>1, BlockingInvariance, PTL

(* A write_body of the shim that returns Ok has forwarded the whole body:  *)
(* a BodyStreamer that fails, or unwinds, is never taken for its end.      *)
THEOREM OkMeansWhole == Spec => []OkIsWhole
<1>1. BlockingInv => OkIsWhole
  BY DEF BlockingInv, SentInv
<1> QED
  BY <1>1, BlockingInvariance, PTL

(* A retry after reset finds the body where it begins, and the thread of   *)
(* blocking::Client::send waiting: no write of an earlier attempt is left. *)
THEOREM RetriesAreFresh == Spec => []FreshStart
<1>1. BlockingInv => FreshStart
  BY DEF BlockingInv, FreshStart, QueueInv, ResetInv
<1> QED
  BY <1>1, BlockingInvariance, PTL
=============================================================================

----------------------------- MODULE RequestBody -----------------------------
(***************************************************************************)
(* service/raw/body.rs and the BodyWriter of body.rs: how one attempt      *)
(* sends its request body. The attempt runs Writer::write, which calls the *)
(* caller's write_body with a BodyWriter; hyper, in its connection task,   *)
(* polls the RawRequestBody. The two meet in an mpsc channel of one buffer *)
(* slot and a oneshot that tells the writer that hyper asked for the body. *)
(*                                                                         *)
(* The caller's bytes are chunks 1, 2, ... in the order of its writes. The *)
(* bound MaxChunks stops the caller, nothing else.                         *)
(***************************************************************************)
EXTENDS Naturals, SequencesExt

CONSTANTS
    MaxChunks,   \* bound: the caller writes at most this many chunks
    BufferFull,  \* poll_write flushes first when more than this is buffered
    Slots        \* futures' mpsc: the buffer, and one slot per sender

ASSUME RequestBodyAssumption ==
    /\ MaxChunks \in Nat \ {0} /\ BufferFull \in Nat /\ Slots \in Nat \ {0}

VARIABLES
    kind,     \* AsyncRequestBody's variant
    inner,    \* RawRequestBodyInner's variant
    polled,   \* the oneshot: "unsent", "sent", or its sender was dropped
    channel,  \* the parts in the mpsc channel, oldest first
    hyper,    \* what hyper has made of the body
    received, \* chunks hyper has read, in order
    stage,    \* where Writer::write is
    buf,      \* BodyWriter.buf, as chunks
    written   \* number of chunks the caller has written

writerVars == <<stage, buf, written>>
hyperVars  == <<inner, polled, hyper, received>>
vars == <<kind, channel, writerVars, hyperVars>>

Kinds  == {"Empty", "Fixed", "Streaming"}
Stages == {"await_polled", "write_body", "flush", "send_frame", "flush_frame", "finish",
           "send_done", "flush_done", "ok", "error", "cancelled"}
Hyper  == {"reading", "eof", "error", "hung_up"}

Frame(chunks) == [done |-> FALSE, chunks |-> chunks]
Done          == [done |-> TRUE, chunks |-> << >>]

Chunks == Seq(1 .. MaxChunks)
Parts  == [done : BOOLEAN, chunks : Chunks]

TypeOK ==
    /\ kind \in Kinds
    /\ inner \in {"Empty", "Single", "Stream"}
    /\ polled \in {"unsent", "sent", "closed"}
    /\ channel \in Seq(Parts) /\ Len(channel) <= Slots
    /\ hyper \in Hyper
    /\ received \in Chunks
    /\ stage \in Stages
    /\ buf \in Chunks /\ Len(buf) <= BufferFull + 1
    /\ written \in 0 .. MaxChunks

(* RawRequestBody::new. An empty or fixed body has a writer with nothing   *)
(* to do, and its single frame counts as chunk 1 of 1.                     *)
Init ==
    /\ kind \in Kinds
    /\ inner = CASE kind = "Empty" -> "Empty"
                 [] kind = "Fixed" -> "Single"
                 [] kind = "Streaming" -> "Stream"
    /\ polled = IF kind = "Streaming" THEN "unsent" ELSE "closed"
    /\ channel = << >>
    /\ hyper = "reading"
    /\ received = << >>
    /\ stage = IF kind = "Streaming" THEN "await_polled" ELSE "ok"
    /\ buf = << >>
    /\ written = IF kind = "Fixed" THEN 1 ELSE 0

-----------------------------------------------------------------------------
(* The channel (external). The receiver lives in inner; the sender lives   *)
(* as long as Writer::write. A send needs a free slot; once the receiver   *)
(* is gone it fails, while flushing succeeds.                              *)
ReceiverGone == inner # "Stream"
SenderGone   == stage \in {"ok", "error", "cancelled"}
SendReady    == ~ReceiverGone /\ Len(channel) < Slots

(* poll_frame, by what it finds. *)
poll_empty ==
    /\ hyper = "reading" /\ inner = "Empty"
    /\ hyper' = "eof"
    /\ UNCHANGED <<kind, channel, writerVars, inner, polled, received>>

poll_single ==
    /\ hyper = "reading" /\ inner = "Single"
    /\ inner' = "Empty"
    /\ received' = <<1>>
    /\ UNCHANGED <<kind, channel, writerVars, polled, hyper>>

(* Mutant: a writer that went away is the end of the body. *)
WithoutDone_is_eof == "eof"

(* What hyper makes of a channel that closes before Done: RequestBodyError. *)
WithoutDone == "error"

poll_stream ==
    /\ hyper = "reading" /\ inner = "Stream"
    /\ polled' = "sent"
    /\ UNCHANGED <<kind, writerVars>>
    /\ \/ /\ channel # << >> /\ ~Head(channel).done
          /\ received' = received \o Head(channel).chunks
          /\ channel' = Tail(channel)
          /\ UNCHANGED <<inner, hyper>>
       \/ /\ channel # << >> /\ Head(channel).done
          /\ inner' = "Empty" /\ channel' = << >>
          /\ hyper' = "eof"
          /\ UNCHANGED received
       \/ /\ channel = << >> /\ SenderGone
          /\ inner' = "Empty"
          /\ hyper' = WithoutDone
          /\ UNCHANGED <<channel, received>>
       \/ /\ channel = << >> /\ ~SenderGone
          /\ UNCHANGED <<inner, channel, hyper, received>>

(* hyper (external) drops the body at any time: the connection failed, or  *)
(* the response came before the body was read.                             *)
hang_up ==
    /\ hyper = "reading"
    /\ hyper' = "hung_up"
    /\ inner' = "Empty" /\ channel' = << >>
    /\ polled' = IF polled = "unsent" THEN "closed" ELSE polled
    /\ UNCHANGED <<kind, writerVars, received>>

-----------------------------------------------------------------------------
(* Writer::write moves on without touching anything else. *)
Proceed(from, to) ==
    /\ stage = from
    /\ stage' = to
    /\ UNCHANGED <<kind, channel, hyperVars, buf, written>>

(* Mutant: the writer does not wait for hyper. *)
start_write_at_once == Proceed("await_polled", "write_body")

(* Writer::write waits until hyper asks for the body, so that a request    *)
(* that fails early does not consume it.                                   *)
start_write == polled = "sent" /\ Proceed("await_polled", "write_body")

(* Mutant: hyper hanging up before it polled is not noticed. *)
never_polled_unnoticed == polled = "sent" /\ hyper = "hung_up" /\ Proceed("await_polled", "ok")

never_polled == polled = "closed" /\ Proceed("await_polled", "ok")

(* One operation of the caller's write_body on the BodyWriter: poll_write  *)
(* with room in the buffer; poll_write or flush that has to flush first;   *)
(* or write_bytes, which flushes and then sends a frame of its own.        *)
poll_write ==
    /\ stage = "write_body" /\ written < MaxChunks
    /\ Len(buf) <= BufferFull
    /\ buf' = Append(buf, written + 1)
    /\ written' = written + 1
    /\ UNCHANGED <<kind, channel, hyperVars, stage>>

begin_flush == buf # << >> /\ Proceed("write_body", "flush")

write_bytes == written < MaxChunks /\ Proceed("write_body", "send_frame")

(* poll_flush: splits the buffer off as one frame. *)
FlushTo(next) ==
    /\ IF buf = << >>
       THEN UNCHANGED <<channel, buf>>
       ELSE /\ SendReady
            /\ channel' = Append(channel, Frame(buf))
            /\ buf' = << >>
    /\ stage' = next
    /\ UNCHANGED <<kind, hyperVars, written>>

flush == stage = "flush" /\ FlushTo("write_body")

flush_before_frame == stage = "send_frame" /\ buf # << >> /\ FlushTo("send_frame")

(* Mutant: write_bytes sends its frame ahead of what is buffered. *)
send_frame_unflushed ==
    /\ stage = "send_frame"
    /\ SendReady
    /\ channel' = Append(channel, Frame(<<written + 1>>))
    /\ written' = written + 1
    /\ stage' = "flush_frame"
    /\ UNCHANGED <<kind, hyperVars, buf>>

send_frame ==
    /\ stage = "send_frame" /\ buf = << >>
    /\ SendReady
    /\ channel' = Append(channel, Frame(<<written + 1>>))
    /\ written' = written + 1
    /\ stage' = "flush_frame"
    /\ UNCHANGED <<kind, hyperVars, buf>>

(* SinkExt::send returns once its part needs no more room. *)
Flushed == Len(channel) < Slots

frame_sent == Flushed /\ Proceed("flush_frame", "write_body")

(* write_body returns Ok: finish flushes, then sends Done. *)
body_complete == Proceed("write_body", "finish")

finish == stage = "finish" /\ FlushTo("send_done")

send_done ==
    /\ stage = "send_done"
    /\ SendReady
    /\ channel' = Append(channel, Done)
    /\ stage' = "flush_done"
    /\ UNCHANGED <<kind, hyperVars, buf, written>>

done_sent == Flushed /\ Proceed("flush_done", "ok")

(* write_body returns an error of its own, or a send finds the receiver    *)
(* gone and fails. The BodyWriter is dropped either way. (A caller that    *)
(* ignores a failed write goes on in stage write_body and fails in finish  *)
(* at the latest.)                                                         *)
body_fails == Proceed("write_body", "error")

send_fails ==
    /\ ReceiverGone
    /\ \/ stage \in {"flush", "finish"} /\ buf # << >>
       \/ stage \in {"send_frame", "send_done"}
    /\ Proceed(stage, "error")

write_error_ignored ==
    /\ ReceiverGone
    /\ stage \in {"flush", "send_frame"}
    /\ Proceed(stage, "write_body")

(* The caller drops the request's future: Writer::write goes away at its   *)
(* await point, hyper's connection task does not.                          *)
cancel == ~SenderGone /\ Proceed(stage, "cancelled")

-----------------------------------------------------------------------------
poll_frame == poll_empty \/ poll_single \/ poll_stream

(* What the writer does without a decision of the caller. *)
WriterStep ==
    \/ start_write \/ never_polled \/ flush \/ flush_before_frame \/ send_frame \/ frame_sent
    \/ finish \/ send_done \/ done_sent
    \/ send_fails

CallerStep ==
    \/ poll_write \/ begin_flush \/ write_bytes \/ body_complete \/ body_fails
    \/ write_error_ignored \/ cancel

Next == poll_frame \/ hang_up \/ WriterStep \/ CallerStep

Spec == Init /\ [][Next]_vars

(* hyper keeps polling a body it has not dropped (hanging up is possible   *)
(* but not relied on); the executor runs the writer; and a write_body that *)
(* keeps getting its turn returns at some point.                           *)
Fairness ==
    /\ WF_vars(poll_frame)
    /\ WF_vars(WriterStep)
    /\ SF_vars(body_complete \/ body_fails)

FairSpec == Spec /\ Fairness

-----------------------------------------------------------------------------
AllChunks(parts) == FlattenSeq([i \in 1 .. Len(parts) |-> parts[i].chunks])

Upto(n) == [i \in 1 .. n |-> i]

(* No chunk is lost, repeated or reordered on its way through the buffer   *)
(* and the channel: while hyper reads a stream, what it has read, what is  *)
(* in the channel and what is buffered are together all that the caller    *)
(* wrote.                                                                  *)
NothingLost ==
    inner = "Stream" => received \o AllChunks(channel) \o buf = Upto(written)

(* A truncated body never looks complete: hyper sees the end of the body   *)
(* only if write_body returned Ok and every chunk has been read. A writer  *)
(* that fails, is cancelled or is dropped ends in an error for hyper.      *)
NoTruncation ==
    hyper = "eof" => /\ received = Upto(written)
                     /\ stage \in {"flush_done", "ok", "cancelled"}

(* "wait for hyper to actually ask for the body so we don't start reading  *)
(* it if the request fails early": the caller's body is untouched if hyper *)
(* hung up before it polled.                                               *)
UntouchedUnlessPolled ==
    polled # "sent" /\ kind = "Streaming" =>
        written = 0 /\ stage \in {"await_polled", "ok", "cancelled"}

(* Neither side waits for the other for ever: Writer::write returns, which *)
(* the attempt's join needs.                                               *)
WriterReturns == <>SenderGone
=============================================================================

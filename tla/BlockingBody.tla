----------------------------- MODULE BlockingBody -----------------------------
(***************************************************************************)
(* blocking::Client::send: the request runs as a task of a runtime, while  *)
(* the calling thread, which borrows the body, serves the requests of the  *)
(* task to write it (once per attempt) or to reset it, until the task has  *)
(* dropped its end.                                                        *)
(*                                                                         *)
(* The body is the chunks 1 .. MaxChunks; user code writes what is left of *)
(* it, and a reset starts it over. The rest of the client is abstracted to *)
(* what it may do with a body: start to write it, give that up when the    *)
(* connection takes no more, and retry; the runtime may drop the task at   *)
(* any point. futures' channels are external: a sender that fills the      *)
(* channel of capacity 1 waits until there is room or no receiver, and it  *)
(* fails at once if there is none.                                         *)
(***************************************************************************)
EXTENDS Naturals, Sequences, SequencesExt

CONSTANTS
    MaxChunks,      \* bound on the chunks of a body
    MaxAttempts     \* bound on the attempts of a request

ASSUME BlockingAssumption == MaxChunks \in Nat /\ MaxAttempts \in Nat

VARIABLES
    streaming,      \* the request's body is RequestBody::Streaming
    \* the channel of ShimRequests: the attempt to write for, 0 to reset
    requests,
    answer,         \* the oneshot channel of a reset
    \* the channel of BodyParts, of the write being served
    parts, serving,
    \* the calling thread
    thread, buf,
    position,       \* chunks of the body that user code has read
    \* the task
    task, attempt, needs_reset,
    forwarded,      \* chunks given to the async BodyWriter in this attempt
    whole,          \* write_body of this attempt returned Ok
    result          \* the oneshot channel of the response

channelVars == <<requests, answer, parts>>
threadVars == <<thread, serving, buf, position>>
taskVars == <<task, attempt, needs_reset, forwarded, whole, result>>
vars == <<streaming, channelVars, threadVars, taskVars>>

Data(chunks) == [kind |-> "data", chunks |-> chunks]
Error == [kind |-> "error", chunks |-> <<>>]
Done == [kind |-> "done", chunks |-> <<>>]
Upto(n) == [i \in 1 .. n |-> i]

Parts == [kind : {"data", "error", "done"}, chunks : Seq(1 .. MaxChunks)]
Threads == {"next", "write_body", "write_bytes", "finish", "done", "receive", "returned", "unwound"}
Tasks == {"idle", "write_body", "reset", "returning", "ended"}

TypeOK ==
    /\ streaming \in BOOLEAN /\ needs_reset \in BOOLEAN /\ whole \in BOOLEAN
    /\ requests \in Seq(0 .. MaxAttempts) /\ Len(requests) <= 2
    /\ answer \in {"none", "true", "false"}
    /\ parts \in Seq(Parts) /\ Len(parts) <= 2
    /\ serving \in 0 .. MaxAttempts /\ attempt \in 0 .. MaxAttempts
    /\ thread \in Threads /\ task \in Tasks
    /\ buf \in Seq(1 .. MaxChunks) /\ forwarded \in Seq(1 .. MaxChunks)
    /\ position \in 0 .. MaxChunks
    /\ result \in {"none", "ok", "error", "canceled"}

(* send and shim: an Empty or Fixed body needs no streamer. *)
Init ==
    /\ streaming \in BOOLEAN
    /\ requests = <<>> /\ answer = "none"
    /\ parts = <<>> /\ serving = 0
    /\ thread = (IF streaming THEN "next" ELSE "receive")
    /\ buf = <<>> /\ position = 0
    /\ task = "idle" /\ attempt = 0 /\ needs_reset = FALSE
    /\ forwarded = <<>> /\ whole = FALSE
    /\ result = "none"

-----------------------------------------------------------------------------
(* Channels *)

StreamerGone == thread \in {"receive", "returned", "unwound"}
ShimGone == task \in {"returning", "ended"}

(* The receiver of the parts of the write being served. *)
Receiving == task = "write_body" /\ serving = attempt

(* The sender of the parts this attempt waits for is dropped, and all that *)
(* it sent is received.                                                    *)
SenderGone == /\ attempt \notin ToSet(requests)
              /\ serving = attempt => parts = <<>> /\ thread \notin {"write_body", "write_bytes", "finish", "done"}

(* Mutant: the thread never learns that nobody receives. *)
Unblocked_by_room == Len(parts) <= 1

(* block_on(sender.send(..)) has returned. *)
Unblocked == Receiving => Len(parts) <= 1

Put(part) == parts' = IF Receiving THEN Append(parts, part) ELSE parts

-----------------------------------------------------------------------------
(* The thread: BodyStreamer::stream, and user code that writes the body *)

Running(pc) == thread = pc /\ Unblocked
Goto(pc) == thread' = pc /\ UNCHANGED <<streaming, taskVars>>

serve_write ==
    /\ Running("next") /\ requests # <<>> /\ Head(requests) # 0
    /\ requests' = Tail(requests)
    /\ serving' = Head(requests)
    /\ parts' = <<>> /\ buf' = <<>>
    /\ Goto("write_body")
    /\ UNCHANGED <<answer, position>>

(* What reset of the body itself returns is up to user code. *)
serve_reset ==
    /\ Running("next") /\ requests # <<>> /\ Head(requests) = 0
    /\ requests' = Tail(requests)
    /\ \/ answer' = "true" /\ position' = 0
       \/ answer' = "false" /\ UNCHANGED position
    /\ Goto("next")
    /\ UNCHANGED <<parts, serving, buf>>

Chunk == position + 1
Takes == position < MaxChunks /\ position' = position + 1

(* Write::write of a small slice: it is not sent, however many there are. *)
write ==
    /\ Running("write_body") /\ Takes
    /\ buf' = Append(buf, Chunk)
    /\ Goto("write_body")
    /\ UNCHANGED <<channelVars, serving>>

(* Write::write of a large slice. *)
write_large ==
    /\ Running("write_body") /\ Takes
    /\ buf' = <<>> /\ Put(Data(Append(buf, Chunk)))
    /\ Goto("write_body")
    /\ UNCHANGED <<requests, answer, serving>>

flush ==
    /\ Running("write_body") /\ buf # <<>>
    /\ buf' = <<>> /\ Put(Data(buf))
    /\ Goto("write_body")
    /\ UNCHANGED <<requests, answer, serving, position>>

(* Mutant: the bytes overtake what is buffered. *)
write_bytes_unflushed ==
    /\ Running("write_body") /\ Takes
    /\ Put(Data(<<Chunk>>))
    /\ Goto("write_body")
    /\ UNCHANGED <<requests, answer, serving, buf>>

(* BodyWriter::write_bytes flushes first ... *)
write_bytes ==
    /\ Running("write_body") /\ position < MaxChunks
    /\ buf' = <<>> /\ IF buf = <<>> THEN UNCHANGED parts ELSE Put(Data(buf))
    /\ Goto("write_bytes")
    /\ UNCHANGED <<requests, answer, serving, position>>

(* ... and then sends. If the flush failed that is not done, and would     *)
(* fail as well.                                                           *)
send_bytes ==
    /\ Running("write_bytes") /\ Takes
    /\ Put(Data(<<Chunk>>))
    /\ Goto("write_body")
    /\ UNCHANGED <<requests, answer, serving, buf>>

(* Mutant: what is buffered is dropped with the writer. *)
written_unflushed ==
    /\ Running("write_body") /\ position = MaxChunks
    /\ UNCHANGED channelVars
    /\ Goto("finish")
    /\ UNCHANGED <<serving, buf, position>>

(* write_body returns Ok, and BodyWriter::finish flushes ... *)
written ==
    /\ Running("write_body") /\ position = MaxChunks
    /\ buf' = <<>> /\ IF buf = <<>> THEN UNCHANGED parts ELSE Put(Data(buf))
    /\ Goto("finish")
    /\ UNCHANGED <<requests, answer, serving, position>>

(* ... before it sends Done. *)
finish ==
    /\ Running("finish")
    /\ Put(Done)
    /\ Goto("done")
    /\ UNCHANGED <<requests, answer, serving, buf, position>>

(* write_body returns an error, its own or that of a send. *)
write_fails ==
    /\ Running("write_body")
    /\ Put(Error)
    /\ Goto("done")
    /\ UNCHANGED <<requests, answer, serving, buf, position>>

(* The writer is dropped, and the loop goes on. *)
next_request ==
    /\ Running("done")
    /\ Goto("next")
    /\ UNCHANGED <<channelVars, serving, buf, position>>

(* User code panics, in write_body or in reset: the thread unwinds through *)
(* send.                                                                   *)
panic ==
    /\ \/ Running("write_body")
       \/ Running("next") /\ requests # <<>> /\ Head(requests) = 0
    /\ requests' = <<>>
    /\ Goto("unwound")
    /\ UNCHANGED <<answer, parts, serving, buf, position>>

(* The shim is dropped, and every request was served. *)
end_stream ==
    /\ Running("next") /\ requests = <<>> /\ ShimGone
    /\ Goto("receive")
    /\ UNCHANGED <<channelVars, serving, buf, position>>

(* send: block_on(receiver). *)
receive_result ==
    /\ thread = "receive" /\ result # "none"
    /\ Goto("returned")
    /\ UNCHANGED <<channelVars, serving, buf, position>>

-----------------------------------------------------------------------------
(* The task: BodyWriterShim, and what the client does with a body *)

Become(pc) == task' = pc /\ UNCHANGED <<streaming, threadVars>>

(* Mutant: the body counts as touched only when it was written. *)
start_write_untracked ==
    /\ task = "idle" /\ streaming /\ ~needs_reset /\ attempt < MaxAttempts
    /\ attempt' = attempt + 1
    /\ requests' = Append(requests, attempt + 1)
    /\ forwarded' = <<>> /\ whole' = FALSE
    /\ Become("write_body")
    /\ UNCHANGED <<answer, parts, result, needs_reset>>

(* ResetTracker, then BodyWriterShim::write_body. The thread still serves  *)
(* requests, as it does whenever the body is untouched: FreshStart.        *)
start_write ==
    /\ task = "idle" /\ streaming /\ ~needs_reset /\ attempt < MaxAttempts
    /\ attempt' = attempt + 1
    /\ needs_reset' = TRUE
    /\ requests' = Append(requests, attempt + 1)
    /\ forwarded' = <<>> /\ whole' = FALSE
    /\ Become("write_body")
    /\ UNCHANGED <<answer, parts, result>>

shim_receive(kind) == task = "write_body" /\ serving = attempt /\ parts # <<>> /\ Head(parts).kind = kind

forward ==
    /\ shim_receive("data")
    /\ forwarded' = forwarded \o Head(parts).chunks
    /\ parts' = Tail(parts)
    /\ Become("write_body")
    /\ UNCHANGED <<requests, answer, attempt, needs_reset, whole, result>>

complete ==
    /\ shim_receive("done")
    /\ whole' = TRUE
    /\ parts' = Tail(parts)
    /\ Become("idle")
    /\ UNCHANGED <<requests, answer, attempt, needs_reset, forwarded, result>>

(* "body write aborted" *)
aborted ==
    /\ task = "write_body" /\ SenderGone
    /\ Become("idle")
    /\ UNCHANGED <<channelVars, attempt, needs_reset, forwarded, whole, result>>

(* BodyPart::Error *)
receive_error ==
    /\ shim_receive("error")
    /\ Become("idle")
    /\ UNCHANGED <<channelVars, attempt, needs_reset, forwarded, whole, result>>

(* The async writer fails, as the connection is gone: the receiver is      *)
(* dropped, and the thread is left to write to nobody.                     *)
write_rejected ==
    /\ shim_receive("data")
    /\ Become("idle")
    /\ UNCHANGED <<channelVars, attempt, needs_reset, forwarded, whole, result>>

(* BodyWriterShim::reset, for another attempt. *)
reset ==
    /\ task = "idle" /\ needs_reset /\ attempt < MaxAttempts
    /\ requests' = IF StreamerGone THEN requests ELSE Append(requests, 0)
    /\ Become("reset")
    /\ UNCHANGED <<answer, parts, attempt, needs_reset, forwarded, whole, result>>

reset_done ==
    /\ task = "reset" /\ answer = "true"
    /\ answer' = "none"
    /\ needs_reset' = FALSE
    /\ Become("idle")
    /\ UNCHANGED <<requests, parts, attempt, forwarded, whole, result>>

(* The body cannot be reset, or nobody is left to: there is no retry. *)
reset_failed ==
    /\ task = "reset"
    /\ answer = "false" \/ (answer = "none" /\ StreamerGone)
    /\ answer' = "none"
    /\ Become("returning")
    /\ UNCHANGED <<requests, parts, attempt, needs_reset, forwarded, whole, result>>

(* client.send returns, and has dropped the body ... *)
client_returns ==
    /\ task = "idle"
    /\ Become("returning")
    /\ UNCHANGED <<channelVars, attempt, needs_reset, forwarded, whole, result>>

(* ... before the task sends what it returned. *)
send_result ==
    /\ task = "returning"
    /\ result' \in {"ok", "error"}
    /\ Become("ended")
    /\ UNCHANGED <<channelVars, attempt, needs_reset, forwarded, whole>>

(* The runtime drops the task. *)
drop_task ==
    /\ task # "ended"
    /\ result' = "canceled"
    /\ Become("ended")
    /\ UNCHANGED <<channelVars, attempt, needs_reset, forwarded, whole>>

Thread ==
    \/ serve_write \/ serve_reset \/ next_request \/ end_stream \/ receive_result
    \/ write_large \/ flush \/ write \/ write_bytes \/ send_bytes \/ written \/ finish
    \/ write_fails \/ panic

Task ==
    \/ start_write \/ forward \/ complete \/ aborted \/ receive_error \/ write_rejected
    \/ reset \/ reset_done \/ reset_failed \/ client_returns \/ send_result

Next == Thread \/ Task \/ drop_task

(* The thread runs, user code returns at some time, the runtime polls the  *)
(* task, and the async writer takes or, by the connection's timeouts,      *)
(* refuses what it is given. Nothing has to cancel anything.               *)
Fairness == WF_vars(Thread) /\ WF_vars(Task)

Spec == Init /\ [][Next]_vars /\ Fairness

-----------------------------------------------------------------------------
(* Properties *)

(* What an attempt sends is the body from its first chunk on, in order,    *)
(* although the thread may still be busy with the write of an attempt that *)
(* was given up half-way.                                                  *)
InSequence == IsPrefix(forwarded, Upto(MaxChunks))

(* An attempt that takes its body for written has sent all of it: a thread *)
(* that is gone, or fails, is an error.                                    *)
OkIsWhole == whole => forwarded = Upto(MaxChunks)

(* A body that counts as untouched is: nothing of it was read, and no      *)
(* write of an attempt that is over is running or yet to be served.        *)
FreshStart ==
    streaming /\ task = "idle" /\ ~needs_reset =>
        position = 0 /\ requests = <<>> /\ thread = "next"

(* send returns, or unwinds with its caller's panic: thread and task never *)
(* wait for each other.                                                    *)
SendReturns == <>(thread \in {"returned", "unwound"})
=============================================================================

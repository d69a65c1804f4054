----------------------------- MODULE ResponsePath -----------------------------
(***************************************************************************)
(* A response on its way to the caller: the frames of the raw HTTP body,   *)
(* DecodedBody of the gzip layer, FuseBody, and ResponseBody, which the    *)
(* caller reads as a stream, as a reader, or as both by turns.             *)
(*                                                                         *)
(* A unit is a piece of content (1, 2, ...), the end of a gzip stream (0), *)
(* or something no decoder accepts (-1). A poll is a loop over the frames  *)
(* of the raw body: one iteration is one step, since frames arrive from    *)
(* the connection's task in between. flate2 and hyper are external: the    *)
(* decoder may hold decoded units back until it is told to finish, and the *)
(* raw body may or may not know, with its last frame, that it was the      *)
(* last. The read timer is the socket's: an HTTP/2 connection carries      *)
(* other responses too, and whatever arrives for them restarts it.         *)
(***************************************************************************)
EXTENDS Integers, Sequences, FiniteSets, SequencesExt

CONSTANT Bodies     \* [gzip, frames]: responses a server may send

Frames == [kind : {"data", "trailers", "error"}, units : Seq(Int)]

(* Trailers, which carry no content, end an HTTP body. *)
TrailersEnd(fs) ==
    \A n \in DOMAIN fs : fs[n].kind = "trailers" => n = Len(fs) /\ fs[n].units = <<>>

ASSUME BodiesAssumption ==
    \A b \in Bodies : b.gzip \in BOOLEAN /\ b.frames \in Seq(Frames) /\ TrailersEnd(b.frames)

VARIABLES
    body,       \* the response the server sends
    phase,      \* the call: its open span, or how it ended
    headers,    \* the entity headers the caller sees
    wire, arrived,          \* frames to come, and how many of them are here
    timer,      \* the read timer of the connection
    state, held, complete,  \* DecodedBody and its decoder
    done,       \* FuseBody
    cur,        \* ResponseBody
    call,       \* the poll under way
    got, ended, errored     \* what the caller was given

rawVars == <<wire, arrived, timer>>
decoderVars == <<state, held, complete>>
callerVars == <<call, cur, done, got, ended, errored>>
vars == <<body, phase, headers, rawVars, decoderVars, callerVars>>

(* The calls a caller reads with, mixed at will. The blocking ResponseBody *)
(* runs the same two on a runtime: next, and fill_buf for read.            *)
Apis == {"poll_next", "poll_fill_buf"}

(* No read of the socket waits, or one does, for less than the read        *)
(* timeout or for longer; or it has failed for that reason.                *)
Timers == {"off", "running", "due", "fired"}

TypeOK ==
    /\ body \in Bodies
    /\ phase \in {"wait-for-headers", "wait-for-body", "failed", "dropped"}
    /\ headers \in [gzip : BOOLEAN, length : Nat \cup {-1}]
    /\ wire \in Seq(Frames)
    /\ arrived \in 0 .. Len(wire)
    /\ timer \in Timers
    /\ state \in {"decompressing", "last", "done"}
    /\ held \in Seq(Int)
    /\ complete \in BOOLEAN
    /\ done \in BOOLEAN /\ ended \in BOOLEAN /\ errored \in BOOLEAN
    /\ cur \in Seq(Int) /\ got \in Seq(Int)
    /\ call \in Apis \cup {"none"}

Units(fs) == FlattenSeq([n \in DOMAIN fs |-> fs[n].units])
WireLength(b) == Len(Units(b.frames))

Init ==
    /\ body \in Bodies
    /\ phase = "wait-for-headers"
    /\ headers = [gzip |-> body.gzip, length |-> WireLength(body)]
    /\ wire = body.frames
    /\ arrived = 0 /\ timer = "running"
    /\ state = "done" /\ held = <<>> /\ complete = FALSE
    /\ done = FALSE
    /\ cur = <<>> /\ call = "none"
    /\ got = <<>> /\ ended = FALSE /\ errored = FALSE

-----------------------------------------------------------------------------
(* The call *)

(* Mutant: the length of the encoded body is left in place. *)
Entity_with_length(h) == [h EXCEPT !.gzip = FALSE]

(* GzipService::call: what the caller learns of a body that is decoded. *)
Entity(h) == IF h.gzip THEN [gzip |-> FALSE, length |-> -1] ELSE h

(* The layers' calls, from the headers' arrival to ResponseBody::new. *)
respond ==
    /\ phase = "wait-for-headers"
    /\ phase' = "wait-for-body"
    /\ headers' = Entity(headers)
    /\ state' = IF headers.gzip THEN "decompressing" ELSE "done"
    /\ timer' = "off"
    /\ UNCHANGED <<body, wire, arrived, held, complete, callerVars>>

(* The raw client fails: the connection is lost, say. *)
fail ==
    /\ phase = "wait-for-headers"
    /\ phase' = "failed"
    /\ UNCHANGED <<body, headers, rawVars, decoderVars, callerVars>>

(* The caller drops the body, and the span with it. *)
drop ==
    /\ phase = "wait-for-body" /\ call = "none"
    /\ phase' = "dropped"
    /\ UNCHANGED <<body, headers, rawVars, decoderVars, callerVars>>

-----------------------------------------------------------------------------
(* The connection *)

Open == phase = "wait-for-body"

(* tokio's TimeoutStream: a read that is Ready ends the wait. *)
arrive ==
    /\ Open /\ arrived < Len(wire) /\ timer # "fired"
    /\ arrived' = arrived + 1
    /\ timer' = "off"
    /\ UNCHANGED <<body, phase, headers, wire, decoderVars, callerVars>>

OnlyTimer == UNCHANGED <<body, headers, wire, arrived, decoderVars, callerVars>>

(* The task of an HTTP/2 connection reads whether or not the caller does. *)
read_ahead ==
    /\ Open /\ timer = "off"
    /\ timer' = "running"
    /\ OnlyTimer /\ UNCHANGED phase

time_passes ==
    /\ phase \in {"wait-for-headers", "wait-for-body"} /\ timer = "running"
    /\ timer' = "due"
    /\ OnlyTimer /\ UNCHANGED phase

(* Bytes arrive that are no frame of this body: another response on an     *)
(* HTTP/2 connection, a PING, a part of a TLS record. The next read waits  *)
(* anew.                                                                   *)
other_traffic ==
    /\ phase \in {"wait-for-headers", "wait-for-body"} /\ timer = "due"
    /\ timer' = "running"
    /\ OnlyTimer /\ UNCHANGED phase

(* Mutant: no read timeout is set. *)
read_timeout_unset == FALSE /\ UNCHANGED vars

(* TimeoutStream: the read fails, and with it all that the connection has  *)
(* not brought yet.                                                        *)
read_timeout ==
    /\ phase \in {"wait-for-headers", "wait-for-body"} /\ timer = "due"
    /\ timer' = "fired"
    /\ phase' = IF phase = "wait-for-headers" THEN "failed" ELSE phase
    /\ OnlyTimer

-----------------------------------------------------------------------------
(* What a poll of FuseBody returns to ResponseBody *)

Settled == UNCHANGED <<done, ended, errored>>

(* The loop of poll_next, poll_fill_buf or DecodedBody goes on. *)
Continue == UNCHANGED callerVars

ReturnData(d) ==
    IF call = "poll_fill_buf"
    THEN cur' = d /\ call' = (IF d = <<>> THEN call ELSE "none") /\ UNCHANGED got /\ Settled
    ELSE got' = got \o d /\ call' = "none" /\ UNCHANGED cur /\ Settled

ReturnError ==
    /\ errored' = TRUE /\ call' = "none"
    /\ UNCHANGED <<done, cur, got, ended>>

ReturnNone ==
    /\ done' = TRUE /\ ended' = TRUE /\ call' = "none"
    /\ UNCHANGED <<cur, got, errored>>

-----------------------------------------------------------------------------
(* DecodedBody::poll_frame *)

Polling(s) == Open /\ call # "none" /\ ~done /\ state = s
HasFrame(kind) == arrived > 0 /\ Head(wire).kind = kind

Pull ==
    /\ wire' = Tail(wire)
    /\ arrived' = arrived - 1
    /\ UNCHANGED timer

(* is_end_stream of the raw body, after the frame. *)
EndKnown == IF Tail(wire) = <<>> THEN BOOLEAN ELSE {FALSE}

Decoder(s, h, c) == state' = s /\ held' = h /\ complete' = c
Decodes(us) == /\ \A n \in DOMAIN us : us[n] >= 0 /\ (us[n] = 0 => n = Len(us))
               /\ complete => us = <<>>
EndsStream(us) == us # <<>> /\ Last(us) = 0
Content(us) == IF EndsStream(us) THEN Front(us) ELSE us

(* Mutant: the checksum is not looked at. *)
Finish_unchecked(out, whole, trailers) ==
    /\ Decoder(IF trailers /\ out # <<>> THEN "last" ELSE "done", <<>>, FALSE)
    /\ IF out = <<>> THEN IF trailers THEN Continue ELSE ReturnNone ELSE ReturnData(out)

(* try_finish: all that is decoded comes out, unless the stream is cut     *)
(* short. Trailers wait for their turn.                                    *)
Finish(out, whole, trailers) ==
    CASE ~whole -> Decoder("done", <<>>, FALSE) /\ ReturnError
      [] whole /\ out # <<>> ->
            Decoder(IF trailers THEN "last" ELSE "done", <<>>, FALSE) /\ ReturnData(out)
      [] whole /\ out = <<>> ->
            Decoder("done", <<>>, FALSE) /\ IF trailers THEN Continue ELSE ReturnNone

(* A data frame the decoder accepts. *)
poll_data ==
    /\ Polling("decompressing") /\ HasFrame("data") /\ Decodes(Head(wire).units)
    /\ Pull
    /\ LET out == held \o Content(Head(wire).units)
           whole == complete \/ EndsStream(Head(wire).units)
       IN  \/ TRUE \in EndKnown /\ Finish(out, whole, FALSE)
           \/ /\ FALSE \in EndKnown
              /\ \E n \in 0 .. Len(out) :
                    /\ Decoder("decompressing", SubSeq(out, n + 1, Len(out)), whole)
                    /\ IF n = 0 THEN Continue ELSE ReturnData(SubSeq(out, 1, n))
    /\ UNCHANGED <<body, phase, headers>>

(* One it does not: the state is left Done. *)
poll_corrupt ==
    /\ Polling("decompressing") /\ HasFrame("data") /\ ~Decodes(Head(wire).units)
    /\ Pull
    /\ Decoder("done", <<>>, FALSE) /\ ReturnError
    /\ UNCHANGED <<body, phase, headers>>

poll_trailers ==
    /\ Polling("decompressing") /\ HasFrame("trailers")
    /\ Pull
    /\ Finish(held, complete, TRUE)
    /\ UNCHANGED <<body, phase, headers>>

poll_error ==
    /\ Polling("decompressing") /\ HasFrame("error")
    /\ Pull
    /\ Decoder("done", <<>>, FALSE) /\ ReturnError
    /\ UNCHANGED <<body, phase, headers>>

(* What has arrived is read first; then the failure of the connection. *)
poll_broken ==
    /\ Open /\ call # "none" /\ ~done /\ state # "last"
    /\ arrived = 0 /\ wire # <<>> /\ timer = "fired"
    /\ wire' = <<>>
    /\ Decoder("done", <<>>, FALSE) /\ ReturnError
    /\ UNCHANGED <<body, phase, headers, arrived, timer>>

poll_end ==
    /\ Polling("decompressing") /\ wire = <<>>
    /\ Finish(held, complete, FALSE)
    /\ UNCHANGED <<body, phase, headers, rawVars>>

(* Nothing is here yet: the poll returns, and any other may follow. *)
poll_pending ==
    /\ Open /\ call # "none" /\ ~done /\ state # "last"
    /\ arrived = 0 /\ wire # <<>> /\ timer # "fired"
    /\ call' = "none" /\ timer' = (IF timer = "off" THEN "running" ELSE timer)
    /\ UNCHANGED <<body, phase, headers, wire, arrived, decoderVars, cur, done, got, ended, errored>>

poll_last ==
    /\ Polling("last")
    /\ state' = "done"
    /\ Continue
    /\ UNCHANGED <<body, phase, headers, rawVars, held, complete>>

(* Done: the frames of the raw body as they are. Those of an encoded one   *)
(* (it failed to decode) are no content.                                   *)
AsIs(us) == [n \in DOMAIN us |-> IF body.gzip THEN -1 ELSE us[n]]

poll_done ==
    /\ Polling("done") /\ arrived > 0
    /\ Pull
    /\ CASE Head(wire).kind = "data" -> ReturnData(AsIs(Head(wire).units))
         [] Head(wire).kind = "trailers" -> Continue
         [] Head(wire).kind = "error" -> ReturnError
    /\ UNCHANGED <<body, phase, headers, decoderVars>>

poll_done_end ==
    /\ Polling("done") /\ wire = <<>>
    /\ ReturnNone
    /\ UNCHANGED <<body, phase, headers, rawVars, decoderVars>>

-----------------------------------------------------------------------------
(* FuseBody and ResponseBody *)

poll_fused ==
    /\ Open /\ call # "none" /\ done
    /\ ReturnNone
    /\ UNCHANGED <<body, phase, headers, rawVars, decoderVars>>

(* poll_next, poll_fill_buf: the body is polled if there is nothing left. *)
start(api) ==
    /\ Open /\ call = "none" /\ cur = <<>>
    /\ call' = api
    /\ UNCHANGED <<body, phase, headers, rawVars, decoderVars, done, cur, got, ended, errored>>

(* Mutant: poll_next looks at the body only. *)
poll_next_cur_skipped ==
    /\ Open /\ call = "none" /\ cur # <<>>
    /\ call' = "poll_next" /\ cur' = <<>>
    /\ UNCHANGED <<body, phase, headers, rawVars, decoderVars, done, got, ended, errored>>

(* poll_next: what a reader left. *)
poll_next_cur ==
    /\ Open /\ call = "none" /\ cur # <<>>
    /\ got' = got \o cur /\ cur' = <<>>
    /\ UNCHANGED <<body, phase, headers, rawVars, decoderVars, call, done, ended, errored>>

(* consume, and poll_read once poll_fill_buf has returned. *)
consume(n) ==
    /\ Open /\ call = "none" /\ n \in 1 .. Len(cur)
    /\ got' = got \o SubSeq(cur, 1, n) /\ cur' = SubSeq(cur, n + 1, Len(cur))
    /\ UNCHANGED <<body, phase, headers, rawVars, decoderVars, call, done, ended, errored>>

PollFrame ==
    \/ poll_data \/ poll_corrupt \/ poll_trailers \/ poll_error \/ poll_broken
    \/ poll_end \/ poll_pending \/ poll_last \/ poll_done \/ poll_done_end \/ poll_fused

Read == \/ \E api \in Apis : start(api)
        \/ poll_next_cur
        \/ \E n \in 1 .. Len(cur) : consume(n)

Connection == arrive \/ read_ahead \/ time_passes \/ other_traffic \/ read_timeout

Next == respond \/ fail \/ drop \/ Connection \/ PollFrame \/ Read

(* Time passes, a read that is due fails unless something arrives before   *)
(* it is polled, and the caller reads on. Nothing makes a server send, and *)
(* nothing keeps it from sending to others.                                *)
Fairness ==
    /\ WF_vars(time_passes) /\ WF_vars(read_timeout)
    /\ WF_vars(PollFrame) /\ WF_vars(Read)

Spec == Init /\ [][Next]_vars /\ Fairness

-----------------------------------------------------------------------------
(* Properties *)

Given == got \o cur

(* The end of the gzip stream, once the decoder has had it. *)
StreamEnd == IF body.gzip /\ (complete \/ state # "decompressing") THEN <<0>> ELSE <<>>

HasError(fs) == \E n \in DOMAIN fs : fs[n].kind = "error"

(* Until an error is reported, what the caller was given, what the decoder *)
(* holds and what the server has still to send are the body, whole and in  *)
(* order: no mix of stream and reader, no poll that returns Pending, no    *)
(* empty frame, no trailers and no failure on the way lose or repeat a     *)
(* unit, and nothing is undecoded.                                         *)
InOrder ==
    Open /\ ~errored =>
        Given \o held \o StreamEnd \o Units(wire) = Units(body.frames)

(* What the server meant: the content of a body that did not break off     *)
(* and, if it is encoded, is one gzip stream to its end.                   *)
Intact(b) ==
    /\ ~HasError(b.frames)
    /\ b.gzip => /\ EndsStream(Units(b.frames))
                 /\ \A n \in 1 .. Len(Units(b.frames)) - 1 : Units(b.frames)[n] > 0
Plain(b) == IF b.gzip THEN Front(Units(b.frames)) ELSE Units(b.frames)

(* The end is reported to the caller only after the whole of an intact     *)
(* body: one that is cut short or corrupt is an error first.               *)
EndIsComplete == ended /\ ~errored => Intact(body) /\ Given = Plain(body)

(* A length the caller sees is the length of what it reads. *)
LengthIsTrue == ended /\ ~errored /\ headers.length # -1 => headers.length = Len(Given)

(* A caller that keeps reading is told of the end or of an error, although *)
(* the server may stall at any point, unless the socket is read from for   *)
(* ever for the sake of something else: "This timeout applies to           *)
(* socket-level read attempts." (builder.rs:274).                          *)
Resolves ==
    \/ <>(phase \in {"failed", "dropped"} \/ ended \/ errored)
    \/ []<><<other_traffic>>_vars
=============================================================================

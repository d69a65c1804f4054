------------------------- MODULE ResponsePathProofs -------------------------
(***************************************************************************)
(* Proofs about ResponsePath, for every set of bodies a server may send,   *)
(* however they are cut into frames.                                       *)
(***************************************************************************)
EXTENDS ResponsePath, DataLemmas

Responded == phase \in {"wait-for-body", "dropped"}
Positive == Nat \ {0}

(* Nothing happens to the body before the caller has it. *)
StartInv ==
    ~Responded =>
        /\ wire = body.frames /\ state = "done"
        /\ headers = [gzip |-> body.gzip, length |-> WireLength(body)]
        /\ call = "none" /\ cur = <<>> /\ got = <<>> /\ ~ended

HeaderInv ==
    Responded => headers = [gzip |-> FALSE, length |-> IF body.gzip THEN -1 ELSE WireLength(body)]

(* A call goes to the body only if the reader has nothing left over. *)
ReaderInv == (call # "none" => cur = <<>>) /\ done = ended

(* A decoder is there only while it decodes. *)
DecoderInv ==
    /\ state # "decompressing" => held = <<>> /\ ~complete
    /\ ~body.gzip => state = "done"

(* What is on the wire ends as a body does, and an error among its frames  *)
(* is still to come until it is reported.                                  *)
WireInv ==
    /\ TrailersEnd(wire)
    /\ ~errored /\ HasError(body.frames) => HasError(wire)

Flow == Given \o held \o StreamEnd \o Units(wire) = Units(body.frames)
FlowInv == Responded /\ ~errored => Flow

(* Nothing but content comes out of a decoder. *)
ContentInv == body.gzip /\ ~errored => Given \in Seq(Positive) /\ held \in Seq(Positive)

(* The decoder and the end are given up only at the end of the wire. *)
EndInv ==
    Responded /\ ~errored =>
        /\ body.gzip /\ state # "decompressing" => wire = <<>>
        /\ ended => wire = <<>> /\ state = "done"

PathInv ==
    /\ TypeOK /\ StartInv /\ HeaderInv /\ ReaderInv /\ DecoderInv
    /\ WireInv /\ FlowInv /\ ContentInv /\ EndInv

-----------------------------------------------------------------------------
(* Sequences of units *)

(* A frame's units follow those of the frames before it. *)
LEMMA UnitsOfFrames ==
    ASSUME NEW fs \in Seq(Frames)
    PROVE  /\ Units(fs) \in Seq(Int)
           /\ fs # <<>> => /\ Head(fs) \in Frames /\ Tail(fs) \in Seq(Frames)
                           /\ Units(fs) = Head(fs).units \o Units(Tail(fs))
<1> DEFINE us(s) == [n \in DOMAIN s |-> s[n].units]
<1>1. \A s \in Seq(Frames) : us(s) \in Seq(Seq(Int)) /\ Len(us(s)) = Len(s)
  <2> SUFFICES ASSUME NEW s \in Seq(Frames) PROVE us(s) \in Seq(Seq(Int)) /\ Len(us(s)) = Len(s)
    OBVIOUS
  <2>1. Len(s) \in Nat /\ DOMAIN s = 1 .. Len(s) /\ \A n \in 1 .. Len(s) : s[n] \in Frames
    BY LenProperties, ElementOfSeq
  <2>2. \A n \in 1 .. Len(s) : s[n].units \in Seq(Int)
    BY <2>1 DEF Frames
  <2>3. us(s) \in [1 .. Len(s) -> Seq(Int)]
    BY <2>1, <2>2
  <2> HIDE DEF us
  <2> QED
    BY <2>1, <2>3, SeqDef
<1>2. Units(fs) \in Seq(Int)
  BY <1>1, FlattenType DEF Units
<1>3. ASSUME fs # <<>> PROVE Head(fs) \in Frames /\ Tail(fs) \in Seq(Frames)
  BY <1>3, HeadTailProperties
<1>4. ASSUME fs # <<>> PROVE Units(fs) = Head(fs).units \o Units(Tail(fs))
  <2>1. us(fs) # <<>> /\ Head(us(fs)) = Head(fs).units
    BY <1>1, <1>4
  <2>2. us(Tail(fs)) = Tail(us(fs))
    <3>1. us(fs) \in Seq(Seq(Int)) /\ Len(us(fs)) = Len(fs)
      BY <1>1
    <3>2. Tail(us(fs)) = [n \in 1 .. Len(fs) - 1 |-> us(fs)[n + 1]]
      BY <3>1, <2>1
    <3>3. Tail(fs) \in Seq(Frames) /\ Len(Tail(fs)) = Len(fs) - 1
          /\ \A n \in 1 .. Len(fs) - 1 : Tail(fs)[n] = fs[n + 1]
      BY <1>4, HeadTailProperties
    <3>4. DOMAIN Tail(fs) = 1 .. Len(fs) - 1 /\ DOMAIN fs = 1 .. Len(fs) /\ Len(fs) \in Nat
      BY <3>3, LenProperties
    <3>5. \A n \in 1 .. Len(fs) - 1 : n + 1 \in 1 .. Len(fs)
      BY <3>4
    <3> QED
      BY <3>2, <3>3, <3>4, <3>5
  <2>3. FlattenSeq(us(fs)) = Head(us(fs)) \o FlattenSeq(Tail(us(fs)))
    <3>1. us(fs) \in Seq(Seq(Int))
      BY <1>1
    <3> HIDE DEF us
    <3> QED
      BY <2>1, <3>1, FlattenHeadTail
  <2> QED
    BY <2>1, <2>2, <2>3 DEF Units
<1> QED
  BY <1>2, <1>3, <1>4

(* No frames, no units. *)
LEMMA NoUnits == Units(<<>>) = <<>>
  BY DEF Units, FlattenSeq

(* Sequences joined from the left or from the right. *)
LEMMA Assoc ==
    ASSUME NEW s \in Seq(Int), NEW t \in Seq(Int), NEW u \in Seq(Int)
    PROVE  (s \o t) \o u = s \o (t \o u)
  BY ConcatAssociative, SMTT(30)

(* Joined sequences are sequences, and nothing adds nothing. *)
LEMMA Joinable ==
    ASSUME NEW s \in Seq(Int), NEW t \in Seq(Int)
    PROVE  s \o t \in Seq(Int) /\ s \o <<>> = s /\ <<>> \o s = s
  BY ConcatProperties, ConcatEmptySeq

(* Units that move on from the wire to the decoder (f), and from there to  *)
(* the caller (o), stay in order.                                          *)
LEMMA FlowOn ==
    ASSUME NEW o, NEW f
    PROVE  /\ o \in Seq(Int) /\ f \in Seq(Int) /\ Units(wire') \in Seq(Int)
           /\ Given \in Seq(Int) /\ held \in Seq(Int) /\ held' \in Seq(Int)
           /\ Given' = Given \o o /\ Units(wire) = f \o Units(wire')
           /\ held \o StreamEnd \o f = o \o held' \o StreamEnd'
           /\ body' = body /\ Flow
           => Flow'
<1> DEFINE g == Given
           h == held
           e == StreamEnd
           u == Units(wire')
           hh == held'
           ee == StreamEnd'
<1>g. SUFFICES ASSUME o \in Seq(Int) /\ f \in Seq(Int) /\ u \in Seq(Int),
                      g \in Seq(Int) /\ h \in Seq(Int) /\ hh \in Seq(Int),
                      Given' = g \o o /\ Units(wire) = f \o u,
                      (h \o e) \o f = (o \o hh) \o ee,
                      body' = body /\ Flow
               PROVE  Flow'
  OBVIOUS
<1>e. e \in Seq(Int) /\ ee \in Seq(Int)
  BY DEF StreamEnd
<1>h. /\ g \in Seq(Int) /\ h \in Seq(Int) /\ e \in Seq(Int) /\ f \in Seq(Int) /\ u \in Seq(Int)
      /\ o \in Seq(Int) /\ hh \in Seq(Int) /\ ee \in Seq(Int)
      /\ (h \o e) \o f = (o \o hh) \o ee
  BY <1>g, <1>e
<1>f. Flow /\ (((g \o h) \o e) \o Units(wire) = Units(body.frames)) = Flow
  BY <1>g DEF Flow
<1>i. Flow' = ((((g \o o) \o hh) \o ee) \o u = Units(body.frames))
  BY <1>g DEF Flow
<1> HIDE DEF g, h, e, u, hh, ee
<1> DEFINE x == h \o e
           y == o \o hh
           z == y \o ee
           w == f \o u
<1>t. x \in Seq(Int) /\ y \in Seq(Int) /\ z \in Seq(Int) /\ w \in Seq(Int) /\ z = x \o f
  BY <1>h, Joinable
<1>1. (g \o h) \o e = g \o x
  <2>1. g \in Seq(Int) /\ h \in Seq(Int) /\ e \in Seq(Int)
    BY <1>h
  <2> QED
    BY <2>1, Assoc, Zenon
<1>2. (g \o o) \o hh = g \o y
  <2>1. g \in Seq(Int) /\ o \in Seq(Int) /\ hh \in Seq(Int)
    BY <1>h
  <2> QED
    BY <2>1, Assoc, Zenon
<1>3. x \o w = z \o u
  <2>1. x \in Seq(Int) /\ f \in Seq(Int) /\ u \in Seq(Int)
    BY <1>h, <1>t
  <2> HIDE DEF x
  <2>2. (x \o f) \o u = x \o (f \o u)
    BY <2>1, Assoc, Zenon
  <2> QED
    BY <1>t, <2>2, Zenon
<1>4. (g \o y) \o ee = g \o z
  <2>1. g \in Seq(Int) /\ y \in Seq(Int) /\ ee \in Seq(Int)
    BY <1>h, <1>t
  <2> HIDE DEF y
  <2> QED
    BY <2>1, Assoc, Zenon
<1> HIDE DEF x, y, z, w
<1>5. (g \o x) \o w = g \o (x \o w)
  <2>1. g \in Seq(Int) /\ x \in Seq(Int) /\ w \in Seq(Int)
    BY <1>h, <1>t
  <2> QED
    BY <2>1, Assoc, Zenon
<1>6. (g \o z) \o u = g \o (z \o u)
  <2>1. g \in Seq(Int) /\ z \in Seq(Int) /\ u \in Seq(Int)
    BY <1>h, <1>t
  <2> QED
    BY <2>1, Assoc, Zenon
<1>7. f \o u = w
  BY DEF w
<1>8. ((g \o h) \o e) \o (f \o u) = (((g \o o) \o hh) \o ee) \o u
  BY <1>1, <1>2, <1>3, <1>4, <1>5, <1>6, <1>7, Zenon
<1> QED
  BY <1>g, <1>f, <1>i, <1>8, Zenon

(* The last index but one. *)
LEMMA Before == ASSUME NEW k \in Nat, NEW n \in Int, n + 1 = k PROVE n = k - 1
  OBVIOUS

(* An index before the last. *)
LEMMA Below == ASSUME NEW k \in Nat, NEW n \in 1 .. k - 1 PROVE n \in 1 .. k /\ n # k
  OBVIOUS

(* What a decoder takes out of a frame it accepts, and the end it sees. *)
LEMMA Decoded ==
    ASSUME NEW us \in Seq(Int), \A n \in DOMAIN us : us[n] >= 0 /\ (us[n] = 0 => n = Len(us))
    PROVE  /\ Content(us) \in Seq(Positive)
           /\ us = Content(us) \o (IF EndsStream(us) THEN <<0>> ELSE <<>>)
<1>0. Len(us) \in Nat /\ DOMAIN us = 1 .. Len(us)
  BY LenProperties
<1>1. CASE EndsStream(us)
  <2>1. us # <<>> /\ us[Len(us)] = 0
    BY <1>1 DEF EndsStream, Last
  <2>2. Len(us) \in 1 .. Len(us)
    BY <2>1, EmptySeq
  <2>3. \A n \in 1 .. Len(us) - 1 : us[n] \in Positive
    <3> SUFFICES ASSUME NEW n \in 1 .. Len(us) - 1 PROVE us[n] \in Positive
      OBVIOUS
    <3>1. n \in 1 .. Len(us) /\ n # Len(us)
      BY <1>0, Below
    <3>2. us[n] >= 0 /\ us[n] # 0 /\ us[n] \in Int
      BY <1>0, <3>1, ElementOfSeq
    <3> QED
      BY <3>2 DEF Positive
  <2>4. SubSeq(us, 1, Len(us) - 1) \in Seq(Positive)
    BY <1>0, <2>3, SubSeqProperties
  <2>5. us = SubSeq(us, 1, Len(us) - 1) \o <<us[Len(us)]>>
    <3>1. SubSeq(us, 1, Len(us)) = us
      BY SubSeqFull
    <3>2. 1 \in 1 .. Len(us) /\ Len(us) \in 1 .. Len(us)
      BY <1>0, <2>2
    <3>3. SubSeq(us, 1, Len(us)) = SubSeq(us, 1, Len(us) - 1) \o <<us[Len(us)]>>
      BY <3>2, SubSeqRecursiveSecond
    <3> QED
      BY <3>1, <3>3
  <2> QED
    BY <1>1, <2>1, <2>4, <2>5 DEF Content, Front
<1>2. CASE ~EndsStream(us)
  <2>1. \A n \in 1 .. Len(us) : us[n] \in Positive
    <3> SUFFICES ASSUME NEW n \in 1 .. Len(us) PROVE us[n] \in Positive
      OBVIOUS
    <3>1. us[n] \in Int /\ us[n] >= 0 /\ (us[n] = 0 => n = Len(us))
      BY <1>0, ElementOfSeq
    <3>2. us # <<>>
      BY <1>0, EmptySeq
    <3>3. us[Len(us)] # 0
      BY <1>2, <3>2 DEF EndsStream, Last
    <3> QED
      BY <3>1, <3>3 DEF Positive
  <2>2. us \in Seq(Positive)
    <3>1. us \in [1 .. Len(us) -> Positive]
      BY <1>0, <2>1, LenProperties
    <3> QED
      BY <1>0, <3>1, SeqDef
  <2> QED
    BY <1>2, <2>2, Joinable DEF Content
<1> QED
  BY <1>1, <1>2

-----------------------------------------------------------------------------
(* What the parts of a poll do *)

(* A frame is taken off the wire. *)
LEMMA Pulled ==
    ASSUME TypeOK, TrailersEnd(wire), arrived > 0, Pull
    PROVE  /\ wire # <<>> /\ Head(wire) \in Frames
           /\ wire' \in Seq(Frames) /\ arrived' \in 0 .. Len(wire') /\ TrailersEnd(wire')
           /\ Units(wire) = Head(wire).units \o Units(wire')
           /\ HasError(wire') => HasError(wire)
           /\ HasError(wire) /\ Head(wire).kind # "error" => HasError(wire')
           /\ Head(wire).kind = "trailers" => wire' = <<>> /\ Head(wire).units = <<>>
<1>0. wire \in Seq(Frames) /\ Len(wire) \in Nat /\ DOMAIN wire = 1 .. Len(wire)
  BY LenProperties DEF TypeOK
<1>1. arrived \in 1 .. Len(wire) /\ wire # <<>> /\ Len(wire) # 0
  BY <1>0, EmptySeq DEF TypeOK
<1>2. /\ wire' = Tail(wire) /\ wire' \in Seq(Frames) /\ Len(wire') = Len(wire) - 1
      /\ \A n \in 1 .. Len(wire) - 1 : wire'[n] = wire[n + 1]
      /\ arrived' = arrived - 1
  BY <1>0, <1>1, HeadTailProperties DEF Pull
<1>3. DOMAIN wire' = 1 .. Len(wire) - 1
  BY <1>2, LenProperties
<1>4. \A n \in 1 .. Len(wire) - 1 : n + 1 \in 1 .. Len(wire) /\ n + 1 # 1
  BY <1>0
<1>5. Head(wire) = wire[1] /\ 1 \in DOMAIN wire /\ 1 = Len(wire) => wire' = <<>>
  BY <1>0, <1>1, <1>2, EmptySeq
<1>6. arrived' \in 0 .. Len(wire')
  BY <1>0, <1>1, <1>2
<1>7. TrailersEnd(wire')
  <2> SUFFICES ASSUME NEW n \in 1 .. Len(wire) - 1, wire'[n].kind = "trailers"
               PROVE  n = Len(wire) - 1 /\ wire'[n].units = <<>>
    BY <1>2, <1>3 DEF TrailersEnd
  <2>1. n + 1 = Len(wire) /\ wire[n + 1].units = <<>>
    BY <1>0, <1>2, <1>4 DEF TrailersEnd
  <2>2. wire'[n] = wire[n + 1] /\ n \in Int
    BY <1>2
  <2>3. n = Len(wire) - 1
    BY <1>0, <2>1, <2>2, Before
  <2> QED
    BY <2>1, <2>2, <2>3
<1>8. HasError(wire') => HasError(wire)
  BY <1>0, <1>2, <1>3, <1>4 DEF HasError
<1>9. ASSUME HasError(wire), Head(wire).kind # "error" PROVE HasError(wire')
  <2>1. PICK n \in 1 .. Len(wire) : wire[n].kind = "error"
    BY <1>0, <1>9 DEF HasError
  <2>2. n # 1
    BY <1>0, <1>1, <1>9, <2>1
  <2>3. n - 1 \in 1 .. Len(wire) - 1 /\ (n - 1) + 1 = n
    BY <1>0, <2>2
  <2>4. wire'[n - 1] = wire[n]
    BY <1>2, <2>3
  <2> QED
    BY <1>3, <2>1, <2>3, <2>4 DEF HasError
<1>10. Head(wire).kind = "trailers" => wire' = <<>> /\ Head(wire).units = <<>>
  BY <1>0, <1>1, <1>5 DEF TrailersEnd
<1>11. Head(wire) \in Frames /\ Units(wire) = Head(wire).units \o Units(wire')
  BY <1>0, <1>1, <1>2, UnitsOfFrames
<1> QED
  BY <1>1, <1>2, <1>6, <1>7, <1>8, <1>9, <1>10, <1>11

(* What is returned to the caller is added to what it was given. *)
LEMMA ReturnedData ==
    ASSUME TypeOK, ReaderInv, call # "none", NEW d \in Seq(Int), ReturnData(d)
    PROVE  /\ Given' = Given \o d
           /\ got' \in Seq(Int) /\ cur' \in Seq(Int) /\ call' \in Apis \cup {"none"}
           /\ call' # "none" => cur' = <<>>
           /\ UNCHANGED <<done, ended, errored>>
<1>0. cur = <<>> /\ got \in Seq(Int) /\ call \in Apis \cup {"none"}
  BY DEF ReaderInv, TypeOK
<1>1. Given = got
  BY <1>0, Joinable DEF Given
<1>2. CASE call = "poll_fill_buf"
  <2>1. cur' = d /\ got' = got /\ call' = (IF d = <<>> THEN call ELSE "none")
        /\ UNCHANGED <<done, ended, errored>>
    BY <1>2 DEF ReturnData, Settled
  <2> QED
    BY <1>0, <1>1, <2>1 DEF Given
<1>3. CASE call # "poll_fill_buf"
  <2>1. got' = got \o d /\ cur' = cur /\ call' = "none" /\ UNCHANGED <<done, ended, errored>>
    BY <1>3 DEF ReturnData, Settled
  <2>2. got' \in Seq(Int) /\ got' \o <<>> = got'
    BY <1>0, <2>1, Joinable
  <2> QED
    BY <1>0, <1>1, <2>1, <2>2 DEF Given
<1> QED
  BY <1>2, <1>3

(* So a caller that is given nothing has what it had. *)
LEMMA ReturnedNothing ==
    ASSUME TypeOK, NEW d, d = <<>>, UNCHANGED <<got, cur>>
    PROVE  Given' = Given \o d
<1>1. Given \in Seq(Int)
  BY Joinable DEF Given, TypeOK
<1> QED
  BY <1>1, Joinable DEF Given

(* A poll that finishes the decoder returns all of it, or an error. *)
LEMMA Finished ==
    ASSUME TypeOK, ReaderInv, call # "none", NEW out \in Seq(Int), NEW whole \in BOOLEAN,
           NEW trailers \in BOOLEAN, Finish(out, whole, trailers)
    PROVE  /\ state' \in {"last", "done"} /\ held' = <<>> /\ complete' = FALSE
           /\ got' \in Seq(Int) /\ cur' \in Seq(Int) /\ call' \in Apis \cup {"none"}
           /\ call' # "none" => cur' = <<>>
           /\ \/ UNCHANGED <<done, ended>>
              \/ done' = TRUE /\ ended' = TRUE /\ state' = "done"
           /\ \/ errored' = TRUE
              \/ errored' = errored /\ whole /\ Given' = Given \o out
<1>0. /\ cur = <<>> /\ got \in Seq(Int) /\ call \in Apis \cup {"none"}
  BY DEF ReaderInv, TypeOK
<1>1. CASE ~whole
  <2>1. Decoder("done", <<>>, FALSE) /\ ReturnError
    BY <1>1 DEF Finish
  <2> QED
    BY <1>0, <2>1 DEF Decoder, ReturnError
<1>2. CASE whole /\ out # <<>>
  <2>1. Decoder(IF trailers THEN "last" ELSE "done", <<>>, FALSE) /\ ReturnData(out)
    BY <1>2 DEF Finish
  <2> QED
    BY <1>2, <2>1, ReturnedData DEF Decoder
<1>3. CASE whole /\ out = <<>>
  <2>1. Decoder("done", <<>>, FALSE) /\ (IF trailers THEN Continue ELSE ReturnNone)
    BY <1>3 DEF Finish
  <2>2. UNCHANGED <<got, cur, errored>> /\ call' \in {call, "none"}
        /\ (UNCHANGED <<done, ended>> \/ (done' = TRUE /\ ended' = TRUE))
    BY <2>1 DEF Continue, ReturnNone, callerVars
  <2>3. Given' = Given \o out
    BY <1>3, <2>2, ReturnedNothing
  <2> QED
    BY <1>0, <1>3, <2>1, <2>2, <2>3 DEF Decoder
<1> QED
  BY <1>1, <1>2, <1>3

-----------------------------------------------------------------------------
(* A step keeps the invariant *)

(* A step that takes f off the wire and gives o to the caller, or errs. *)
Moves(o, f) ==
    /\ UNCHANGED <<body, phase, headers>>
    /\ (TypeOK /\ ReaderInv /\ DecoderInv)' /\ TrailersEnd(wire')
    /\ ~errored' =>
          /\ ~errored
          /\ Units(wire) = f \o Units(wire') /\ (HasError(wire') <=> HasError(wire))
          /\ Given' = Given \o o
          /\ held \o StreamEnd \o f = o \o held' \o StreamEnd'
          /\ body.gzip => o \in Seq(Positive) /\ held' \in Seq(Positive)
          /\ body.gzip /\ state' # "decompressing" => wire' = <<>>
          /\ ended' => wire' = <<>> /\ state' = "done"

(* Such a step keeps units in order and loses none. *)
LEMMA MovesKeep ==
    ASSUME NEW o \in Seq(Int), NEW f \in Seq(Int), PathInv, Open, Moves(o, f)
    PROVE  PathInv'
<1>1. (TypeOK /\ ReaderInv /\ DecoderInv)' /\ UNCHANGED <<body, phase, headers>> /\ TrailersEnd(wire')
  BY DEF Moves
<1>2. Responded /\ Responded' /\ StartInv' /\ HeaderInv'
  BY <1>1 DEF PathInv, Open, Responded, StartInv, HeaderInv
<1>3. CASE errored'
  BY <1>1, <1>2, <1>3 DEF PathInv, WireInv, FlowInv, ContentInv, EndInv
<1>4. CASE ~errored'
  <2>1. /\ ~errored
        /\ Units(wire) = f \o Units(wire') /\ (HasError(wire') <=> HasError(wire))
        /\ Given' = Given \o o
        /\ held \o StreamEnd \o f = o \o held' \o StreamEnd'
        /\ body.gzip => o \in Seq(Positive) /\ held' \in Seq(Positive)
        /\ body.gzip /\ state' # "decompressing" => wire' = <<>>
        /\ ended' => wire' = <<>> /\ state' = "done"
    BY <1>4 DEF Moves
  <2>2. WireInv'
    BY <1>1, <2>1 DEF PathInv, WireInv
  <2>3. FlowInv'
    <3> SUFFICES Flow'
      BY DEF FlowInv
    <3>1. Flow
      BY <1>2, <2>1 DEF PathInv, FlowInv
    <3>2. Units(wire') \in Seq(Int) /\ Given \in Seq(Int) /\ held \in Seq(Int) /\ held' \in Seq(Int)
      <4>1. wire' \in Seq(Frames) /\ got \in Seq(Int) /\ cur \in Seq(Int)
        BY <1>1 DEF PathInv, TypeOK
      <4> QED
        BY <1>1, <4>1, UnitsOfFrames, Joinable DEF Given, PathInv, TypeOK
    <3> QED
      BY <1>1, <2>1, <3>1, <3>2, FlowOn
  <2>4. ContentInv'
    <3> SUFFICES ASSUME body.gzip PROVE Given' \in Seq(Positive) /\ held' \in Seq(Positive)
      BY <1>1 DEF ContentInv
    <3>1. Given \in Seq(Positive) /\ o \in Seq(Positive)
      BY <2>1 DEF PathInv, ContentInv
    <3> HIDE DEF Positive
    <3> QED
      BY <2>1, <3>1, ConcatProperties
  <2>5. EndInv'
    BY <1>1, <2>1 DEF EndInv
  <2> QED
    BY <1>1, <1>2, <2>2, <2>3, <2>4, <2>5 DEF PathInv
<1> QED
  BY <1>3, <1>4

(* Before anything arrived there is nothing to lose. *)
LEMMA InitPath == Init => PathInv
<1> SUFFICES ASSUME Init PROVE PathInv
  OBVIOUS
<1>0. body.gzip \in BOOLEAN /\ body.frames \in Seq(Frames) /\ TrailersEnd(body.frames)
  BY BodiesAssumption DEF Init
<1>1. Units(body.frames) \in Seq(Int) /\ WireLength(body) \in Nat /\ Len(body.frames) \in Nat
  BY <1>0, UnitsOfFrames, LenProperties DEF WireLength
<1>2. Given = <<>>
  BY Joinable DEF Init, Given
<1>3. TypeOK
  <2>1. headers \in [gzip : BOOLEAN, length : Nat \cup {-1}] /\ arrived \in 0 .. Len(wire)
    BY <1>0, <1>1 DEF Init
  <2>2. <<>> \in Seq(Int) /\ timer \in Timers
    BY EmptySeq DEF Init, Timers
  <2> QED
    BY <1>0, <2>1, <2>2, Zenon DEF Init, TypeOK
<1>4. StartInv /\ HeaderInv /\ FlowInv /\ EndInv
  BY DEF Init, StartInv, HeaderInv, FlowInv, EndInv, Responded
<1>5. ReaderInv /\ DecoderInv /\ WireInv
  BY <1>0 DEF Init, ReaderInv, DecoderInv, WireInv
<1>6. ContentInv
  BY <1>2 DEF Init, ContentInv, Positive
<1> QED
  BY <1>3, <1>4, <1>5, <1>6 DEF PathInv

(* The headers arrive: a decoder is made for an encoded body. *)
LEMMA StepRespond == PathInv /\ respond => PathInv'
<1> SUFFICES ASSUME PathInv, respond PROVE PathInv'
  OBVIOUS
<1>1. /\ phase = "wait-for-headers" /\ phase' = "wait-for-body" /\ headers' = Entity(headers)
      /\ state' = IF headers.gzip THEN "decompressing" ELSE "done"
      /\ timer' \in Timers
      /\ UNCHANGED <<body, wire, arrived, held, complete, call, cur, done, got, ended, errored>>
  BY DEF respond, callerVars, Timers
<1>2. ~Responded /\ Responded'
  BY <1>1 DEF Responded
<1>3. /\ wire = body.frames /\ state = "done" /\ held = <<>> /\ ~complete
      /\ headers = [gzip |-> body.gzip, length |-> WireLength(body)]
      /\ cur = <<>> /\ got = <<>> /\ call = "none" /\ ~ended
  BY <1>2 DEF PathInv, StartInv, DecoderInv
<1>0. body.gzip \in BOOLEAN /\ body.frames \in Seq(Frames) /\ TrailersEnd(body.frames)
  BY BodiesAssumption DEF PathInv, TypeOK
<1>4. Units(body.frames) \in Seq(Int) /\ WireLength(body) \in Nat
  BY <1>0, UnitsOfFrames DEF WireLength
<1>5. headers' = [gzip |-> FALSE, length |-> IF body.gzip THEN -1 ELSE WireLength(body)]
  BY <1>0, <1>1, <1>3 DEF Entity
<1>6. TypeOK'
  BY <1>1, <1>4, <1>5 DEF PathInv, TypeOK
<1>7. Given' = <<>> /\ StreamEnd' = <<>>
  <2>1. complete' = FALSE /\ (body'.gzip => state' = "decompressing")
    BY <1>1, <1>3
  <2> QED
    BY <1>1, <1>3, <2>1, Joinable DEF Given, StreamEnd
<1>8. Flow'
  <2>1. Given' \o held' \o StreamEnd' \o Units(wire') = Units(body.frames)
    <3>1. <<>> \in Seq(Int) /\ <<>> \o <<>> = <<>>
      BY Joinable
    <3>2. <<>> \o Units(body.frames) = Units(body.frames)
      BY <1>4, Joinable
    <3> QED
      BY <1>1, <1>3, <1>7, <3>1, <3>2
  <2> QED
    BY <1>1, <2>1 DEF Flow
<1>9. WireInv' /\ FlowInv' /\ ContentInv'
  BY <1>1, <1>3, <1>7, <1>8 DEF PathInv, WireInv, FlowInv, ContentInv, Positive
<1>10. StartInv' /\ HeaderInv' /\ ReaderInv' /\ DecoderInv' /\ EndInv'
  BY <1>0, <1>1, <1>2, <1>3, <1>5
  DEF PathInv, StartInv, HeaderInv, ReaderInv, DecoderInv, EndInv, Responded
<1> QED
  BY <1>6, <1>9, <1>10 DEF PathInv

(* The other steps of the call and the connection leave what is still to   *)
(* come in place.                                                          *)
LEMMA StepConnection == PathInv /\ (fail \/ drop \/ Connection \/ UNCHANGED vars) => PathInv'
<1> SUFFICES ASSUME PathInv, fail \/ drop \/ Connection \/ UNCHANGED vars PROVE PathInv'
  OBVIOUS
<1> USE DEF Connection
<1>0. /\ UNCHANGED <<body, headers, wire, state, held, complete, call, cur, done, got, ended, errored>>
      /\ Given' = Given /\ StreamEnd' = StreamEnd
  BY DEF fail, drop, arrive, read_ahead, time_passes, other_traffic, read_timeout, OnlyTimer, vars,
     rawVars, decoderVars, callerVars, Given, StreamEnd
<1>1. /\ timer' \in Timers /\ Responded' = Responded
      /\ phase' \in {"wait-for-headers", "wait-for-body", "failed", "dropped"}
  <2>1. phase \in {"wait-for-headers", "wait-for-body", "failed", "dropped"} /\ timer \in Timers
    BY DEF PathInv, TypeOK
  <2> QED
    BY <2>1 DEF fail, drop, arrive, read_ahead, time_passes, other_traffic, read_timeout, OnlyTimer,
       vars, rawVars, Timers, Responded, Open
<1>2. arrived' \in 0 .. Len(wire)
  <2>1. Len(wire) \in Nat /\ arrived \in 0 .. Len(wire)
    BY LenProperties DEF PathInv, TypeOK
  <2> QED
    BY <2>1 DEF fail, drop, arrive, read_ahead, time_passes, other_traffic, read_timeout, OnlyTimer,
       vars, rawVars
<1>3. TypeOK'
  BY <1>0, <1>1, <1>2, Zenon DEF PathInv, TypeOK
<1>4. (StartInv /\ HeaderInv /\ ReaderInv /\ DecoderInv /\ WireInv /\ EndInv)'
  BY <1>0, <1>1 DEF PathInv, StartInv, HeaderInv, ReaderInv, DecoderInv, WireInv, EndInv
<1>5. (FlowInv /\ ContentInv)'
  BY <1>0, <1>1 DEF PathInv, FlowInv, ContentInv, Flow
<1> QED
  BY <1>3, <1>4, <1>5 DEF PathInv

(* The caller reads from what ResponseBody has left over. *)
LEMMA StepRead == PathInv /\ Read => PathInv'
<1> SUFFICES ASSUME PathInv, Read PROVE PathInv'
  OBVIOUS
<1>0. got \in Seq(Int) /\ cur \in Seq(Int) /\ Len(cur) \in Nat
  BY LenProperties DEF PathInv, TypeOK
<1>1. ASSUME /\ UNCHANGED <<body, phase, headers, wire, arrived, timer, state, held, complete, done, ended, errored>>
             /\ Given' = Given
             /\ got' \in Seq(Int) /\ cur' \in Seq(Int)
             /\ call' \in Apis \cup {"none"} /\ (call' # "none" => cur' = <<>>)
             /\ Responded
      PROVE  PathInv'
  <2>1. StreamEnd' = StreamEnd
    BY <1>1 DEF StreamEnd
  <2>2. TypeOK'
    BY <1>1 DEF PathInv, TypeOK
  <2>3. (StartInv /\ HeaderInv /\ ReaderInv /\ DecoderInv /\ WireInv /\ EndInv)'
    BY <1>1 DEF PathInv, StartInv, HeaderInv, ReaderInv, DecoderInv, WireInv, EndInv, Responded
  <2>4. (FlowInv /\ ContentInv)'
    BY <1>1, <2>1 DEF PathInv, FlowInv, ContentInv, Flow, Responded
  <2> QED
    BY <2>2, <2>3, <2>4 DEF PathInv
<1>2. ASSUME NEW api \in Apis, start(api) PROVE PathInv'
  BY <1>0, <1>1, <1>2 DEF start, rawVars, decoderVars, Given, Open, Responded
<1>3. CASE poll_next_cur
  <2>1. /\ UNCHANGED <<body, phase, headers, wire, arrived, timer, state, held, complete, done, ended, errored, call>>
        /\ got' = got \o cur /\ cur' = <<>> /\ Responded
    BY <1>3 DEF poll_next_cur, rawVars, decoderVars, Open, Responded
  <2>2. got' \in Seq(Int) /\ Given' = Given
    BY <1>0, <2>1, Joinable DEF Given
  <2> QED
    BY <1>1, <2>1, <2>2, EmptySeq DEF PathInv, TypeOK
<1>4. ASSUME NEW n \in 1 .. Len(cur), consume(n) PROVE PathInv'
  <2> DEFINE a == SubSeq(cur, 1, n)
             b == SubSeq(cur, n + 1, Len(cur))
  <2>1. /\ UNCHANGED <<body, phase, headers, wire, arrived, timer, state, held, complete, done, ended, errored, call>>
        /\ got' = got \o a /\ cur' = b /\ Responded /\ call = "none"
    BY <1>4 DEF consume, rawVars, decoderVars, Open, Responded
  <2>2. a \in Seq(Int) /\ b \in Seq(Int) /\ a \o b = cur
    <3>0. n \in Nat /\ 1 \in 1 .. Len(cur) + 1 /\ n \in 1 - 1 .. Len(cur) /\ Len(cur) \in n .. Len(cur)
      BY <1>0
    <3>1. a \o b = SubSeq(cur, 1, Len(cur))
      BY <1>0, <3>0, ConcatAdjacentSubSeq
    <3>2. SubSeq(cur, 1, Len(cur)) = cur
      BY <1>0, SubSeqFull
    <3>3. \A i \in 1 .. Len(cur) : cur[i] \in Int
      BY <1>0, ElementOfSeq
    <3>4. a \in Seq(Int) /\ b \in Seq(Int)
      BY <1>0, <3>3
    <3> QED
      BY <3>1, <3>2, <3>4
  <2> HIDE DEF a, b
  <2>3. got' \in Seq(Int)
    BY <1>0, <2>1, <2>2, Joinable
  <2>a. got \in Seq(Int) /\ a \in Seq(Int) /\ b \in Seq(Int)
    BY <1>0, <2>2
  <2>b. (got \o a) \o b = got \o (a \o b)
    BY <2>a, Assoc, Zenon
  <2>4. Given' = Given
    BY <2>1, <2>2, <2>b DEF Given
  <2> QED
    BY <1>1, <2>1, <2>2, <2>3, <2>4
<1> QED
  BY <1>2, <1>3, <1>4 DEF Read

(* Content is made of units. *)
LEMMA PositiveSeq == ASSUME NEW s \in Seq(Positive) PROVE s \in Seq(Int)
<1>1. s \in [1 .. Len(s) -> Positive] /\ Len(s) \in Nat
  BY LenProperties
<1>2. s \in [1 .. Len(s) -> Int]
  BY <1>1 DEF Positive
<1> QED
  BY <1>1, <1>2, SeqDef

(* A frame that is accepted: what was held, and the end that was seen, and *)
(* the frame, are what is decoded and the end that is seen.                *)
LEMMA DecodedFrame ==
    ASSUME held \in Seq(Int), body.gzip, state = "decompressing", complete \in BOOLEAN,
           NEW f \in Seq(Int), Decodes(f)
    PROVE  /\ Content(f) \in Seq(Positive) /\ held \o Content(f) \in Seq(Int)
           /\ held \o StreamEnd \o f
                 = (held \o Content(f)) \o (IF complete \/ EndsStream(f) THEN <<0>> ELSE <<>>)
<1> DEFINE end == IF EndsStream(f) THEN <<0>> ELSE <<>>
<1>1. Content(f) \in Seq(Positive) /\ f = Content(f) \o end
  BY Decoded DEF Decodes
<1>2. Content(f) \in Seq(Int)
  BY <1>1, PositiveSeq
<1>3. end \in Seq(Int)
  OBVIOUS
<1>4. CASE complete
  <2>1. f = <<>> /\ StreamEnd = <<0>> /\ ~EndsStream(f) /\ Content(f) = <<>>
    BY <1>4 DEF Decodes, StreamEnd, EndsStream, Content
  <2>2. held \o <<>> = held /\ held \o <<0>> \in Seq(Int) /\ (held \o <<0>>) \o <<>> = held \o <<0>>
    <3>1. <<0>> \in Seq(Int)
      OBVIOUS
    <3> QED
      BY <3>1, Joinable
  <2> QED
    BY <1>1, <1>4, <2>1, <2>2
<1>5. CASE ~complete
  <2>1. StreamEnd = <<>> /\ held \o <<>> = held
    BY <1>5, Joinable DEF StreamEnd
  <2>2. (held \o Content(f)) \o end = held \o (Content(f) \o end)
    <3> DEFINE c == Content(f)
    <3>1. held \in Seq(Int) /\ c \in Seq(Int) /\ end \in Seq(Int)
      BY <1>2, <1>3
    <3> HIDE DEF c, end
    <3>2. (held \o c) \o end = held \o (c \o end)
      BY <3>1, Assoc, Zenon
    <3> QED
      BY <3>2 DEF c
  <2> QED
    BY <1>1, <1>2, <1>5, <2>1, <2>2, Joinable
<1> QED
  BY <1>1, <1>2, <1>4, <1>5, Joinable

(* A poll that errs. *)
LEMMA StepError ==
    ASSUME PathInv, Open, call # "none", Decoder("done", <<>>, FALSE), ReturnError,
           wire' \in Seq(Frames), arrived' \in 0 .. Len(wire'), TrailersEnd(wire'),
           UNCHANGED <<body, phase, headers, timer>>
    PROVE  PathInv'
<1>1. TypeOK /\ ReaderInv /\ DecoderInv
  BY DEF PathInv
<1>2. /\ state' = "done" /\ held' = <<>> /\ complete' = FALSE
      /\ errored' = TRUE /\ call' = "none" /\ UNCHANGED <<done, cur, got, ended>>
  BY DEF Decoder, ReturnError
<1>3. TypeOK'
  <2>1. <<>> \in Seq(Int)
    BY EmptySeq
  <2> QED
    BY <1>1, <1>2, <2>1, Zenon DEF TypeOK
<1>4. ReaderInv' /\ DecoderInv'
  BY <1>1, <1>2 DEF ReaderInv, DecoderInv
<1>5. Moves(<<>>, <<>>)
  BY <1>2, <1>3, <1>4 DEF Moves
<1> QED
  BY <1>5, MovesKeep, EmptySeq

(* A poll that finishes the decoder, when it has taken f, the last of the  *)
(* wire, and all that is decoded is out.                                   *)
LEMMA StepFinish ==
    ASSUME PathInv, Polling("decompressing"),
           UNCHANGED <<body, phase, headers, timer>>,
           wire' = <<>>, arrived' = 0, ~HasError(wire),
           NEW f \in Seq(Int), Units(wire) = f \o Units(wire'),
           NEW out \in Seq(Int), NEW whole \in BOOLEAN, NEW trailers \in BOOLEAN,
           body.gzip /\ ~errored => out \in Seq(Positive),
           held \o StreamEnd \o f = out \o (IF whole THEN << 0 >> ELSE <<>>),
           Finish(out, whole, trailers)
    PROVE  PathInv'
<1>1. /\ TypeOK /\ ReaderInv /\ DecoderInv /\ Open /\ call # "none" /\ body.gzip /\ ~ended
  BY DEF PathInv, Polling, DecoderInv, ReaderInv
<1>2. /\ state' \in {"last", "done"} /\ held' = <<>> /\ complete' = FALSE
      /\ got' \in Seq(Int) /\ cur' \in Seq(Int) /\ call' \in Apis \cup {"none"}
      /\ call' # "none" => cur' = <<>>
      /\ \/ UNCHANGED <<done, ended>>
         \/ done' = TRUE /\ ended' = TRUE /\ state' = "done"
      /\ \/ errored' = TRUE
         \/ errored' = errored /\ whole /\ Given' = Given \o out
  BY <1>1, Finished
<1>3. TypeOK'
  <2>1. <<>> \in Seq(Int) /\ <<>> \in Seq(Frames) /\ 0 \in 0 .. Len(<<>>)
    BY EmptySeq
  <2>2. done' \in BOOLEAN /\ ended' \in BOOLEAN /\ errored' \in BOOLEAN
    BY <1>1, <1>2, Zenon DEF TypeOK
  <2> QED
    BY <1>1, <1>2, <2>1, <2>2, Zenon DEF TypeOK
<1>4. ReaderInv' /\ DecoderInv'
  BY <1>1, <1>2 DEF ReaderInv, DecoderInv
<1>5. TrailersEnd(wire') /\ ~HasError(wire')
  BY DEF TrailersEnd, HasError
<1>6. ASSUME ~errored' PROVE ~errored /\ whole /\ Given' = Given \o out
  BY <1>2, <1>6
<1>7. ASSUME ~errored' PROVE held \o StreamEnd \o f = out \o held' \o StreamEnd'
  <2>1. StreamEnd' = <<0>>
    BY <1>1, <1>2 DEF StreamEnd
  <2>2. out \o <<>> = out
    BY Joinable
  <2> QED
    BY <1>2, <1>6, <1>7, <2>1, <2>2
<1>8. <<>> \in Seq(Positive) /\ (HasError(wire') <=> HasError(wire))
  BY <1>5, EmptySeq
<1>9. ASSUME ~errored' PROVE out \in Seq(Positive) /\ held' \in Seq(Positive) /\ (ended' => state' = "done")
  BY <1>1, <1>2, <1>6, <1>8, <1>9
<1>10. Moves(out, f)
  BY <1>3, <1>4, <1>5, <1>6, <1>7, <1>8, <1>9, Zenon DEF Moves
<1> QED
  BY <1>1, <1>10, MovesKeep

(* A data frame that the decoder accepts. *)
LEMMA StepData == PathInv /\ poll_data => PathInv'
<1> SUFFICES ASSUME PathInv, poll_data PROVE PathInv'
  OBVIOUS
<1> DEFINE f == Head(wire).units
           out == held \o Content(f)
           whole == complete \/ EndsStream(f)
<1>1. /\ TypeOK /\ ReaderInv /\ DecoderInv /\ TrailersEnd(wire)
      /\ Polling("decompressing") /\ Open /\ call # "none" /\ state = "decompressing" /\ body.gzip /\ ~ended
      /\ arrived > 0 /\ Head(wire).kind = "data" /\ Decodes(f) /\ Pull
      /\ UNCHANGED <<body, phase, headers, timer>>
  BY DEF PathInv, WireInv, DecoderInv, ReaderInv, poll_data, Polling, HasFrame, Pull
<1>2. /\ wire # <<>> /\ Head(wire) \in Frames
      /\ wire' \in Seq(Frames) /\ arrived' \in 0 .. Len(wire') /\ TrailersEnd(wire')
      /\ Units(wire) = f \o Units(wire') /\ (HasError(wire') <=> HasError(wire))
  BY <1>1, Pulled
<1>3. f \in Seq(Int)
  BY <1>2 DEF Frames
<1>4. /\ Content(f) \in Seq(Positive) /\ out \in Seq(Int) /\ whole \in BOOLEAN
      /\ held \o StreamEnd \o f = out \o (IF whole THEN <<0>> ELSE <<>>)
  <2>1. held \in Seq(Int) /\ complete \in BOOLEAN
    BY <1>1 DEF TypeOK
  <2>2. whole \in BOOLEAN
    BY DEF EndsStream
  <2> QED
    BY <1>1, <1>3, <2>1, <2>2, DecodedFrame
<1>5. ASSUME ~errored PROVE out \in Seq(Positive)
  <2>1. held \in Seq(Positive)
    BY <1>1, <1>5 DEF PathInv, ContentInv
  <2> HIDE DEF Positive
  <2> QED
    BY <1>4, <2>1, ConcatProperties
<1>6. CASE TRUE \in EndKnown /\ Finish(out, whole, FALSE)
  <2>1. wire' = <<>>
    BY <1>1, <1>6 DEF EndKnown, Pull
  <2>2. arrived' = 0 /\ ~HasError(wire')
    BY <1>2, <2>1 DEF HasError
  <2> HIDE DEF f, out, whole
  <2> QED
    BY <1>1, <1>2, <1>3, <1>4, <1>5, <1>6, <2>1, <2>2, StepFinish
<1>7. ASSUME NEW n \in 0 .. Len(out),
             Decoder("decompressing", SubSeq(out, n + 1, Len(out)), whole),
             IF n = 0 THEN Continue ELSE ReturnData(SubSeq(out, 1, n))
      PROVE  PathInv'
  <2> DEFINE o == SubSeq(out, 1, n)
             rest == SubSeq(out, n + 1, Len(out))
  <2>0. Len(out) \in Nat /\ n \in Nat
    BY <1>4, LenProperties
  <2>1. /\ o \in Seq(Int) /\ rest \in Seq(Int) /\ o \o rest = out
        /\ ~errored => o \in Seq(Positive) /\ rest \in Seq(Positive)
        /\ n = 0 => o = <<>>
    <3> HIDE DEF out
    <3>1. o \o rest = out
      <4>1. 1 \in 1 .. Len(out) + 1 /\ n \in 1 - 1 .. Len(out) /\ Len(out) \in n .. Len(out)
        BY <2>0
      <4>2. o \o rest = SubSeq(out, 1, Len(out))
        BY <1>4, <4>1, ConcatAdjacentSubSeq
      <4> QED
        BY <1>4, <4>2, SubSeqFull
    <3>2. \A i \in 1 .. Len(out) : out[i] \in Int /\ (~errored => out[i] \in Positive)
      BY <1>4, <1>5, ElementOfSeq
    <3>3. \A i \in 1 .. n : i \in 1 .. Len(out)
      BY <2>0
    <3>4. \A i \in n + 1 .. Len(out) : i \in 1 .. Len(out)
      BY <2>0
    <3>5. o \in Seq(Int) /\ (~errored => o \in Seq(Positive))
      BY <2>0, <3>2, <3>3, SubSeqProperties
    <3>6. rest \in Seq(Int) /\ (~errored => rest \in Seq(Positive))
      BY <2>0, <3>2, <3>4, SubSeqProperties
    <3>7. n = 0 => o = <<>>
      BY SubSeqEmpty
    <3> QED
      BY <3>1, <3>5, <3>6, <3>7
  <2>2. state' = "decompressing" /\ held' = rest /\ complete' = whole
    BY <1>7 DEF Decoder
  <2> HIDE DEF f, out, whole, o, rest
  <2>3. /\ Given' = Given \o o
        /\ got' \in Seq(Int) /\ cur' \in Seq(Int) /\ call' \in Apis \cup {"none"}
        /\ call' # "none" => cur' = <<>>
        /\ UNCHANGED <<done, ended, errored>>
    <3>1. CASE n = 0
      <4>1. UNCHANGED <<call, cur, done, got, ended, errored>> /\ o = <<>>
        BY <1>7, <2>1, <3>1 DEF Continue, callerVars
      <4> QED
        BY <1>1, <4>1, ReturnedNothing DEF TypeOK, ReaderInv
    <3>2. CASE n # 0
      <4>1. ReturnData(o)
        BY <1>7, <3>2 DEF o
      <4> QED
        BY <1>1, <2>1, <4>1, ReturnedData
    <3> QED
      BY <3>1, <3>2
  <2>4. TypeOK'
    BY <1>1, <1>2, <1>4, <2>1, <2>2, <2>3, Zenon DEF TypeOK
  <2>5. ReaderInv' /\ DecoderInv'
    BY <1>1, <2>2, <2>3 DEF ReaderInv, DecoderInv
  <2>6. held \o StreamEnd \o f = o \o held' \o StreamEnd'
    <3>1. StreamEnd' = IF whole THEN <<0>> ELSE <<>>
      BY <1>1, <1>4, <2>2 DEF StreamEnd
    <3> QED
      BY <1>4, <2>1, <2>2, <3>1
  <2>7. Moves(o, f)
    BY <1>1, <1>2, <2>1, <2>2, <2>3, <2>4, <2>5, <2>6, Zenon DEF Moves
  <2> QED
    BY <1>1, <1>3, <2>1, <2>7, MovesKeep
<1> QED
  BY <1>6, <1>7 DEF poll_data

(* The decoder is told to finish, by trailers or by the end of the wire. *)
LEMMA StepEnd == PathInv /\ (poll_trailers \/ poll_end) => PathInv'
<1> SUFFICES ASSUME PathInv, poll_trailers \/ poll_end PROVE PathInv'
  OBVIOUS
<1>1. /\ TypeOK /\ ReaderInv /\ DecoderInv /\ TrailersEnd(wire)
      /\ Polling("decompressing") /\ Open /\ call # "none" /\ state = "decompressing" /\ body.gzip
      /\ UNCHANGED <<body, phase, headers, timer>>
  BY DEF PathInv, WireInv, DecoderInv, poll_trailers, poll_end, Polling, Pull, rawVars
<1>2. PICK trailers \in BOOLEAN : Finish(held, complete, trailers)
  BY Zenon DEF poll_trailers, poll_end
<1>3. /\ wire' = <<>> /\ arrived' = 0 /\ ~HasError(wire) /\ Units(wire) = <<>> \o Units(wire')
  <2>1. CASE poll_trailers
    <3>1. arrived > 0 /\ Head(wire).kind = "trailers" /\ Pull
      BY <2>1 DEF poll_trailers, HasFrame
    <3>2. /\ wire' = <<>> /\ Head(wire).units = <<>> /\ arrived' \in 0 .. Len(wire')
          /\ Units(wire) = Head(wire).units \o Units(wire') /\ (HasError(wire) => HasError(wire'))
      BY <1>1, <3>1, Pulled
    <3>3. ~HasError(<<>>) /\ (arrived' \in 0 .. Len(<<>>) => arrived' = 0)
      BY DEF HasError
    <3> QED
      BY <3>2, <3>3, Zenon
  <2>2. CASE poll_end
    <3>1. wire = <<>> /\ wire' = <<>> /\ arrived' = arrived
      BY <2>2 DEF poll_end, rawVars
    <3>2. Units(<<>>) = <<>> \o Units(<<>>)
      BY NoUnits, Joinable, EmptySeq
    <3> QED
      BY <1>1, <3>1, <3>2 DEF HasError, TypeOK
  <2> QED
    BY <2>1, <2>2
<1>4. held \o StreamEnd \o <<>> = held \o (IF complete THEN <<0>> ELSE <<>>)
  <2>1. StreamEnd = (IF complete THEN <<0>> ELSE <<>>) /\ StreamEnd \in Seq(Int)
    BY <1>1 DEF StreamEnd
  <2>2. held \o StreamEnd \in Seq(Int)
    BY <1>1, <2>1, Joinable DEF TypeOK
  <2> QED
    BY <2>1, <2>2, Joinable
<1>5. held \in Seq(Int) /\ complete \in BOOLEAN /\ (body.gzip /\ ~errored => held \in Seq(Positive))
  BY <1>1 DEF PathInv, ContentInv, TypeOK
<1> QED
  BY <1>1, <1>2, <1>3, <1>4, <1>5, EmptySeq, StepFinish

(* A step of a poll that takes nothing and returns nothing to the caller,  *)
(* or the end of a body that is done.                                      *)
LEMMA StepIdle ==
    ASSUME PathInv, Open, UNCHANGED <<body, phase, headers, wire, arrived, held, complete, cur, got, errored>>,
           call' \in {call, "none"}, timer' \in Timers,
           \/ state' = state
           \/ state = "last" /\ state' = "done",
           \/ UNCHANGED <<done, ended>>
           \/ done' = TRUE /\ ended' = TRUE /\ (~errored => wire = <<>> /\ state' = "done")
    PROVE  PathInv'
<1>1. /\ TypeOK /\ ReaderInv /\ DecoderInv /\ TrailersEnd(wire) /\ Responded
  BY DEF PathInv, WireInv, Open, Responded
<1>2. TypeOK'
  <2>1. state' \in {"decompressing", "last", "done"} /\ done' \in BOOLEAN /\ ended' \in BOOLEAN
    BY <1>1, Zenon DEF TypeOK
  <2> QED
    BY <1>1, <2>1, Zenon DEF TypeOK
<1>3. ReaderInv' /\ DecoderInv'
  BY <1>1 DEF ReaderInv, DecoderInv
<1>4. Given' = Given /\ StreamEnd' = StreamEnd /\ Given \in Seq(Int) /\ StreamEnd \in Seq(Int) /\ held \in Seq(Int)
  BY <1>1, Joinable DEF Given, StreamEnd, TypeOK
<1>5. Given' = Given \o <<>> /\ held \o StreamEnd \o <<>> = <<>> \o held' \o StreamEnd'
  BY <1>4, Joinable
<1>6. Units(wire) = <<>> \o Units(wire')
  BY <1>1, UnitsOfFrames, Joinable DEF TypeOK
<1>7. ~errored => /\ body.gzip => held' \in Seq(Positive)
                  /\ body.gzip /\ state' # "decompressing" => wire' = <<>>
                  /\ ended' => wire' = <<>> /\ state' = "done"
  BY <1>1 DEF PathInv, ContentInv, EndInv
<1>8. Moves(<<>>, <<>>)
  BY <1>1, <1>2, <1>3, <1>5, <1>6, <1>7, EmptySeq DEF Moves
<1> QED
  BY <1>8, EmptySeq, MovesKeep

(* A frame of a body that is not decoded. *)
LEMMA StepDone == PathInv /\ poll_done => PathInv'
<1> SUFFICES ASSUME PathInv, poll_done PROVE PathInv'
  OBVIOUS
<1> DEFINE f == Head(wire).units
<1>1. /\ TypeOK /\ ReaderInv /\ DecoderInv /\ TrailersEnd(wire) /\ Responded
      /\ Open /\ call # "none" /\ state = "done" /\ ~ended /\ held = <<>>
      /\ arrived > 0 /\ Pull
      /\ UNCHANGED <<body, phase, headers, timer, state, held, complete>>
  BY DEF PathInv, WireInv, DecoderInv, ReaderInv, poll_done, Polling, Pull, Open, Responded, decoderVars
<1>2. /\ wire # <<>> /\ Head(wire) \in Frames
      /\ wire' \in Seq(Frames) /\ arrived' \in 0 .. Len(wire') /\ TrailersEnd(wire')
      /\ Units(wire) = f \o Units(wire')
      /\ Head(wire).kind # "error" => (HasError(wire') <=> HasError(wire))
      /\ Head(wire).kind = "trailers" => f = <<>>
  BY <1>1, Pulled
<1>3. f \in Seq(Int)
  BY <1>2 DEF Frames
<1>4. ~errored => ~body.gzip
  BY <1>1, <1>2 DEF PathInv, EndInv
<1>5. ASSUME NEW o \in Seq(Int), ~errored' => o = f /\ Given' = Given \o o,
             got' \in Seq(Int) /\ cur' \in Seq(Int) /\ call' \in Apis \cup {"none"},
             call' # "none" => cur' = <<>>,
             UNCHANGED <<done, ended>>,
             errored' = TRUE \/ (errored' = errored /\ Head(wire).kind # "error")
      PROVE  PathInv'
  <2> HIDE DEF f
  <2>1. TypeOK'
    <3>1. errored' \in BOOLEAN
      BY <1>1, <1>5, Zenon DEF TypeOK
    <3> QED
      BY <1>1, <1>2, <1>5, <3>1, Zenon DEF TypeOK
  <2>2. ReaderInv' /\ DecoderInv'
    BY <1>1, <1>5 DEF ReaderInv, DecoderInv
  <2>3. ASSUME ~errored' PROVE /\ ~errored /\ ~body.gzip /\ Given' = Given \o o /\ o = f
                               /\ (HasError(wire') <=> HasError(wire))
    BY <1>2, <1>4, <1>5, <2>3
  <2>4. ASSUME ~errored' PROVE held \o StreamEnd \o f = o \o held' \o StreamEnd'
    <3>1. held = <<>> /\ held' = <<>> /\ StreamEnd = <<>> /\ StreamEnd' = <<>> /\ o = f
      BY <1>1, <2>3, <2>4 DEF StreamEnd
    <3>2. <<>> \o <<>> = <<>> /\ <<>> \o f = f /\ f \o <<>> = f
      BY <1>3, Joinable, EmptySeq
    <3> QED
      BY <3>1, <3>2
  <2>5. Moves(o, f)
    BY <1>1, <1>2, <1>5, <2>1, <2>2, <2>3, <2>4, Zenon DEF Moves
  <2> QED
    BY <1>1, <1>3, <2>5, MovesKeep
<1>6. CASE Head(wire).kind = "data"
  <2>1. ReturnData(AsIs(f))
    BY <1>6 DEF poll_done
  <2>2. AsIs(f) \in Seq(Int) /\ (~body.gzip => AsIs(f) = f)
    <3> HIDE DEF f
    <3>1. Len(f) \in Nat /\ DOMAIN f = 1 .. Len(f) /\ f \in [1 .. Len(f) -> Int]
      BY <1>3, LenProperties
    <3>2. AsIs(f) \in [1 .. Len(f) -> Int]
      BY <3>1 DEF AsIs
    <3>3. ~body.gzip => AsIs(f) = f
      BY <3>1 DEF AsIs
    <3> HIDE DEF AsIs
    <3> QED
      BY <3>1, <3>2, <3>3, SeqDef
  <2>3. /\ Given' = Given \o AsIs(f)
        /\ got' \in Seq(Int) /\ cur' \in Seq(Int) /\ call' \in Apis \cup {"none"}
        /\ call' # "none" => cur' = <<>>
        /\ UNCHANGED <<done, ended, errored>>
    BY <1>1, <2>1, <2>2, ReturnedData
  <2> QED
    BY <1>4, <1>5, <1>6, <2>2, <2>3
<1>7. CASE Head(wire).kind = "trailers"
  <2>1. UNCHANGED <<call, cur, done, got, ended, errored>>
    BY <1>7 DEF poll_done, Continue, callerVars
  <2>2. f = <<>>
    BY <1>2, <1>7
  <2>3. Given' = Given \o f
    BY <1>1, <2>1, <2>2, ReturnedNothing
  <2> QED
    BY <1>1, <1>3, <1>5, <1>7, <2>1, <2>2, <2>3 DEF TypeOK, ReaderInv
<1>8. CASE Head(wire).kind = "error"
  <2>1. ReturnError
    BY <1>8 DEF poll_done
  <2> QED
    BY <1>1, <1>3, <1>5, <2>1 DEF ReturnError, TypeOK, ReaderInv
<1> QED
  BY <1>2, <1>6, <1>7, <1>8 DEF Frames

(* Every poll keeps the invariant. *)
LEMMA StepPoll == PathInv /\ PollFrame => PathInv'
<1> SUFFICES ASSUME PathInv, PollFrame PROVE PathInv'
  OBVIOUS
<1>1. CASE poll_corrupt \/ poll_error
  <2>1. /\ Pull /\ arrived > 0 /\ UNCHANGED <<body, phase, headers, timer>>
        /\ Open /\ call # "none" /\ Decoder("done", <<>>, FALSE) /\ ReturnError
    BY <1>1 DEF poll_corrupt, poll_error, Polling, HasFrame, Pull
  <2>2. wire' \in Seq(Frames) /\ arrived' \in 0 .. Len(wire') /\ TrailersEnd(wire')
    BY <2>1, Pulled DEF PathInv, WireInv
  <2> QED
    BY <2>1, <2>2, StepError
<1>2. CASE poll_pending
  <2>1. timer' \in Timers
    BY <1>2 DEF poll_pending, PathInv, TypeOK, Timers
  <2> QED
    BY <1>2, <2>1, StepIdle DEF poll_pending, decoderVars
<1>3. CASE poll_last
  <2>1. timer' \in Timers
    BY <1>3, Zenon DEF poll_last, rawVars, PathInv, TypeOK
  <2> QED
    BY <1>3, <2>1, StepIdle DEF poll_last, rawVars, Polling, Continue, callerVars
<1>4. CASE poll_done_end \/ poll_fused
  <2>1. timer' \in Timers
    BY <1>4, Zenon DEF poll_done_end, poll_fused, rawVars, PathInv, TypeOK
  <2>2. ~errored => wire = <<>> /\ state = "done"
    BY <1>4 DEF poll_done_end, poll_fused, Polling, PathInv, ReaderInv, EndInv, Responded, Open
  <2> QED
    BY <1>4, <2>1, <2>2, StepIdle
    DEF poll_done_end, poll_fused, rawVars, decoderVars, Polling, ReturnNone
<1>5. CASE poll_broken
  <2>1. wire' = <<>> /\ arrived' = 0
    BY <1>5 DEF poll_broken
  <2>2. wire' \in Seq(Frames) /\ arrived' \in 0 .. Len(wire') /\ TrailersEnd(wire')
    BY <2>1, EmptySeq DEF TrailersEnd
  <2> QED
    BY <1>5, <2>2, StepError DEF poll_broken
<1> QED
  BY <1>1, <1>2, <1>3, <1>4, <1>5, StepData, StepEnd, StepDone DEF PollFrame

-----------------------------------------------------------------------------
(* The inductive invariant of the response. *)
THEOREM PathInvariance == Spec => []PathInv
<1>1. PathInv /\ [Next]_vars => PathInv'
  BY StepRespond, StepConnection, StepPoll, StepRead DEF Next
<1> QED
  BY InitPath, <1>1, PTL DEF Spec

(* InOrder: until an error is reported, nothing that the server sent is    *)
(* lost, repeated or out of order on its way through decoder and reader.   *)
THEOREM ResponseInOrder == Spec => []InOrder
<1>1. PathInv => InOrder
  BY DEF PathInv, FlowInv, Flow, InOrder, Open, Responded
<1> QED
  BY <1>1, PathInvariance, PTL

(* A sequence of positive numbers with the end of the stream behind it. *)
LEMMA WholeStream ==
    ASSUME NEW g, NEW us
    PROVE  g \in Seq(Positive) /\ us = g \o <<0>>
           => /\ EndsStream(us) /\ Front(us) = g
              /\ \A n \in 1 .. Len(us) - 1 : us[n] > 0
<1>h. SUFFICES ASSUME g \in Seq(Positive), us = g \o << 0 >>
               PROVE  /\ EndsStream(us) /\ Front(us) = g
                      /\ \A n \in 1 .. Len(us) - 1 : us[n] > 0
  OBVIOUS
<1>1. Len(g) \in Nat /\ \A n \in 1 .. Len(g) : g[n] \in Positive
  BY <1>h, LenProperties, ElementOfSeq
<1>2. g \in Seq(Nat) /\ <<0>> \in Seq(Nat) /\ Len(<<0>>) = 1
  <2>1. g \in [1 .. Len(g) -> Nat]
    BY <1>h, <1>1, LenProperties DEF Positive
  <2> QED
    BY <1>1, <2>1, SeqDef
<1>3. /\ us \in Seq(Nat) /\ Len(us) = Len(g) + 1
      /\ \A n \in 1 .. Len(g) + 1 : us[n] = IF n <= Len(g) THEN g[n] ELSE <<0>>[n - Len(g)]
  BY <1>h, <1>2, ConcatProperties
<1>4. us[Len(g) + 1] = 0 /\ \A n \in 1 .. Len(g) : us[n] = g[n]
  BY <1>1, <1>3
<1>5. EndsStream(us)
  <2>1. Last(us) = 0
    BY <1>3, <1>4 DEF Last
  <2>2. us # <<>>
    BY <1>1, <1>3, EmptySeq
  <2> QED
    BY <2>1, <2>2 DEF EndsStream
<1>6. Front(us) = g
  <2>1. Front(us) = SubSeq(us, 1, Len(g))
    BY <1>1, <1>3 DEF Front
  <2>2. SubSeq(us, 1, Len(g)) = [n \in 1 .. Len(g) |-> us[n]]
    BY <1>1, <1>3
  <2>3. g = [n \in 1 .. Len(g) |-> g[n]]
    BY <1>h, LenProperties
  <2> QED
    BY <1>4, <2>1, <2>2, <2>3
<1>7. \A n \in 1 .. Len(us) - 1 : us[n] > 0
  <2>1. Len(us) - 1 = Len(g)
    BY <1>1, <1>3
  <2>2. \A n \in 1 .. Len(g) : g[n] > 0
    BY <1>1 DEF Positive
  <2> QED
    BY <1>4, <2>1, <2>2
<1> QED
  BY <1>5, <1>6, <1>7

(* What is known when the end is reported. *)
LEMMA AtTheEnd ==
    ASSUME PathInv, ended, ~errored
    PROVE  /\ Responded /\ ~HasError(body.frames) /\ Given \in Seq(Int)
           /\ IF body.gzip THEN Given \in Seq(Positive) /\ Units(body.frames) = Given \o <<0>>
                           ELSE Units(body.frames) = Given
<1>1. Responded /\ wire = <<>> /\ state = "done" /\ held = <<>>
  BY DEF PathInv, StartInv, EndInv, DecoderInv
<1>2. ~HasError(wire) /\ ~HasError(body.frames)
  BY <1>1 DEF PathInv, WireInv, HasError
<1>3. Flow
  BY <1>1 DEF PathInv, FlowInv
<1>4. StreamEnd = (IF body.gzip THEN <<0>> ELSE <<>>) /\ StreamEnd \in Seq(Int)
  BY <1>1 DEF PathInv, DecoderInv, StreamEnd
<1>5. Given \in Seq(Int)
  BY Joinable DEF Given, PathInv, TypeOK
<1>6. Units(body.frames) = Given \o StreamEnd
  <2>1. Given \o held = Given /\ Given \o StreamEnd \in Seq(Int)
    BY <1>1, <1>4, <1>5, Joinable
  <2>2. (Given \o StreamEnd) \o <<>> = Given \o StreamEnd
    BY <2>1, Joinable
  <2> QED
    BY <1>1, <1>3, <2>1, <2>2, NoUnits DEF Flow
<1>7. body.gzip => Given \in Seq(Positive)
  BY DEF PathInv, ContentInv
<1>8. ~body.gzip => Units(body.frames) = Given
  BY <1>4, <1>5, <1>6, Joinable
<1> QED
  BY <1>1, <1>2, <1>4, <1>5, <1>6, <1>7, <1>8

(* EndIsComplete: the end is reported only for a body that the server sent *)
(* to its end and the decoder accepted to its end, and the caller has it   *)
(* all by then.                                                            *)
THEOREM CompleteEnds == Spec => []EndIsComplete
<1>1. ASSUME PathInv, ended, ~errored PROVE Intact(body) /\ Given = Plain(body)
  <2>1. CASE body.gzip
    BY <1>1, <2>1, AtTheEnd, WholeStream DEF Intact, Plain
  <2>2. CASE ~body.gzip
    BY <1>1, <2>2, AtTheEnd DEF Intact, Plain
  <2> QED
    BY <2>1, <2>2
<1>2. PathInv => EndIsComplete
  BY <1>1 DEF EndIsComplete
<1> QED
  BY <1>2, PathInvariance, PTL

(* LengthIsTrue: the only length a caller is told is that of a body that   *)
(* comes as it is.                                                         *)
THEOREM TrueLength == Spec => []LengthIsTrue
<1>1. ASSUME PathInv, ended, ~errored, headers.length # -1 PROVE headers.length = Len(Given)
  <2>1. headers.length = IF body.gzip THEN -1 ELSE WireLength(body)
    BY <1>1, AtTheEnd DEF PathInv, HeaderInv
  <2>2. ~body.gzip
    BY <1>1, <2>1
  <2>3. Units(body.frames) = Given
    BY <1>1, <2>2, AtTheEnd
  <2> QED
    BY <2>1, <2>2, <2>3 DEF WireLength
<1>2. PathInv => LengthIsTrue
  BY <1>1 DEF LengthIsTrue
<1> QED
  BY <1>2, PathInvariance, PTL
=============================================================================

--------------------------- MODULE MCResponsePath ---------------------------
(* Every way to cut the units into frames, with an empty frame in front or *)
(* not, with trailers, an error, an empty frame or nothing at the end.     *)
EXTENDS ResponsePath

Data(us) == [kind |-> "data", units |-> us]
Cuts(us) ==
    LET n == Len(us)
        parts(c) == LET s == SetToSortSeq(c \cup {n}, <)
                    IN  [k \in DOMAIN s |-> Data(SubSeq(us, IF k = 1 THEN 1 ELSE s[k - 1] + 1, s[k]))]
    IN  IF n = 0 THEN {<<>>} ELSE {parts(c) : c \in SUBSET (1 .. n - 1)}

Endings == {<<>>, <<Data(<<>>)>>, <<[kind |-> "trailers", units |-> <<>>]>>,
            <<[kind |-> "error", units |-> <<>>]>>}
Framed(us) == {e \o fs \o end : e \in {<<>>, <<Data(<<>>)>>}, fs \in Cuts(us), end \in Endings}
Body(gzip, us) == {[gzip |-> gzip, frames |-> fs] : fs \in Framed(us)}

MCBodies ==
    Body(FALSE, <<1, 2>>) \cup Body(TRUE, <<1, 2, 0>>) \cup Body(TRUE, <<0>>)
        \cup Body(TRUE, <<1, 2>>) \cup Body(TRUE, <<1, -1, 2, 0>>) \cup Body(TRUE, <<1, 0, 2>>)
=============================================================================

-------------------------- MODULE MCClientFactory --------------------------
(* A setting that is given, defaulted for every service, or in neither.    *)
EXTENDS ClientFactory

CONSTANTS h1, h2

MCConfig(uris, setting, default) ==
    [present |-> TRUE, uris |-> uris, setting |-> setting, default |-> default]
MCAbsent == [present |-> FALSE, uris |-> <<>>, setting |-> None, default |-> None]

(* A second host is put before the first as a default changes. *)
MCConfigs == {MCConfig(<<h1>>, None, None), MCConfig(<<h2, h1>>, None, "s")}

(* A host is replaced by another, or comes back with another setting. *)
MCMoves == {MCConfig(<<h1>>, None, "s"), MCConfig(<<h2>>, None, "s"), MCConfig(<<h1>>, "t", "s"), MCAbsent}
=============================================================================

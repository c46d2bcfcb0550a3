--------------------------- MODULE MCSpinSession ----------------------------
(* A paced session with a loss limit and an unlimited one, of one player. *)
EXTENDS SpinSession

CONSTANTS Ann, Paced, Free

MCPlayers == {Ann}
MCSessions == {Paced, Free}
MCPlayerOf == [s \in MCSessions |-> Ann]
MCPolicy ==
  [s \in MCSessions |->
     IF s = Paced THEN [pacing |-> 1, autoplay |-> FALSE, limit |-> 2, timeout |-> 2]
     ELSE [pacing |-> 0, autoplay |-> TRUE, limit |-> 0, timeout |-> 1]]
=============================================================================

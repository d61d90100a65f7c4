------------------------------ MODULE MCRoutes ------------------------------
(* Three cards for TLC: two sources of which one has no level control, two *)
(* sources behind one record level, and a single playback control.         *)
EXTENDS Routes

Card(mic, line) ==
    [r \in {"mic", "line"} |-> [source |-> r, control |-> IF r = "mic" THEN mic ELSE line]]

MCBindings == {Card("mic", None), Card("rec", "rec"),
               [r \in {"out"} |-> [source |-> None, control |-> "vol"]]}

(* A multiplexer: one source at a time.                                    *)
MCMasks(sources) == {{s} : s \in sources}

(* What the theorem on the node's values assumes of the cards holds of     *)
(* these three.                                                            *)
ASSUME MCAssumption == OneAtATime
=============================================================================

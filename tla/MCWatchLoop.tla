------------------------------ MODULE MCWatchLoop ------------------------------
(* Two pages and a partial; a chain of embeds.                             *)
EXTENDS WatchLoop

MCPlace == [f \in Sources |-> IF f = "_setup" THEN 1 ELSE IF f = "main" THEN 2 ELSE 3]
MCEmbeds == [f \in Sources |-> IF f = "main" THEN {"part"}
                             ELSE IF f = "part" THEN {"_setup"} ELSE {}]
MCBodies == [f \in Sources |-> IF f = "main" THEN {{}, {"part"}} ELSE {MCEmbeds[f]}]
=============================================================================

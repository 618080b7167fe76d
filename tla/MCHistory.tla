----------------------------- MODULE MCHistory -----------------------------
(* The instance of History that TLC checks: the last two messages are an album. *)
EXTENDS History

MCAlbum == [k \in Keys |-> IF k \in {4, 5} THEN 1 ELSE 0]
=============================================================================

------------------------------- MODULE ModInfo -------------------------------
(***************************************************************************)
(* What the cache of module information promises (filesel/mdb.h): a key    *)
(* has one information, the last one written, and the next session of the  *)
(* player knows what the last session that saved knew, or nothing.         *)
(***************************************************************************)
CONSTANTS Keys, Infos, Unread

VARIABLES known, stored, running

vars == <<known, stored, running>>

Nothing == <<>>

Init == known = Nothing /\ stored = Nothing /\ running = TRUE

(* A module is seen for the first time.                                    *)
Reference(key) ==
  /\ running /\ UNCHANGED <<stored, running>>
  /\ key \notin DOMAIN known
  /\ known' = [k \in DOMAIN known \cup {key} |-> IF k = key THEN Unread ELSE known[k]]

(* An information is replaced, and no other changes.                       *)
Write(key) ==
  /\ running /\ UNCHANGED <<stored, running>>
  /\ key \in DOMAIN known /\ known' \in [DOMAIN known -> Infos]
  /\ \A other \in DOMAIN known \ {key} : known'[other] = known[other]

(* The session ends: what it knew is saved, or not, or all is lost.        *)
Close ==
  /\ running /\ running' = FALSE
  /\ stored' \in {known, stored, Nothing}
  /\ known' = Nothing

Start == ~running /\ running' = TRUE /\ known' = stored /\ UNCHANGED stored

Next ==
  \/ \E key \in Keys : Reference(key) \/ Write(key)
  \/ Close \/ Start

Spec == Init /\ [][Next]_vars
=============================================================================

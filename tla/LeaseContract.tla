---------------------------- MODULE LeaseContract ----------------------------
(***************************************************************************)
(* What the lease table promises, whatever mixture of requests, supervisor *)
(* passes, operator calls and restarts acts on it: the life of one worker  *)
(* slot.  A slot is granted under a fresh token, the grant is readied,     *)
(* runs, lapses, recovers and finishes, and a finished grant stays         *)
(* finished until its row is removed.  RunLifecycle implements this.       *)
(***************************************************************************)
EXTENDS Integers, FiniteSets

CONSTANT Slots

VARIABLE row   \* row[s] = [state, token]

Live == {"claimed", "ready", "running"}

Init == \A s \in Slots : row[s].state \in {"free", "absent"} /\ row[s].token = 0

(* Moves of a grant under its own token.                                   *)
Advances == {<<"claimed", "ready">>, <<"ready", "running">>}
Lapses   == (Live \cup {"free"}) \X {"lost"}
Recovers == {"lost"} \X {"ready", "running"}
Finishes == (Live \cup {"lost"}) \X {"done"}
Moves    == Advances \cup Lapses \cup Recovers \cup Finishes

Moved(s)   == /\ <<row[s].state, row'[s].state>> \in Moves
              /\ row'[s].token = row[s].token

(* A claim: the only way to hold a slot, always under a new token.         *)
Granted(s) == /\ row[s].state \in {"free", "lost"}
              /\ row'[s].state = "claimed"
              /\ row'[s].token = row[s].token + 1

(* A scale-down deletes the row, a scale-up seeds a new one.               *)
Removed(s) == row'[s].state = "absent" /\ row'[s].token = row[s].token
Seeded(s)  == /\ row[s].state = "absent"
              /\ row'[s].state = "free"
              /\ row'[s].token = row[s].token + 1

SlotStep(s) == row'[s] = row[s] \/ Moved(s) \/ Granted(s) \/ Removed(s) \/ Seeded(s)

(* One step may move many slots (a tick lapses them all), but it grants at *)
(* most one: a claim never takes two.                                      *)
Next ==
    /\ \A s \in Slots : SlotStep(s)
    /\ \A s, t \in Slots : Granted(s) /\ Granted(t) => s = t

Spec == Init /\ [][Next]_row
=============================================================================

-------------------------------- MODULE Memo --------------------------------
(***************************************************************************)
(* What the harness expects of its memo maps: every key is computed by at  *)
(* most one caller at a time, a computation that fails or is dropped       *)
(* leaves the key as if it had never been asked for, and a value that has  *)
(* been computed stays.  Harness implements this with OnceCells in locked  *)
(* maps.                                                                   *)
(***************************************************************************)
CONSTANT Keys
VARIABLE state

Init == state = [k \in Keys |-> "empty"]

Begin(k) ==
  /\ state[k] = "empty"
  /\ state' = [state EXCEPT ![k] = "running"]

Finish(k) ==
  /\ state[k] = "running"
  /\ state' = [state EXCEPT ![k] = "set"]

(* A caller may let go of several keys at once. *)
Abandon(S) ==
  state' = [k \in Keys |-> IF k \in S THEN "empty" ELSE state[k]]

Next == \/ \E k \in Keys : Begin(k) \/ Finish(k)
        \/ \E S \in SUBSET {k \in Keys : state[k] = "running"} : Abandon(S)

Spec == Init /\ [][Next]_state
=============================================================================

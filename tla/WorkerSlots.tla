---------------------------- MODULE WorkerSlots ----------------------------
(***************************************************************************)
(* What a worker promises the dispatcher, whatever runs inside it: a job   *)
(* is given a slot only while the worker's door is open, the door once     *)
(* shut stays shut, a slot is held once and given back once, and after the *)
(* door is shut every held slot is eventually given back.                  *)
(***************************************************************************)
CONSTANT Jobs

VARIABLES
  slot,  \* "none", then "held", then "released", for each job
  door   \* "new", then "open", then "shut"

vars == <<slot, door>>

Init ==
  /\ slot = [j \in Jobs |-> "none"]
  /\ door = "new"

Open ==
  /\ door = "new"
  /\ door' = "open"
  /\ UNCHANGED slot

Shut ==
  /\ door # "shut"
  /\ door' = "shut"
  /\ UNCHANGED slot

Move(j, from, to) ==
  /\ slot[j] = from
  /\ slot' = [slot EXCEPT ![j] = to]
  /\ UNCHANGED door

Accept(j)  == door = "open" /\ Move(j, "none", "held")
Refuse(j)  == door = "open" /\ Move(j, "none", "released")
Release(j) == Move(j, "held", "released")

Next == Open \/ Shut \/ \E j \in Jobs : Accept(j) \/ Refuse(j) \/ Release(j)

Spec == Init /\ [][Next]_vars

EmptiesWhenShut == door = "shut" ~> \A j \in Jobs : slot[j] # "held"
=============================================================================

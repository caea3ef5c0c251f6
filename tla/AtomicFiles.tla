---------------------------- MODULE AtomicFiles ----------------------------
(***************************************************************************)
(* What "write to .tmp + rename" promises of the files a learning round    *)
(* writes: a reader finds a file absent or finds one complete version of   *)
(* it, and a new version replaces the old one in one step. The promise is  *)
(* to a single writer: a file two processes have saved at the same time is *)
(* spoiled and nothing is said of it any more.                             *)
(***************************************************************************)
EXTENDS Naturals, Sequences

CONSTANT Files

VARIABLES value,    \* value[f]: {v} if version v is what a reader finds
          spoiled   \* files saved by two processes at once

Version == Seq(Nat)

Init ==
  /\ value = [f \in Files |-> {}]
  /\ spoiled = {}

Publish(f) ==
  /\ f \notin spoiled
  /\ \E v \in value'[f] : /\ v \in Version
                          /\ value' = [value EXCEPT ![f] = {v}]
  /\ UNCHANGED spoiled

Spoil(f) ==
  /\ spoiled' = spoiled \cup {f}
  /\ value' = [value EXCEPT ![f] = {}]

Next == \E f \in Files : Publish(f) \/ Spoil(f)

Spec == Init /\ [][Next]_<<value, spoiled>>
=============================================================================

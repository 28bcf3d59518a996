--------------------------- MODULE AtomicReplace ---------------------------
(***************************************************************************)
(* What OutputTransaction promises, without files being staged, written,   *)
(* synced or cleaned up: a transaction either replaces its destination by  *)
(* one complete output, in one step, or fails without touching it; and a   *)
(* power loss leaves each destination with an earlier complete content or  *)
(* the present one (README.md, "Output is staged ...").                    *)
(***************************************************************************)
CONSTANTS
    Txn,    \* transactions; the complete output of t is the value t
    Path,   \* destinations
    Dest,   \* [Txn -> Path]
    Other   \* everything else a path may name

VARIABLES
    dest,     \* [Path -> Txn \cup Other]: what a path names
    durable,  \* [Path -> SUBSET (Txn \cup Other)]: what a power loss may leave
    outcome   \* [Txn -> {"none", "published", "ok", "error"}]

vars == <<dest, durable, outcome>>

Init == /\ dest \in [Path -> Other]
        /\ durable = [p \in Path |-> {dest[p]}]
        /\ outcome = [t \in Txn |-> "none"]

Rebound(p, v) == /\ dest' = [dest EXCEPT ![p] = v]
                 /\ durable' = [durable EXCEPT ![p] = @ \cup {v}]

(* The replacement takes effect, at a time of the transaction's choosing.  *)
Publish(t) == /\ outcome[t] = "none"
              /\ outcome' = [outcome EXCEPT ![t] = "published"]
              /\ Rebound(Dest[t], t)

(* Success is reported only after it; the replacement may be durable now.  *)
Report(t) == /\ outcome[t] = "published"
             /\ outcome' = [outcome EXCEPT ![t] = "ok"]
             /\ UNCHANGED dest
             /\ durable' \in {durable, [p \in Path |-> {dest[p]}]}

Fail(t) == /\ outcome[t] = "none"
           /\ outcome' = [outcome EXCEPT ![t] = "error"]
           /\ UNCHANGED <<dest, durable>>

(* Other programs use the same directory.                                  *)
External == /\ \E p \in Path, v \in Other : Rebound(p, v)
            /\ UNCHANGED outcome

PowerLoss == /\ \A p \in Path : dest'[p] \in durable[p]
             /\ dest' = [p \in Path |-> dest'[p]]
             /\ durable' = [p \in Path |-> {dest'[p]}]
             /\ UNCHANGED outcome

Next == \/ \E t \in Txn : Publish(t) \/ Report(t) \/ Fail(t)
        \/ External \/ PowerLoss

Spec == Init /\ [][Next]_vars
=============================================================================

--------------------------- MODULE VolumeLifecycle ---------------------------
(***************************************************************************)
(* What the service promises about one volume name, without goroutines,    *)
(* calls or retries: the row a client is shown and the storage behind it.  *)
(* The storage changes only under an operation that the row announces, an  *)
(* operation is shown as done only when the storage agrees, and what a     *)
(* failed operation left behind is taken over by a reconciliation.         *)
(***************************************************************************)
EXTENDS VolumeFSM

CONSTANTS Names, Nodes, NoNode

VARIABLES
    shown,      \* the row of each name: its state and the node it names
    real        \* the storage of each name: its state and where it is attached

vars == <<shown, real>>

NoRow   == [state |-> "none", node |-> NoNode]
Missing == [state |-> "absent", node |-> NoNode]
Free    == [state |-> "available", node |-> NoNode]
On(x)   == [state |-> "attached", node |-> x]

Storage == {Missing, Free} \cup {On(x) : x \in Nodes}

TypeOK ==
    /\ shown \in [Names -> [state : States, node : Nodes \cup {NoNode}] \cup {NoRow}]
    /\ real \in [Names -> Storage]

Init ==
    /\ shown = [n \in Names |-> NoRow]
    /\ real = [n \in Names |-> Missing]

-----------------------------------------------------------------------------
Show(n, state, node) ==
    /\ shown' = [shown EXCEPT ![n] = [state |-> state, node |-> node]]
    /\ UNCHANGED real

\* A client's request is registered, or accepted.
Register(n) == shown[n] = NoRow /\ Show(n, "pending", NoNode)

Choose(n) ==
    /\ shown[n].state = "available"
    /\ \E x \in Nodes : Show(n, "available", x)

Accept(n) ==
    \/ shown[n].state = "pending" /\ Show(n, "creating", shown[n].node)
    \/ shown[n].state = "available" /\ Show(n, "deleting", shown[n].node)
    \/ /\ shown[n].state = "available"
       /\ shown[n].node \in Nodes
       /\ Show(n, "attaching", shown[n].node)
    \/ shown[n].state = "attached" /\ Show(n, "detaching", shown[n].node)

\* An attempt fails, is repeated, or was the last one.
Stumble(n) ==
    \E event \in {"error", "retry", "fail"} :
        /\ CanTransition(shown[n].state, event)
        /\ Show(n, Transition(shown[n].state, event), shown[n].node)

\* The storage does what the row announces; a failed attempt may do it late.
Work(n) ==
    /\ \/ /\ shown[n].state \in {"creating", "creating_failed"}
          /\ real[n] = Missing
          /\ real' = [real EXCEPT ![n] = Free]
       \/ /\ shown[n].state \in {"attaching", "attaching_failed"}
          /\ real[n] # Missing
          /\ real' = [real EXCEPT ![n] = On(shown[n].node)]
       \/ /\ shown[n].state \in {"detaching", "detaching_failed"}
          /\ real[n] # Missing
          /\ real' = [real EXCEPT ![n] = Free]
       \/ /\ shown[n].state \in {"deleting", "deleting_failed"}
          /\ real' = [real EXCEPT ![n] = Missing]
    /\ UNCHANGED shown

\* The operation is shown as done.
Complete(n) ==
    \/ shown[n].state = "creating" /\ real[n] = Free
         /\ Show(n, "available", shown[n].node)
    \/ shown[n].state = "attaching" /\ real[n] = On(shown[n].node)
         /\ Show(n, "attached", shown[n].node)
    \/ shown[n].state = "detaching" /\ real[n] = Free
         /\ Show(n, "available", NoNode)
    \/ shown[n].state = "deleting" /\ real[n] = Missing
         /\ Show(n, "deleted", shown[n].node)

\* A client asks for a failed volume to be aligned with its storage.
Reconcile(n) ==
    /\ shown[n].state = "error"
    /\ \/ real[n] = Missing /\ Show(n, "pending", NoNode)
       \/ real[n] = Free /\ Show(n, "available", NoNode)
       \/ \E x \in Nodes : real[n] = On(x) /\ Show(n, "attached", x)

Next ==
    \E n \in Names :
        \/ Register(n) \/ Choose(n) \/ Accept(n) \/ Stumble(n)
        \/ Work(n) \/ Complete(n) \/ Reconcile(n)

Spec == Init /\ [][Next]_vars

-----------------------------------------------------------------------------
\* Between operations the row tells the truth about the storage: what a client
\* is shown as available, attached or deleted is so.
Truthful ==
    \A n \in Names :
        /\ shown[n].state \in {"none", "pending", "deleted"} => real[n] = Missing
        /\ shown[n].state = "available" => real[n] = Free
        /\ shown[n].state = "attached" => real[n] = On(shown[n].node)

=============================================================================

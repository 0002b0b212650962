------------------------------ MODULE VolumeFSM ------------------------------
(***************************************************************************)
(* The life cycle of a volume: the transition table of volume/fsm.go.  The *)
(* table is data, so CanTransition and Transition are lookups in it, as    *)
(* they are in the looplab/fsm machine that the code builds from it.       *)
(***************************************************************************)

InProgress == {"creating", "attaching", "detaching", "deleting"}

FailedStates ==
    {"creating_failed", "attaching_failed", "detaching_failed", "deleting_failed"}

\* The states a volume is in while a retry goroutine is expected to drive it.
Transitional == InProgress \cup FailedStates

States ==
    Transitional \cup {"pending", "available", "attached", "deleted", "error"}

\* The triples <<source, event, destination>> of NewVolumeFSM.
Transitions ==
    { <<"pending",          "create",   "creating">>,
      <<"creating",         "ready",    "available">>,
      <<"available",        "attach",   "attaching">>,
      <<"attaching",        "attached", "attached">>,
      <<"attached",         "detach",   "detaching">>,
      <<"detaching",        "detached", "available">>,
      <<"available",        "delete",   "deleting">>,
      <<"deleting",         "deleted",  "deleted">>,
      <<"creating",         "error",    "creating_failed">>,
      <<"attaching",        "error",    "attaching_failed">>,
      <<"detaching",        "error",    "detaching_failed">>,
      <<"deleting",         "error",    "deleting_failed">>,
      <<"creating_failed",  "retry",    "creating">>,
      <<"attaching_failed", "retry",    "attaching">>,
      <<"detaching_failed", "retry",    "detaching">>,
      <<"deleting_failed",  "retry",    "deleting">>,
      <<"creating_failed",  "fail",     "error">>,
      <<"attaching_failed", "fail",     "error">>,
      <<"detaching_failed", "fail",     "error">>,
      <<"deleting_failed",  "fail",     "error">> }

CanTransition(state, event) ==
    \E dst \in States : <<state, event, dst>> \in Transitions

\* Faulty: every retry goes back to creating.
TransitionMisdirected(state, event) ==
    IF event = "retry" THEN "creating"
    ELSE CHOOSE dst \in States : <<state, event, dst>> \in Transitions

Transition(state, event) ==
    CHOOSE dst \in States : <<state, event, dst>> \in Transitions

=============================================================================

---------------------------- MODULE VolumeFeature ----------------------------
(***************************************************************************)
(* The volume feature across restarts of the process (volume/factory.go):  *)
(* beside the requests of VolumeService, the start-up reconciliation that  *)
(* looks for what the previous life left behind.  It is one goroutine that *)
(* starts one more per volume and joins them; the feature's WaitGroup      *)
(* counts it.                                                              *)
(*                                                                         *)
(* GetVolume of the repository's backends answers an error for a volume    *)
(* they do not know, never (nil, nil), which is what reconcileDBVolume     *)
(* takes for an absent volume: RECONCILE_DB_ONLY is not consulted, and the *)
(* branches of its three values have no actions here.                      *)
(***************************************************************************)
EXTENDS VolumeService

CONSTANTS
    CephOnlys,      \* values RECONCILE_CEPH_ONLY is given
    MaxRestarts     \* bound: crashes and orderly restarts

ASSUME PolicyAssumption == CephOnlys \subseteq {"ignore", "import"}
ASSUME MaxRestartsAssumption == MaxRestarts \in Nat

VARIABLES
    startup,    \* the start-up goroutine
    scan,       \* the goroutine it runs for each name, with its local variables
    cephOnly,   \* the configured policy for volumes without a row
    restarts    \* restarts so far

startVars   == <<startup, scan, cephOnly, restarts>>
featureVars == <<vars, startVars>>

Scan ==
    [pc    : {"inspect", "align", "write", "log",
              "load", "update", "record", "import"},
     vol   : Row \cup {NoRow},
     event : {"reconcile", "error", "fail"}]

FeatureTypeOK ==
    /\ TypeOK
    /\ startup \in {"list", "join", "listbackend", "joinimports", "done"}
    /\ scan \in [Names -> Scan \cup {Idle}]
    /\ \A n \in Names : scan[n].pc = "inspect" => scan[n].vol.state \in Transitional
    /\ cephOnly \in CephOnlys
    /\ restarts \in 0..MaxRestarts

FeatureInit ==
    /\ Init
    /\ startup = "list"
    /\ scan = [n \in Names |-> Idle]
    /\ cephOnly \in CephOnlys
    /\ restarts = 0

-----------------------------------------------------------------------------
ScanAt(n, pc)    == scan[n].pc = pc
ScanBecome(n, s) == scan' = [scan EXCEPT ![n] = s]
ScanEnd(n)       == ScanBecome(n, Idle)

\* reconcileCtx is done: the feature closes, or the 60 seconds are over.
StartupContextDone ==
    \/ Canceled /\ UNCHANGED faults
    \/ Fault

(***************************************************************************)
(* The goroutine of NewVolumeFeature: reconcileOnStartup.                  *)
(***************************************************************************)
\* Faulty: nothing is filtered.
ListedUnfiltered(n) == db[n] # NoRow

\* The rows ListVolumesByState is asked for.
Listed(n) == db[n].state \in Transitional

List ==
    /\ startup = "list"
    /\ \/ /\ scan' = [n \in Names |->
                         IF Listed(n)
                         THEN [pc |-> "inspect", vol |-> db[n], event |-> "reconcile"]
                         ELSE Idle]
          /\ startup' = "join"
          /\ UNCHANGED faults
       \/ /\ DbFails
          /\ startup' = "done"
          /\ UNCHANGED scan
    /\ UNCHANGED <<db, audit, backend, task, closing, cephOnly, restarts>>

\* Faulty: the goroutines are not waited for.
JoinedAlways == TRUE

\* wg.Wait on the goroutines of the names.
Joined == \A n \in Names : scan[n] = Idle

Join ==
    /\ startup \in {"join", "joinimports"}
    /\ Joined
    /\ startup' = IF startup = "join" /\ cephOnly = "import"
                  THEN "listbackend" ELSE "done"
    /\ UNCHANGED <<vars, scan, cephOnly, restarts>>

\* ListVolumes of the backend.
ListBackend ==
    /\ startup = "listbackend"
    /\ scan' = [n \in Names |->
                   IF Present(backend[n])
                   THEN [pc |-> "import", vol |-> NoRow, event |-> "reconcile"]
                   ELSE Idle]
    /\ startup' = "joinimports"
    /\ UNCHANGED <<vars, cephOnly, restarts>>

(***************************************************************************)
(* The goroutine of one transitional volume: reconcileDBVolume.            *)
(***************************************************************************)
Found(n) == GetVolume(backend[n]) = "found"

\* Faulty: an interrupted deletion counts as done.
TargetDeleted(state) ==
    IF state \in {"deleting", "deleting_failed"} THEN "deleted" ELSE "available"

\* The state that a volume of the backend is given, from the one that was listed.
Target(state) ==
    IF state \in {"deleting", "deleting_failed"} THEN "error" ELSE "available"

\* GetVolume of the backend, and what follows.  An error is an unreachable backend
\* to the code: the volume is left as it is.
ScanInspect(n) ==
    /\ ScanAt(n, "inspect")
    /\ LET s == scan[n]
           target == Target(s.vol.state)
       IN \/ /\ Found(n) /\ target # "error"
             /\ ScanBecome(n, [s EXCEPT !.pc = "align",
                                        !.vol = [state |-> target,
                                                 node |-> backend[n].node]])
          \/ /\ Found(n) /\ target = "error"
             /\ ScanBecome(n, [s EXCEPT !.pc = "load", !.event = "error"])
          \/ ~Found(n) /\ ScanEnd(n)
    /\ UNCHANGED <<vars, startup, cephOnly, restarts>>

\* LoadVolume: a row that cannot be loaded is left alone (nothing removes rows, so
\* this one is still there).
ScanAlign(n) ==
    /\ ScanAt(n, "align")
    /\ \/ /\ db[n] # NoRow
          /\ ScanBecome(n, [scan[n] EXCEPT !.pc = "write"])
          /\ UNCHANGED faults
       \/ DbFails /\ ScanEnd(n)
    /\ UNCHANGED <<db, audit, backend, task, closing, startup, cephOnly, restarts>>

\* UpdateVolume, whose error is ignored.
ScanWrite(n) ==
    /\ ScanAt(n, "write")
    /\ ScanBecome(n, [scan[n] EXCEPT !.pc = "log"])
    /\ \/ Write(n, scan[n].vol) /\ UNCHANGED faults
       \/ WriteFails(n, scan[n].vol)
    /\ UNCHANGED <<audit, backend, task, closing, startup, cephOnly, restarts>>

\* SaveEvent, at the end of the alignment and of applyEvent.
Audited(n) ==
    \/ audit' = [audit EXCEPT ![n] = scan[n].vol.state] /\ UNCHANGED faults
    \/ DbFails /\ UNCHANGED audit

ScanLog(n) ==
    /\ ScanAt(n, "log")
    /\ Audited(n)
    /\ ScanEnd(n)
    /\ UNCHANGED <<db, backend, task, closing, startup, cephOnly, restarts>>

(***************************************************************************)
(* reconcileToError: from an in-progress state to the failed one, and from *)
(* there to error.  Errors of applyEvent are ignored.                      *)
(***************************************************************************)
\* Faulty: an event that could not be applied is tried again.
AfterEventAgain(n) ==
    IF scan[n].event = "error"
    THEN ScanBecome(n, [scan[n] EXCEPT !.pc = "load"])
    ELSE ScanEnd(n)

\* What is done after the event was applied, or was not: nothing after "fail".
AfterEvent(n) ==
    IF scan[n].event = "error"
    THEN ScanBecome(n, [scan[n] EXCEPT !.pc = "load", !.event = "fail"])
    ELSE ScanEnd(n)

\* LoadVolume, and applyEvent up to its database calls.  A volume that is not
\* in an in-progress state (any more) goes for "fail" at once.
ScanLoad(n) ==
    /\ ScanAt(n, "load")
    /\ LET s == scan[n]
           event == IF s.event = "error" /\ CanTransition(db[n].state, "error")
                    THEN "error" ELSE "fail"
           to == Transition(db[n].state, event)
       IN \/ /\ CanTransition(db[n].state, event)
             /\ ScanBecome(n, [pc |-> "update", event |-> event,
                               vol |-> [db[n] EXCEPT !.state = to]])
             /\ UNCHANGED faults
          \/ /\ CanTransition(db[n].state, event)
             /\ StartupContextDone
             /\ IF event = "error"
                THEN ScanBecome(n, [s EXCEPT !.event = "fail"])
                ELSE ScanEnd(n)
          \/ /\ ~CanTransition(db[n].state, event)
             /\ ScanEnd(n)
             /\ UNCHANGED faults
          \/ DbFails /\ ScanEnd(n)
    /\ UNCHANGED <<db, audit, backend, task, closing, startup, cephOnly, restarts>>

ScanUpdate(n) ==
    /\ ScanAt(n, "update")
    /\ LET s == scan[n]
       IN \/ /\ Write(n, s.vol)
             /\ ScanBecome(n, [s EXCEPT !.pc = "record"])
             /\ UNCHANGED faults
          \/ /\ WriteFails(n, s.vol)
             /\ AfterEvent(n)
    /\ UNCHANGED <<audit, backend, task, closing, startup, cephOnly, restarts>>

ScanRecord(n) ==
    /\ ScanAt(n, "record")
    /\ Audited(n)
    /\ AfterEvent(n)
    /\ UNCHANGED <<db, backend, task, closing, startup, cephOnly, restarts>>

(***************************************************************************)
(* The goroutine of one volume of the backend.  It would import a volume   *)
(* that has no row, but the backend only lists volumes that goroutines of  *)
(* this life created, and these began with the row (NothingToImport).      *)
(***************************************************************************)
ScanImport(n) ==
    /\ ScanAt(n, "import")
    /\ db[n] # NoRow
    /\ ScanEnd(n)
    /\ (UNCHANGED faults \/ DbFails)
    /\ UNCHANGED <<db, audit, backend, task, closing, startup, cephOnly, restarts>>

-----------------------------------------------------------------------------
\* Close waits for the start-up goroutine as for the retry goroutines.
FeatureClose ==
    /\ \/ closing = "open" /\ closing' = "canceled"
       \/ /\ closing = "canceled"
          /\ closing' = IF startup = "done" /\ \A t \in Tasks : ~Worker(t)
                        THEN "drained" ELSE "timedout"
    /\ UNCHANGED <<db, audit, backend, task, faults, startVars>>

\* Faulty: the volumes are known again before the rows are looked at.
ForgottenByNone(b) == b

\* What is left of a volume after a restart: both backends start with an empty
\* map; the Ceph cluster keeps the image.
Forgotten(b) == [b EXCEPT !.state = "absent", !.node = NoNode]

\* The process crashes, or exits, and starts again, configured anew.  The
\* in-memory rows are lost; the Postgres database may be a new one.
Restart ==
    /\ restarts < MaxRestarts
    /\ restarts' = restarts + 1
    /\ \/ Repo = "postgres" /\ UNCHANGED <<db, audit>>
       \/ /\ db' = [n \in Names |-> NoRow]
          /\ audit' = [n \in Names |-> "none"]
    /\ backend' = [n \in Names |-> Forgotten(backend[n])]
    /\ task' = [t \in Tasks |-> Idle]
    /\ closing' = "open"
    /\ startup' = "list"
    /\ scan' = [n \in Names |-> Idle]
    /\ cephOnly' \in CephOnlys
    /\ UNCHANGED faults

ScanStep(n) ==
    \/ ScanInspect(n)
    \/ ScanAlign(n) \/ ScanWrite(n) \/ ScanLog(n)
    \/ ScanLoad(n) \/ ScanUpdate(n) \/ ScanRecord(n)
    \/ ScanImport(n)

Start == List \/ Join \/ ListBackend

Progress ==
    \/ \E t \in Tasks : Step(t) /\ UNCHANGED startVars
    \/ Start
    \/ \E n \in Names : ScanStep(n)
    \/ FeatureClose
    \/ Restart

\* The server accepts requests while the reconciliation runs.
FeatureNext ==
    \/ \E t \in Tasks, op \in Ops, n \in Names, node \in Nodes \cup {NoNode} :
            Orderly(op, n) /\ Arrive(t, op, n, node) /\ UNCHANGED startVars
    \/ Progress

FeatureSpec == FeatureInit /\ [][FeatureNext]_featureVars

\* Clients that also wait for the reconciliation to end.
PatientNext ==
    \/ \E t \in Tasks, op \in Ops, n \in Names, node \in Nodes \cup {NoNode} :
            /\ startup = "done"
            /\ Orderly(op, n)
            /\ Arrive(t, op, n, node)
            /\ UNCHANGED startVars
    \/ Progress

PatientSpec == FeatureInit /\ [][PatientNext]_featureVars

FeatureFairness ==
    /\ \A t \in Tasks : WF_featureVars(Step(t) /\ UNCHANGED startVars)
    /\ WF_featureVars(Start)
    /\ \A n \in Names : WF_featureVars(ScanStep(n))

FairFeatureSpec == FeatureSpec /\ FeatureFairness
FairPatientSpec == PatientSpec /\ FeatureFairness

-----------------------------------------------------------------------------
\* Close reports the goroutines gone only when no start-up goroutine is left.
DrainedMeansReconciled ==
    closing = "drained" => startup = "done" /\ \A n \in Names : scan[n] = Idle

\* What the backend has, a row of this database tells of, over crashes, restarts
\* and new databases: the import of volumes without a row has nothing to do.
NothingToImport ==
    \A n \in Names : Present(backend[n]) \/ ScanAt(n, "import") => db[n] # NoRow

\* The start-up goroutine, which Close waits for, ends: those it joins do, whatever
\* the database answers and whatever requests do to the rows meanwhile.
StartupEnds == startup # "done" ~> startup = "done"

\* The backend's volumes are shown as they are to clients that wait for start-up: a
\* volume it has that is shown as available is free, one shown as attached is on
\* the node its row names, and none of them is shown as deleted or not yet there.
KnownAreTrue ==
    \A n \in Names :
        Present(backend[n]) =>
            /\ db[n].state \notin {"none", "pending", "deleted"}
            /\ db[n].state = "available" => backend[n].state = "available"
            /\ db[n].state = "attached" =>
                   backend[n].state = "attached" /\ backend[n].node = db[n].node

-----------------------------------------------------------------------------
(* What the repository says and the code does not do. *)

\* What was begun goes on by itself or, if the process crashed, by the next start-up,
\* as long as nobody stops the service.
Unfinished == Transitional \cup {"pending"}

UnfinishedMovesOn ==
    [](closing = "open") =>
        \A n \in Names : db[n].state \in Unfinished ~> db[n].state \notin Unfinished

\* Start-up reconciles volumes the previous life interrupted, never one that a
\* request of this life is working on.
OnlyInterrupted ==
    [][\A n \in Names :
          ScanStep(n) /\ db'[n] # db[n]
              => ~\E t \in Tasks : Worker(t) /\ task[t].name = n]_featureVars

=============================================================================

---------------------------- MODULE NvmeofTarget ----------------------------
(***************************************************************************)
(* The NVMe-oF target (transport/nvmeof/target.go): which volumes it lists *)
(* as exposed, and what the kernel's configfs holds.  A call keeps the     *)
(* mutex from beginning to end, and every call of the file system may fail *)
(* half-way.  The configfs outlives the process; the list does not.        *)
(***************************************************************************)
EXTENDS Integers

CONSTANTS
    Names,          \* volume names
    Backends,       \* names of the backends that volumes come from
    MaxFailures,    \* bound: file system calls that fail
    MaxCrashes      \* bound: deaths of the process

ASSUME MaxFailuresAssumption == MaxFailures \in Nat
ASSUME MaxCrashesAssumption == MaxCrashes \in Nat

VARIABLES
    exposed,    \* the device each volume is listed with, or "none"
    subsys,     \* the subsystem directory of each volume
    op,         \* the call that holds the mutex
    faulted,    \* names that an error of a call names, or that a crash has left, and
                \* that none has succeeded on since
    overlooked, \* names that Close could not remove while its error names another
    failures,   \* failed file system calls so far
    crashes     \* crashes so far

targetVars == <<exposed, subsys, op, faulted, overlooked, failures, crashes>>

DevPaths == {"rbd", "block"}

\* What attr_allow_any_host and namespaces/1/device_path say; "" is a file that was
\* truncated and not written.
Files == [hosts : {"none", "", "1"}, namespace : BOOLEAN, device : DevPaths \cup {"none", ""}]
Dir   == {d \in Files : d.device # "none" => d.namespace}
NoDir == [hosts |-> "absent", namespace |-> FALSE, device |-> "none"]
Empty == [hosts |-> "none", namespace |-> FALSE, device |-> "none"]

Released == [call |-> "none"]

Exposing   == [call : {"subsystem", "hosts", "namespace", "device"},
               name : Names, backend : Backends]
Unexposing == [call : {"unexpose"}, name : Names]
\* What Close could not remove, and what of it its error names so far.
ClosingAll == [call : {"close"}, failed : SUBSET Names, last : SUBSET Names]

TargetTypeOK ==
    /\ exposed \in [Names -> DevPaths \cup {"none"}]
    /\ subsys \in [Names -> Dir \cup {NoDir}]
    /\ op \in Exposing \cup Unexposing \cup ClosingAll \cup {Released}
    /\ faulted \subseteq Names
    /\ overlooked \subseteq Names
    /\ failures \in 0..MaxFailures
    /\ crashes \in 0..MaxCrashes

TargetInit ==
    /\ exposed = [n \in Names |-> "none"]
    /\ subsys = [n \in Names |-> NoDir]
    /\ op = Released
    /\ faulted = {}
    /\ overlooked = {}
    /\ failures = 0
    /\ crashes = 0

-----------------------------------------------------------------------------
\* The directory of the block devices that a backend's volumes are found in.
devPathFor(backend) == IF backend = "ceph" THEN "rbd" ELSE "block"

Listed(n) == exposed[n] # "none"

Fails == failures < MaxFailures /\ failures' = failures + 1

\* What was said of the name is settled.
Settled(n) == faulted' = faulted \ {n} /\ overlooked' = overlooked \ {n}

\* The call returns without an error, or with one, about the name.
Succeed(n) == op' = Released /\ Settled(n)
Report(n)  == op' = Released /\ faulted' = faulted \cup {n} /\ UNCHANGED overlooked

Proceed(call) == op' = [op EXCEPT !.call = call] /\ UNCHANGED <<faulted, overlooked>>

\* Files of a directory that remain when it could not be removed.
Remains(d) ==
    IF d = NoDir THEN {NoDir}
    ELSE { r \in Dir :
             /\ r.hosts \in {"none", d.hosts}
             /\ r.namespace => d.namespace
             /\ r.device \in {"none", d.device} }

-----------------------------------------------------------------------------
(* ExposeVolume *)

\* Faulty: a volume that is listed is exposed once more.
ExposeVolumeAgain(n, backend) ==
    /\ op = Released
    /\ op' = [call |-> "subsystem", name |-> n, backend |-> backend]
    /\ UNCHANGED <<exposed, subsys, faulted, overlooked, failures, crashes>>

\* Of a volume that is already listed it makes an error and nothing else.
ExposeVolume(n, backend) ==
    /\ op = Released
    /\ ~Listed(n)
    /\ op' = [call |-> "subsystem", name |-> n, backend |-> backend]
    /\ UNCHANGED <<exposed, subsys, faulted, overlooked, failures, crashes>>

\* MkdirAll of the subsystem's directory, which may be there from before.
MakeSubsystem ==
    /\ op.call = "subsystem"
    /\ LET made == [subsys EXCEPT ![op.name] = IF @ = NoDir THEN Empty ELSE @]
       IN \/ subsys' = made /\ Proceed("hosts") /\ UNCHANGED failures
          \/ subsys' \in {subsys, made} /\ Report(op.name) /\ Fails
    /\ UNCHANGED <<exposed, crashes>>

\* Faulty: the namespace is taken to be there.
AllowHostsOnly ==
    /\ op.call = "hosts"
    /\ subsys' = [subsys EXCEPT ![op.name].hosts = "1"]
    /\ Proceed("device")
    /\ UNCHANGED <<exposed, failures, crashes>>

\* WriteFile of attr_allow_any_host.
AllowHosts ==
    /\ op.call = "hosts"
    /\ \/ /\ subsys' = [subsys EXCEPT ![op.name].hosts = "1"]
          /\ Proceed("namespace") /\ UNCHANGED failures
       \/ /\ \E h \in {subsys[op.name].hosts, "", "1"} :
                subsys' = [subsys EXCEPT ![op.name].hosts = h]
          /\ Report(op.name) /\ Fails
    /\ UNCHANGED <<exposed, crashes>>

MakeNamespace ==
    /\ op.call = "namespace"
    /\ LET made == [subsys EXCEPT ![op.name].namespace = TRUE]
       IN \/ subsys' = made /\ Proceed("device") /\ UNCHANGED failures
          \/ subsys' \in {subsys, made} /\ Report(op.name) /\ Fails
    /\ UNCHANGED <<exposed, crashes>>

\* Faulty: a device_path that is there already is left as it is.
SetDeviceOnce ==
    /\ op.call = "device"
    /\ LET dev == devPathFor(op.backend)
       IN /\ subsys' = [subsys EXCEPT ![op.name].device = IF @ = "none" THEN dev ELSE @]
          /\ exposed' = [exposed EXCEPT ![op.name] = dev]
    /\ Succeed(op.name)
    /\ UNCHANGED <<failures, crashes>>

\* WriteFile of device_path; only then is the volume listed.
SetDevice ==
    /\ op.call = "device"
    /\ LET dev == devPathFor(op.backend)
       IN \/ /\ subsys' = [subsys EXCEPT ![op.name].device = dev]
             /\ exposed' = [exposed EXCEPT ![op.name] = dev]
             /\ Succeed(op.name) /\ UNCHANGED failures
          \/ /\ \E d \in {subsys[op.name].device, "", dev} :
                   subsys' = [subsys EXCEPT ![op.name].device = d]
             /\ Report(op.name) /\ Fails
             /\ UNCHANGED exposed
    /\ UNCHANGED crashes

-----------------------------------------------------------------------------
(* UnexposeVolume and Close *)

\* Of a volume that is not listed it makes an error and nothing else.
UnexposeVolume(n) ==
    /\ op = Released
    /\ Listed(n)
    /\ op' = [call |-> "unexpose", name |-> n]
    /\ UNCHANGED <<exposed, subsys, faulted, overlooked, failures, crashes>>

Unlist(n) == exposed' = [exposed EXCEPT ![n] = "none"]

\* RemoveAll; what could not be removed stays listed.
Remove ==
    /\ op.call = "unexpose"
    /\ LET n == op.name
       IN \/ /\ subsys' = [subsys EXCEPT ![n] = NoDir]
             /\ Unlist(n)
             /\ Succeed(n) /\ UNCHANGED failures
          \/ /\ \E d \in Remains(subsys[n]) : subsys' = [subsys EXCEPT ![n] = d]
             /\ Report(n) /\ Fails
             /\ UNCHANGED exposed
    /\ UNCHANGED crashes

Close ==
    /\ op = Released
    /\ op' = [call |-> "close", failed |-> {}, last |-> {}]
    /\ UNCHANGED <<exposed, subsys, faulted, overlooked, failures, crashes>>

\* RemoveAll for one volume of the list after another; what could not be removed
\* is forgotten, too, and its error takes the place of the one before.
CloseNext ==
    /\ op.call = "close"
    /\ \E n \in Names :
          /\ Listed(n)
          /\ Unlist(n)
          /\ \/ /\ subsys' = [subsys EXCEPT ![n] = NoDir]
                /\ Settled(n)
                /\ UNCHANGED <<op, failures>>
             \/ /\ \E d \in Remains(subsys[n]) : subsys' = [subsys EXCEPT ![n] = d]
                /\ op' = [op EXCEPT !.failed = @ \cup {n}, !.last = {n}]
                /\ Fails
                /\ UNCHANGED <<faulted, overlooked>>
    /\ UNCHANGED crashes

\* Faulty: the errors of the removals are dropped.
CloseReturnsNil ==
    /\ op.call = "close"
    /\ \A n \in Names : ~Listed(n)
    /\ op' = Released
    /\ UNCHANGED <<exposed, subsys, faulted, overlooked, failures, crashes>>

\* The last error is returned, and names one volume whatever else has failed.
CloseReturns ==
    /\ op.call = "close"
    /\ \A n \in Names : ~Listed(n)
    /\ op' = Released
    /\ faulted' = faulted \cup op.last
    /\ overlooked' = IF op.last = {} THEN overlooked
                     ELSE overlooked \cup (op.failed \ op.last)
    /\ UNCHANGED <<exposed, subsys, failures, crashes>>

-----------------------------------------------------------------------------
\* The process dies, at any step, and a new one begins with an empty list.
Crash ==
    /\ crashes < MaxCrashes
    /\ crashes' = crashes + 1
    /\ exposed' = [n \in Names |-> "none"]
    /\ op' = Released
    /\ faulted' = faulted \cup {n \in Names : subsys[n] # NoDir}
    /\ UNCHANGED <<subsys, overlooked, failures>>

\* A step of the call that holds the mutex.
TargetStep ==
    \/ MakeSubsystem \/ AllowHosts \/ MakeNamespace \/ SetDevice
    \/ Remove
    \/ CloseNext \/ CloseReturns

TargetNext ==
    \/ \E n \in Names, backend \in Backends : ExposeVolume(n, backend)
    \/ \E n \in Names : UnexposeVolume(n)
    \/ Close
    \/ TargetStep
    \/ Crash

TargetSpec == TargetInit /\ [][TargetNext]_targetVars

-----------------------------------------------------------------------------
\* A volume that is listed is served: to every host, from the device its entry
\* names, whatever an earlier attempt, another backend or a process that died left
\* in its directory; unless a removal has failed half-way on it.
ListedIsServed ==
    \A n \in Names :
        Listed(n) /\ n \notin faulted =>
            subsys[n] = [hosts |-> "1", namespace |-> TRUE, device |-> exposed[n]]

\* The call under way works on the name.
Busy(n) ==
    \/ op.call \in {"subsystem", "hosts", "namespace", "device"} /\ op.name = n
    \/ op.call = "close" /\ n \in op.failed

\* No call leaves anything in the configfs behind the list's back and returns nil.
\* What is left there was left by a crash, or by a call whose error names it; or else
\* by a Close that had more failures than the one its error names.
NothingIsLeftInSilence ==
    \A n \in Names :
        subsys[n] # NoDir /\ ~Listed(n) => n \in faulted \cup overlooked \/ Busy(n)

\* The device behind a subsystem that is served does not change under its hosts: only
\* a call that removes it takes it away.
DeviceIsStable ==
    [][\A n \in Names :
          Listed(n) /\ subsys'[n].device # subsys[n].device
              => op.call \in {"unexpose", "close"}]_targetVars

=============================================================================

------------------------- MODULE NvmeofTargetProofs -------------------------
(***************************************************************************)
(* The NVMe-oF target for any volumes, backends, failures and crashes: its *)
(* list and the configfs agree, and no call leaves anything over in silence.*)
(***************************************************************************)
EXTENDS NvmeofTarget, TLAPS

ExposingCalls == {"subsystem", "hosts", "namespace", "device"}

\* How far the call that holds the mutex has come, and what the list says of the
\* volume it works on.
CallInv ==
    /\ op.call \in ExposingCalls => op.name \in Names /\ op.backend \in Backends /\ ~Listed(op.name)
    /\ op.call \in {"hosts", "namespace", "device"} => subsys[op.name] # NoDir
    /\ op.call \in {"namespace", "device"} => subsys[op.name].hosts = "1"
    /\ op.call = "device" => subsys[op.name].namespace
    /\ op.call = "unexpose" => op.name \in Names /\ Listed(op.name)
    /\ op.call = "close" => /\ op.failed \subseteq Names /\ op.last \subseteq op.failed
                           /\ (op.last = {} => op.failed = {})

TargetInv == TargetTypeOK /\ CallInv /\ ListedIsServed /\ NothingIsLeftInSilence

-----------------------------------------------------------------------------
\* At first nothing is exposed, in the list or in the configfs.
LEMMA TargetInitInv == TargetInit => TargetInv
BY MaxFailuresAssumption, MaxCrashesAssumption
   DEF TargetInit, TargetInv, TargetTypeOK, CallInv, ListedIsServed, NothingIsLeftInSilence,
       Listed, Busy, NoDir, Released, ExposingCalls

\* What is left of a directory is a directory, if it was one.
LEMMA RemainsAreDirs ==
    ASSUME NEW d \in Dir \cup {NoDir}, NEW r \in Remains(d)
    PROVE  /\ r \in Dir \cup {NoDir}
           /\ d = NoDir => r = NoDir
BY DEF Remains, Dir, NoDir

\* The start of an exposure or of a removal.
LEMMA StartsKeep ==
    ASSUME TargetInv, NEW n \in Names,
           (\E backend \in Backends : ExposeVolume(n, backend)) \/ UnexposeVolume(n)
    PROVE  TargetInv'
<1> USE DEF TargetInv
<1>1. CASE \E backend \in Backends : ExposeVolume(n, backend)
  <2>1. PICK backend \in Backends : ExposeVolume(n, backend)
    BY <1>1
  <2>2. TargetTypeOK'
    BY <2>1 DEF TargetTypeOK, ExposeVolume, Exposing
  <2>3. CallInv'
    BY <2>1 DEF CallInv, ExposeVolume, ExposingCalls, Listed
  <2>4. (ListedIsServed /\ NothingIsLeftInSilence)'
    BY <2>1 DEF ListedIsServed, NothingIsLeftInSilence, ExposeVolume, Listed, Busy, Released
  <2> QED
    BY <2>2, <2>3, <2>4
<1>2. CASE UnexposeVolume(n)
  <2>1. TargetTypeOK'
    BY <1>2 DEF TargetTypeOK, UnexposeVolume, Unexposing
  <2>2. CallInv'
    BY <1>2 DEF CallInv, UnexposeVolume, ExposingCalls, Listed
  <2>3. (ListedIsServed /\ NothingIsLeftInSilence)'
    BY <1>2 DEF ListedIsServed, NothingIsLeftInSilence, UnexposeVolume, Listed, Busy, Released
  <2> QED
    BY <2>1, <2>2, <2>3
<1> QED
  BY <1>1, <1>2

\* The start of Close.
LEMMA CloseKeeps ==
    ASSUME TargetInv, Close
    PROVE  TargetInv'
<1> USE DEF TargetInv
<1>1. TargetTypeOK'
  BY DEF TargetTypeOK, Close, ClosingAll
<1>2. CallInv'
  BY DEF CallInv, Close, ExposingCalls, Listed
<1>3. (ListedIsServed /\ NothingIsLeftInSilence)'
  BY DEF ListedIsServed, NothingIsLeftInSilence, Close, Listed, Busy, Released
<1> QED
  BY <1>1, <1>2, <1>3

-----------------------------------------------------------------------------
(* The steps of ExposeVolume: the directory fills up in order, so a volume is  *)
(* listed when nothing is missing in it.                                       *)

\* A call of ExposeVolume knows its volume, which is not listed, and from the
\* second step on finds its directory.
LEMMA CallUnderWay ==
    ASSUME TargetInv, op.call \in ExposingCalls
    PROVE  /\ op \in Exposing /\ op.name \in Names /\ ~Listed(op.name)
           /\ op.call # "subsystem" => subsys[op.name] \in Dir
<1>1. op \in Exposing
  BY DEF TargetInv, TargetTypeOK, ExposingCalls, Exposing, Unexposing, ClosingAll, Released
<1>2. op.name \in Names /\ ~Listed(op.name)
  BY DEF TargetInv, CallInv
<1>3. op.call # "subsystem" => subsys[op.name] # NoDir
  BY DEF TargetInv, CallInv, ExposingCalls
<1> QED
  BY <1>1, <1>2, <1>3 DEF TargetInv, TargetTypeOK

\* A call that is over leaves nothing to be kept.
LEMMA OverKeeps ==
    ASSUME op' = Released
    PROVE  CallInv'
BY DEF CallInv, Released, ExposingCalls

\* What is written into a directory leaves a directory.
LEMMA FilledDirs ==
    ASSUME NEW d \in Dir, NEW h \in {d.hosts, "", "1"}
    PROVE  /\ [d EXCEPT !.hosts = h] \in Dir
           /\ [d EXCEPT !.namespace = TRUE] \in Dir
<1>1. d \in Files /\ (d.device # "none" => d.namespace)
  BY DEF Dir
<1>2. [d EXCEPT !.hosts = h] \in Dir
  BY <1>1 DEF Dir, Files
<1>3. [d EXCEPT !.namespace = TRUE] \in Dir
  BY <1>1 DEF Dir, Files
<1> QED
  BY <1>2, <1>3

\* A directory that was just made is one.
LEMMA EmptyIsDir == Empty \in Dir
BY DEF Empty, Dir, Files

\* Failures are counted up to their bound.
LEMMA FailsKeeps ==
    ASSUME failures \in 0..MaxFailures, Fails
    PROVE  failures' \in 0..MaxFailures
BY MaxFailuresAssumption DEF Fails

\* Making the subsystem's directory, or failing to.
LEMMA MakeSubsystemKeeps ==
    ASSUME TargetInv, MakeSubsystem
    PROVE  TargetInv'
<1> USE DEF TargetInv
<1> DEFINE n == op.name
           made == [subsys EXCEPT ![n] = IF @ = NoDir THEN Empty ELSE @]
<1>0. op \in Exposing /\ n \in Names /\ ~Listed(n)
  BY CallUnderWay DEF MakeSubsystem, CallInv, ExposingCalls
<1>1. CASE subsys' = made /\ Proceed("hosts") /\ UNCHANGED failures
  <2>1. /\ op' \in Exposing /\ op'.call = "hosts" /\ op'.name = n /\ op'.backend \in Backends
        /\ subsys' \in [Names -> Dir \cup {NoDir}]
        /\ subsys'[n] # NoDir
    BY <1>0, <1>1 DEF Proceed, Exposing, TargetTypeOK, Empty, NoDir, Dir, Files
  <2>2. TargetTypeOK'
    BY <1>1, <2>1 DEF TargetTypeOK, MakeSubsystem, Proceed
  <2>3. CallInv'
    BY <1>0, <2>1 DEF CallInv, ExposingCalls, Listed, MakeSubsystem, Exposing
  <2>4. (ListedIsServed /\ NothingIsLeftInSilence)'
    BY <1>0, <1>1, <2>1 DEF ListedIsServed, NothingIsLeftInSilence, MakeSubsystem, Proceed, Listed, Busy,
                            TargetTypeOK, Exposing
  <2> QED
    BY <2>2, <2>3, <2>4
<1>2. CASE subsys' \in {subsys, made} /\ Report(n) /\ Fails
  <2>0. PICK d \in {subsys[n], IF subsys[n] = NoDir THEN Empty ELSE subsys[n]} :
            subsys' = [subsys EXCEPT ![n] = d]
    BY <1>0, <1>2 DEF TargetTypeOK
  <2>5. d \in Dir \cup {NoDir}
    BY <1>0, <2>0, EmptyIsDir DEF TargetTypeOK
  <2>1. subsys' \in [Names -> Dir \cup {NoDir}] /\ \A m \in Names \ {n} : subsys'[m] = subsys[m]
    BY <1>0, <2>0, <2>5 DEF TargetTypeOK
  <2>2. TargetTypeOK'
    BY <1>0, <1>2, <2>1, FailsKeeps DEF TargetTypeOK, MakeSubsystem, Report, Exposing
  <2>3. CallInv'
    BY <1>2, OverKeeps DEF Report
  <2>4. (ListedIsServed /\ NothingIsLeftInSilence)'
    BY <1>0, <1>2, <2>1 DEF ListedIsServed, NothingIsLeftInSilence, MakeSubsystem, Report, Listed, Busy,
                            TargetTypeOK, Exposing, Released
  <2> QED
    BY <2>2, <2>3, <2>4
<1> QED
  BY <1>1, <1>2 DEF MakeSubsystem

\* Letting all hosts in, or failing to.
LEMMA AllowHostsKeeps ==
    ASSUME TargetInv, AllowHosts
    PROVE  TargetInv'
<1> USE DEF TargetInv
<1> DEFINE n == op.name
           made == [subsys EXCEPT ![n].hosts = "1"]
<1>0. op \in Exposing /\ n \in Names /\ ~Listed(n) /\ subsys[n] \in Dir
  BY CallUnderWay DEF AllowHosts, CallInv, ExposingCalls
<1>1. CASE subsys' = made /\ Proceed("namespace") /\ UNCHANGED failures
  <2>1. /\ op' \in Exposing /\ op'.call = "namespace" /\ op'.name = n /\ op'.backend \in Backends
        /\ subsys' \in [Names -> Dir \cup {NoDir}]
        /\ subsys'[n] # NoDir /\ subsys'[n].hosts = "1"
    BY <1>0, <1>1 DEF Proceed, Exposing, TargetTypeOK, NoDir, Dir, Files
  <2>2. TargetTypeOK'
    BY <1>1, <2>1 DEF TargetTypeOK, AllowHosts, Proceed
  <2>3. CallInv'
    BY <1>0, <2>1 DEF CallInv, ExposingCalls, Listed, AllowHosts, Exposing
  <2>4. (ListedIsServed /\ NothingIsLeftInSilence)'
    BY <1>0, <1>1, <2>1 DEF ListedIsServed, NothingIsLeftInSilence, AllowHosts, Proceed, Listed, Busy,
                            TargetTypeOK, Exposing
  <2> QED
    BY <2>2, <2>3, <2>4
<1>2. CASE (\E h \in {subsys[n].hosts, "", "1"} : subsys' = [subsys EXCEPT ![n].hosts = h]) /\ Report(n) /\ Fails
  <2>0. PICK d \in {[subsys[n] EXCEPT !.hosts = h] : h \in {subsys[n].hosts, "", "1"}} :
            subsys' = [subsys EXCEPT ![n] = d]
    BY <1>0, <1>2 DEF TargetTypeOK
  <2>5. d \in Dir \cup {NoDir}
    BY <1>0, <2>0, FilledDirs
  <2>1. subsys' \in [Names -> Dir \cup {NoDir}] /\ \A m \in Names \ {n} : subsys'[m] = subsys[m]
    BY <1>0, <2>0, <2>5 DEF TargetTypeOK
  <2>2. TargetTypeOK'
    BY <1>0, <1>2, <2>1, FailsKeeps DEF TargetTypeOK, AllowHosts, Report, Exposing
  <2>3. CallInv'
    BY <1>2, OverKeeps DEF Report
  <2>4. (ListedIsServed /\ NothingIsLeftInSilence)'
    BY <1>0, <1>2, <2>1 DEF ListedIsServed, NothingIsLeftInSilence, AllowHosts, Report, Listed, Busy,
                            TargetTypeOK, Exposing, Released
  <2> QED
    BY <2>2, <2>3, <2>4
<1> QED
  BY <1>1, <1>2 DEF AllowHosts

\* Making the namespace, or failing to.
LEMMA MakeNamespaceKeeps ==
    ASSUME TargetInv, MakeNamespace
    PROVE  TargetInv'
<1> USE DEF TargetInv
<1> DEFINE n == op.name
           made == [subsys EXCEPT ![n].namespace = TRUE]
<1>0. op \in Exposing /\ n \in Names /\ ~Listed(n) /\ subsys[n] \in Dir /\ subsys[n].hosts = "1"
  BY CallUnderWay DEF MakeNamespace, CallInv, ExposingCalls
<1>1. CASE subsys' = made /\ Proceed("device") /\ UNCHANGED failures
  <2>1. /\ op' \in Exposing /\ op'.call = "device" /\ op'.name = n /\ op'.backend \in Backends
        /\ subsys' \in [Names -> Dir \cup {NoDir}]
        /\ subsys'[n] # NoDir /\ subsys'[n].hosts = "1" /\ subsys'[n].namespace
    BY <1>0, <1>1 DEF Proceed, Exposing, TargetTypeOK, NoDir, Dir, Files
  <2>2. TargetTypeOK'
    BY <1>1, <2>1 DEF TargetTypeOK, MakeNamespace, Proceed
  <2>3. CallInv'
    BY <1>0, <2>1 DEF CallInv, ExposingCalls, Listed, MakeNamespace, Exposing
  <2>4. (ListedIsServed /\ NothingIsLeftInSilence)'
    BY <1>0, <1>1, <2>1 DEF ListedIsServed, NothingIsLeftInSilence, MakeNamespace, Proceed, Listed, Busy,
                            TargetTypeOK, Exposing
  <2> QED
    BY <2>2, <2>3, <2>4
<1>2. CASE subsys' \in {subsys, made} /\ Report(n) /\ Fails
  <2>0. PICK d \in {subsys[n], [subsys[n] EXCEPT !.namespace = TRUE]} :
            subsys' = [subsys EXCEPT ![n] = d]
    BY <1>0, <1>2 DEF TargetTypeOK
  <2>5. d \in Dir \cup {NoDir}
    BY <1>0, <2>0, FilledDirs
  <2>1. subsys' \in [Names -> Dir \cup {NoDir}] /\ \A m \in Names \ {n} : subsys'[m] = subsys[m]
    BY <1>0, <2>0, <2>5 DEF TargetTypeOK
  <2>2. TargetTypeOK'
    BY <1>0, <1>2, <2>1, FailsKeeps DEF TargetTypeOK, MakeNamespace, Report, Exposing
  <2>3. CallInv'
    BY <1>2, OverKeeps DEF Report
  <2>4. (ListedIsServed /\ NothingIsLeftInSilence)'
    BY <1>0, <1>2, <2>1 DEF ListedIsServed, NothingIsLeftInSilence, MakeNamespace, Report, Listed, Busy,
                            TargetTypeOK, Exposing, Released
  <2> QED
    BY <2>2, <2>3, <2>4
<1> QED
  BY <1>1, <1>2 DEF MakeNamespace

\* Writing the device and listing the volume, or failing to.
LEMMA SetDeviceKeeps ==
    ASSUME TargetInv, SetDevice
    PROVE  TargetInv'
<1> USE DEF TargetInv
<1> DEFINE n == op.name
           dev == devPathFor(op.backend)
<1>0. /\ op \in Exposing /\ n \in Names /\ ~Listed(n) /\ dev \in DevPaths
      /\ subsys[n] \in Dir /\ subsys[n].hosts = "1" /\ subsys[n].namespace
  BY CallUnderWay DEF SetDevice, CallInv, ExposingCalls, devPathFor, DevPaths
<1>1. CASE /\ subsys' = [subsys EXCEPT ![n].device = dev]
           /\ exposed' = [exposed EXCEPT ![n] = dev]
           /\ Succeed(n) /\ UNCHANGED failures
  <2>1. TargetTypeOK'
    BY <1>0, <1>1 DEF TargetTypeOK, SetDevice, Succeed, Settled, Released, Dir, Files, DevPaths
  <2>2. CallInv'
    BY <1>1 DEF CallInv, Succeed, Settled, Released, ExposingCalls
  <2>3. ListedIsServed'
    <3> SUFFICES ASSUME NEW m \in Names, Listed(m)', m \notin faulted'
                 PROVE  subsys'[m] = [hosts |-> "1", namespace |-> TRUE, device |-> exposed'[m]]
      BY DEF ListedIsServed
    <3>1. CASE m = n
      BY <1>0, <1>1, <3>1 DEF TargetTypeOK, Dir, Files
    <3>2. CASE m # n
      BY <1>0, <1>1, <3>2 DEF ListedIsServed, Listed, Succeed, Settled, TargetTypeOK
    <3> QED
      BY <3>1, <3>2
  <2>4. NothingIsLeftInSilence'
    BY <1>0, <1>1 DEF NothingIsLeftInSilence, Listed, Succeed, Settled, Busy, TargetTypeOK, DevPaths, Exposing,
                      Released
  <2> QED
    BY <2>1, <2>2, <2>3, <2>4
<1>2. CASE /\ \E d \in {subsys[n].device, "", dev} : subsys' = [subsys EXCEPT ![n].device = d]
           /\ Report(n) /\ Fails
           /\ UNCHANGED exposed
  <2>0. PICK d \in {subsys[n].device, "", dev} : subsys' = [subsys EXCEPT ![n].device = d]
    BY <1>2
  <2>1. TargetTypeOK'
    BY <1>0, <1>2, <2>0, FailsKeeps DEF TargetTypeOK, SetDevice, Report, Released, Dir, Files, DevPaths
  <2>2. CallInv'
    BY <1>2 DEF CallInv, Report, Released, ExposingCalls
  <2>3. ListedIsServed'
    BY <1>0, <1>2, <2>0 DEF ListedIsServed, Report, Listed, TargetTypeOK
  <2>4. NothingIsLeftInSilence'
    BY <1>0, <1>2, <2>0 DEF NothingIsLeftInSilence, Report, Listed, Busy, TargetTypeOK, Exposing, Released
  <2> QED
    BY <2>1, <2>2, <2>3, <2>4
<1> QED
  BY <1>1, <1>2 DEF SetDevice

-----------------------------------------------------------------------------
(* UnexposeVolume, Close, and the death of the process.                        *)

\* Removing a directory, all or part of it.
LEMMA RemoveKeeps ==
    ASSUME TargetInv, Remove
    PROVE  TargetInv'
<1> USE DEF TargetInv
<1> DEFINE n == op.name
<1>0. n \in Names /\ Listed(n) /\ op.call = "unexpose"
  BY DEF Remove, CallInv
<1>1. op' = Released
  BY DEF Remove, Succeed, Settled, Report
<1>2. CallInv'
  BY <1>1, OverKeeps
<1>3. CASE subsys' = [subsys EXCEPT ![n] = NoDir] /\ Unlist(n) /\ Succeed(n) /\ UNCHANGED failures
  <2>1. TargetTypeOK'
    BY <1>0, <1>1, <1>3 DEF TargetTypeOK, Remove, Unlist, Succeed, Settled
  <2>2. ListedIsServed'
    BY <1>0, <1>3 DEF ListedIsServed, Unlist, Succeed, Settled, Listed, TargetTypeOK
  <2>3. NothingIsLeftInSilence'
    BY <1>0, <1>1, <1>3 DEF NothingIsLeftInSilence, Unlist, Succeed, Settled, Listed, Busy, TargetTypeOK
  <2> QED
    BY <1>2, <2>1, <2>2, <2>3
<1>4. CASE /\ \E d \in Remains(subsys[n]) : subsys' = [subsys EXCEPT ![n] = d]
           /\ Report(n) /\ Fails
           /\ UNCHANGED exposed
  <2>1. PICK d \in Remains(subsys[n]) : subsys' = [subsys EXCEPT ![n] = d]
    BY <1>4
  <2>2. subsys[n] \in Dir \cup {NoDir}
    BY <1>0 DEF TargetTypeOK
  <2>3. d \in Dir \cup {NoDir}
    BY <2>2, RemainsAreDirs
  <2>4. TargetTypeOK'
    BY <1>0, <1>1, <1>4, <2>1, <2>3, FailsKeeps DEF TargetTypeOK, Remove, Report
  <2>5. ListedIsServed'
    BY <1>0, <1>4, <2>1 DEF ListedIsServed, Report, Listed, TargetTypeOK
  <2>6. NothingIsLeftInSilence'
    BY <1>0, <1>4, <2>1 DEF NothingIsLeftInSilence, Report, Listed, Busy, TargetTypeOK
  <2> QED
    BY <1>2, <2>4, <2>5, <2>6
<1> QED
  BY <1>3, <1>4 DEF Remove

\* Close takes the next volume.
LEMMA CloseNextKeeps ==
    ASSUME TargetInv, CloseNext
    PROVE  TargetInv'
<1> USE DEF TargetInv
<1>1. PICK n \in Names :
          /\ Listed(n) /\ Unlist(n)
          /\ \/ /\ subsys' = [subsys EXCEPT ![n] = NoDir]
                /\ Settled(n)
                /\ UNCHANGED <<op, failures>>
             \/ /\ \E d \in Remains(subsys[n]) : subsys' = [subsys EXCEPT ![n] = d]
                /\ op' = [op EXCEPT !.failed = @ \cup {n}, !.last = {n}]
                /\ Fails
                /\ UNCHANGED <<faulted, overlooked>>
  BY DEF CloseNext
<1>2. op \in ClosingAll /\ op.call = "close"
  BY DEF CloseNext, TargetTypeOK, Exposing, Unexposing, ClosingAll, Released
<1>3. exposed' = [exposed EXCEPT ![n] = "none"] /\ crashes' = crashes
  BY <1>1 DEF Unlist, CloseNext
<1>4. CASE /\ subsys' = [subsys EXCEPT ![n] = NoDir]
           /\ Settled(n)
           /\ UNCHANGED <<op, failures>>
  <2>1. TargetTypeOK'
    BY <1>3, <1>4 DEF TargetTypeOK, Settled
  <2>2. CallInv'
    BY <1>2, <1>4 DEF CallInv, ExposingCalls
  <2>3. ListedIsServed'
    BY <1>3, <1>4 DEF ListedIsServed, Listed, Settled, TargetTypeOK
  <2>4. NothingIsLeftInSilence'
    BY <1>2, <1>3, <1>4 DEF NothingIsLeftInSilence, Listed, Busy, Settled, TargetTypeOK
  <2> QED
    BY <2>1, <2>2, <2>3, <2>4
<1>5. CASE /\ \E d \in Remains(subsys[n]) : subsys' = [subsys EXCEPT ![n] = d]
           /\ op' = [op EXCEPT !.failed = @ \cup {n}, !.last = {n}]
           /\ Fails
           /\ UNCHANGED <<faulted, overlooked>>
  <2>1. PICK d \in Remains(subsys[n]) : subsys' = [subsys EXCEPT ![n] = d]
    BY <1>5
  <2>2. subsys[n] \in Dir \cup {NoDir}
    BY DEF TargetTypeOK
  <2>3. d \in Dir \cup {NoDir}
    BY <2>2, RemainsAreDirs
  <2>4. /\ op' \in ClosingAll /\ op'.call = "close"
        /\ op'.failed = op.failed \cup {n} /\ op'.last = {n}
    BY <1>2, <1>5 DEF ClosingAll
  <2>5. TargetTypeOK'
    BY <1>3, <1>5, <2>1, <2>3, <2>4, FailsKeeps DEF TargetTypeOK
  <2>6. CallInv'
    BY <2>4 DEF CallInv, ExposingCalls, ClosingAll
  <2>7. ListedIsServed'
    BY <1>3, <1>5, <2>1 DEF ListedIsServed, Listed, TargetTypeOK
  <2>8. NothingIsLeftInSilence'
    BY <1>2, <1>3, <1>5, <2>1, <2>4 DEF NothingIsLeftInSilence, Listed, Busy, TargetTypeOK
  <2> QED
    BY <2>5, <2>6, <2>7, <2>8
<1> QED
  BY <1>1, <1>4, <1>5

\* Close forgets the list.
LEMMA CloseReturnsKeeps ==
    ASSUME TargetInv, CloseReturns
    PROVE  TargetInv'
<1> USE DEF TargetInv
<1>1. /\ op.call = "close" /\ op' = Released
      /\ op.failed \subseteq Names /\ op.last \subseteq op.failed
      /\ op.last = {} => op.failed = {}
  BY DEF CloseReturns, CallInv
<1>2. TargetTypeOK'
  BY <1>1 DEF TargetTypeOK, CloseReturns
<1>3. CallInv'
  BY <1>1, OverKeeps
<1>4. ListedIsServed'
  BY DEF ListedIsServed, CloseReturns, Listed
<1>5. NothingIsLeftInSilence'
  <2>1. ASSUME NEW n \in Names, subsys[n] # NoDir, ~Listed(n)
        PROVE  n \in faulted \cup overlooked \/ n \in op.failed
    BY <1>1, <2>1 DEF NothingIsLeftInSilence, Busy
  <2>2. op.failed \cup faulted \cup overlooked \subseteq faulted' \cup overlooked'
    BY <1>1 DEF CloseReturns
  <2> QED
    BY <2>1, <2>2 DEF NothingIsLeftInSilence, CloseReturns, Listed
<1> QED
  BY <1>2, <1>3, <1>4, <1>5

\* A crash leaves the configfs as it is and loses the list.
LEMMA CrashKeeps ==
    ASSUME TargetInv, Crash
    PROVE  TargetInv'
<1> USE DEF TargetInv
<1>1. TargetTypeOK'
  BY MaxCrashesAssumption DEF TargetTypeOK, Crash
<1>2. CallInv'
  BY OverKeeps DEF Crash
<1>3. ListedIsServed'
  BY DEF ListedIsServed, Crash, Listed
<1>4. NothingIsLeftInSilence'
  BY DEF NothingIsLeftInSilence, Crash, Listed, Busy
<1> QED
  BY <1>1, <1>2, <1>3, <1>4

-----------------------------------------------------------------------------
\* Every step keeps the invariant.
LEMMA TargetNextInv == TargetInv /\ [TargetNext]_targetVars => TargetInv'
<1> SUFFICES ASSUME TargetInv, [TargetNext]_targetVars PROVE TargetInv'
  OBVIOUS
<1>1. CASE TargetNext
  <2>1. CASE \E n \in Names, backend \in Backends : ExposeVolume(n, backend)
    BY <2>1, StartsKeep
  <2>2. CASE \E n \in Names : UnexposeVolume(n)
    BY <2>2, StartsKeep
  <2>3. CASE Close
    BY <2>3, CloseKeeps
  <2>4. CASE TargetStep
    BY <2>4, MakeSubsystemKeeps, AllowHostsKeeps, MakeNamespaceKeeps, SetDeviceKeeps, RemoveKeeps,
       CloseNextKeeps, CloseReturnsKeeps
       DEF TargetStep
  <2>5. CASE Crash
    BY <2>5, CrashKeeps
  <2> QED
    BY <1>1, <2>1, <2>2, <2>3, <2>4, <2>5 DEF TargetNext
<1>2. CASE UNCHANGED targetVars
  BY <1>2 DEF targetVars, TargetInv, TargetTypeOK, CallInv, ListedIsServed, NothingIsLeftInSilence,
              Listed, Busy
<1> QED
  BY <1>1, <1>2

\* The inductive invariant: types, and for each name what the file system calls of
\* the call under way have left so far, holds of every run.
THEOREM TargetIsConsistent == TargetSpec => []TargetInv
BY TargetInitInv, TargetNextInv, PTL DEF TargetSpec

\* The list, the directories and the local variables of the call that holds the mutex
\* keep their types, whatever fails and whenever the process dies.
THEOREM TargetTypeCorrect == TargetSpec => []TargetTypeOK
<1>1. TargetInv => TargetTypeOK
  BY DEF TargetInv
<1> QED
  BY <1>1, TargetIsConsistent, PTL

\* Whatever fails half-way in ExposeVolume and whatever an earlier attempt left
\* behind: a volume that is listed, and on which no removal failed, is served from
\* the device its entry names.
THEOREM ListedVolumesAreServed == TargetSpec => []ListedIsServed
<1>1. TargetInv => ListedIsServed
  BY DEF TargetInv
<1> QED
  BY <1>1, TargetIsConsistent, PTL

\* Whatever the calls leave in the configfs without listing it, the process died over
\* it, or the call returned an error: one that names it, or, of a Close that failed on
\* several volumes, one that names another.
THEOREM NoLeftoverInSilence == TargetSpec => []NothingIsLeftInSilence
<1>1. TargetInv => NothingIsLeftInSilence
  BY DEF TargetInv
<1> QED
  BY <1>1, TargetIsConsistent, PTL

\* No call but one that removes a listed volume changes the device behind it.
THEOREM DevicesAreStable == TargetSpec => DeviceIsStable
<1>1. TargetInv /\ [TargetNext]_targetVars =>
        [\A n \in Names :
            Listed(n) /\ subsys'[n].device # subsys[n].device
                => op.call \in {"unexpose", "close"}]_targetVars
  <2> SUFFICES ASSUME TargetInv, TargetNext, NEW n \in Names,
                      Listed(n), op.call \notin {"unexpose", "close"}
               PROVE  subsys'[n] = subsys[n]
    OBVIOUS
  <2>1. CASE TargetStep
    <3>1. op.call \in ExposingCalls
      BY <2>1 DEF TargetStep, MakeSubsystem, AllowHosts, MakeNamespace, SetDevice, Remove, CloseNext,
                  CloseReturns, ExposingCalls
    <3>2. op.name # n
      BY <3>1, CallUnderWay
    <3> QED
      BY <2>1, <3>2 DEF TargetStep, MakeSubsystem, AllowHosts, MakeNamespace, SetDevice, Remove,
                        CloseNext, CloseReturns, TargetInv, TargetTypeOK
  <2>2. CASE ~TargetStep
    BY <2>2 DEF TargetNext, ExposeVolume, UnexposeVolume, Close, Crash
  <2> QED
    BY <2>1, <2>2
<1> QED
  BY <1>1, TargetIsConsistent, PTL DEF TargetSpec, DeviceIsStable

=============================================================================

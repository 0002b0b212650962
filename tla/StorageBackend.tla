--------------------------- MODULE StorageBackend ---------------------------
(***************************************************************************)
(* What a storage backend does to one volume, for the two backends of the  *)
(* repository: storage/mock and storage/ceph.  Each call is a mutex-       *)
(* protected method, hence one atomic step of the caller.  An operation    *)
(* returns the set of its possible replies                                 *)
(*     [ok |-> did it return a nil error,                                  *)
(*      vol |-> the volume afterwards,                                     *)
(*      fault |-> did the storage cluster misbehave].                      *)
(*                                                                         *)
(* The Ceph backend keeps its own map of volumes beside the RBD images:    *)
(* "state" and "node" are the map's entry, "image" is the image.  The mock *)
(* backend is its map; its "image" is never set.                           *)
(***************************************************************************)
CONSTANTS
    Kind,           \* which implementation serves the calls
    Nodes,          \* nodes a volume can be attached to
    NoNode          \* the empty NodeID

ASSUME KindAssumption == Kind \in {"mock", "ceph"}
ASSUME NodesAssumption == NoNode \notin Nodes

BackendVolume ==
    [state : {"absent", "available", "attached"},
     node  : Nodes \cup {NoNode},
     image : BOOLEAN]

Absent == [state |-> "absent", node |-> NoNode, image |-> FALSE]

Present(b) == b.state # "absent"

Refuse(b) == {[ok |-> FALSE, vol |-> b, fault |-> FALSE]}
Accept(b) == {[ok |-> TRUE, vol |-> b, fault |-> FALSE]}
\* The cluster reports an error; what it did to the volume by then is b.
Break(b)  == {[ok |-> FALSE, vol |-> b, fault |-> TRUE]}

Attached(b, node) == [b EXCEPT !.state = "attached", !.node = node]
Detached(b)       == [b EXCEPT !.state = "available", !.node = NoNode]

(***************************************************************************)
(* storage/mock: never breaks, refuses what the volume's state forbids.    *)
(***************************************************************************)
MockCreate(b) == IF Present(b) THEN Refuse(b) ELSE Accept(Detached(b))

MockDelete(b) == IF b.state = "available" THEN Accept(Absent) ELSE Refuse(b)

MockAttach(b, node) ==
    IF b.state = "available" THEN Accept(Attached(b, node)) ELSE Refuse(b)

MockDetach(b) == IF b.state = "attached" THEN Accept(Detached(b)) ELSE Refuse(b)

(***************************************************************************)
(* storage/ceph: only checks that the map has the volume.  rbd.Create and  *)
(* rbd.RemoveImage can report an error before or after the image changed,  *)
(* and then the map keeps its entry as it was.                             *)
(***************************************************************************)
CephCreate(b) ==
    IF Present(b) \/ b.image
    THEN Refuse(b)
    ELSE Accept([Detached(b) EXCEPT !.image = TRUE])
            \cup Break(b) \cup Break([b EXCEPT !.image = TRUE])

\* Faulty: the image is removed and the map's entry forgotten.
CephDeleteKeepingEntry(b) ==
    IF ~Present(b) \/ ~b.image THEN Refuse(b) ELSE Accept([b EXCEPT !.image = FALSE])

CephDelete(b) ==
    IF ~Present(b) \/ ~b.image
    THEN Refuse(b)
    ELSE Accept(Absent) \cup Break(b) \cup Break([b EXCEPT !.image = FALSE])

CephAttach(b, node) == IF Present(b) THEN Accept(Attached(b, node)) ELSE Refuse(b)

CephDetach(b) == IF Present(b) THEN Accept(Detached(b)) ELSE Refuse(b)

(***************************************************************************)
(* The calls of the VolumeBackend interface, whatever the implementation.  *)
(***************************************************************************)
CreateVolume(b)       == IF Kind = "mock" THEN MockCreate(b) ELSE CephCreate(b)
DeleteVolume(b)       == IF Kind = "mock" THEN MockDelete(b) ELSE CephDelete(b)
AttachVolume(b, node) == IF Kind = "mock" THEN MockAttach(b, node) ELSE CephAttach(b, node)
DetachVolume(b)       == IF Kind = "mock" THEN MockDetach(b) ELSE CephDetach(b)

\* Faulty: the reply is used without looking at the error.
GetVolumeUnchecked(b) == "found"

\* How GetVolume answers.  Neither implementation ever answers (nil, nil), the
\* reply their callers take for "the volume does not exist": a volume that the
\* map does not have is an error.
GetVolume(b) == IF Present(b) THEN "found" ELSE "error"

=============================================================================

--------------------------- MODULE ObjectManager ---------------------------
(***************************************************************************)
(* The object manager of kernel/objmgr.c: the lists of kernel objects by   *)
(* type, object identifiers, and reference counts.                         *)
(*                                                                         *)
(* DestroyObject drops a reference.  The last one makes it leave the lock  *)
(* twice: the object is unlinked, its Uninitialize runs without the lock,  *)
(* and then either the object is linked again (Uninitialize refused) or    *)
(* its memory is freed and the maximal identifier of its type is updated.  *)
(* Objects are named by their identifiers.                                 *)
(***************************************************************************)
EXTENDS Integers, FiniteSets, SequencesExt

CONSTANTS
  Types,
  MaxObjects,     \* bound on the objects ever created
  MaxRefs         \* bound on the references to an object

ASSUME ObjectAssumption == MaxObjects \in Nat \ {0} /\ MaxRefs \in Nat \ {0}

VARIABLES
  dwCurrentObjectID,   \* the next identifier
  dwObjectType,        \* per object
  refCount,            \* per object
  ObjectList,          \* per type, from lpFirstObject on
  dwObjectNum,         \* per type
  dwMaxObjectID,       \* per type
  stage,               \* how far the destruction of an object has come
  holders              \* references clients own: they may use the object

listVars == <<ObjectList, dwObjectNum, dwMaxObjectID>>
vars == <<dwCurrentObjectID, dwObjectType, refCount, listVars, stage, holders>>

\* stage: unlinked: Uninitialize runs; freed: the memory is gone, dwMaxObjectID
\* not yet updated.

Objects == 1..MaxObjects

Init ==
  /\ dwCurrentObjectID = 1
  /\ dwObjectType \in [Objects -> Types]
  /\ refCount = [o \in Objects |-> 0]
  /\ ObjectList = [ty \in Types |-> <<>>]
  /\ dwObjectNum = [ty \in Types |-> 0]
  /\ dwMaxObjectID = [ty \in Types |-> 0]
  /\ stage = [o \in Objects |-> "none"]
  /\ holders = [o \in Objects |-> 0]

TypeOf(o) == dwObjectType[o]

\* Insert at the head of the list of its type.
LinkUnreferenced(o) ==
  /\ ObjectList' = [ObjectList EXCEPT ![TypeOf(o)] = <<o>> \o @]
  /\ dwObjectNum' = [dwObjectNum EXCEPT ![TypeOf(o)] = @ + 1]
  /\ stage' = [stage EXCEPT ![o] = "linked"]
  /\ holders' = [holders EXCEPT ![o] = 1]
  /\ UNCHANGED refCount
Link(o) ==
  /\ ObjectList' = [ObjectList EXCEPT ![TypeOf(o)] = <<o>> \o @]
  /\ dwObjectNum' = [dwObjectNum EXCEPT ![TypeOf(o)] = @ + 1]
  /\ stage' = [stage EXCEPT ![o] = "linked"]
  /\ refCount' = [refCount EXCEPT ![o] = 1]
  /\ holders' = [holders EXCEPT ![o] = 1]

\* The type of the object is fixed from the start here: that makes it the
\* argument of the call.
CreateObject ==
  LET o == dwCurrentObjectID IN
  /\ o <= MaxObjects
  /\ stage[o] = "none"
  /\ dwCurrentObjectID' = o + 1
  /\ Link(o)
  /\ dwMaxObjectID' = [dwMaxObjectID EXCEPT ![TypeOf(o)] = IF @ < o THEN o ELSE @]
  /\ UNCHANGED dwObjectType

\* __ValidateObject: the pointer is looked for in the list.
ValidateObject(o) == \E i \in DOMAIN ObjectList[TypeOf(o)] : ObjectList[TypeOf(o)][i] = o

\* From any pointer, also one that is out of date: then nothing happens.
AddRefCount(o) ==
  /\ ValidateObject(o)
  /\ refCount[o] < MaxRefs
  /\ refCount' = [refCount EXCEPT ![o] = @ + 1]
  /\ holders' = [holders EXCEPT ![o] = @ + 1]
  /\ UNCHANGED <<dwCurrentObjectID, dwObjectType, listVars, stage>>

\* DestroyObject by one holder of several.
DropReference(o) ==
  /\ holders[o] > 0 /\ ValidateObject(o)
  /\ refCount[o] > 1
  /\ refCount' = [refCount EXCEPT ![o] = @ - 1]
  /\ holders' = [holders EXCEPT ![o] = @ - 1]
  /\ UNCHANGED <<dwCurrentObjectID, dwObjectType, listVars, stage>>

IgnoredReferences(o) == refCount[o] >= 1
LastReference(o) == refCount[o] = 1

\* DestroyObject by the last holder: unlink.
DestroyObject(o) ==
  /\ holders[o] > 0 /\ ValidateObject(o)
  /\ LastReference(o)
  /\ refCount' = [refCount EXCEPT ![o] = 0]
  /\ holders' = [holders EXCEPT ![o] = @ - 1]
  /\ ObjectList' = [ObjectList EXCEPT ![TypeOf(o)] = RemoveFirst(@, o)]
  /\ dwObjectNum' = [dwObjectNum EXCEPT ![TypeOf(o)] = @ - 1]
  /\ stage' = [stage EXCEPT ![o] = "unlinked"]
  /\ UNCHANGED <<dwCurrentObjectID, dwObjectType, dwMaxObjectID>>

\* Uninitialize returns FALSE: link the object again, with one reference, which
\* is the caller's.
Relink(o) ==
  /\ stage[o] = "unlinked"
  /\ Link(o)
  /\ UNCHANGED <<dwCurrentObjectID, dwObjectType, dwMaxObjectID>>

\* Uninitialize returns TRUE: free the memory.
Free(o) ==
  /\ stage[o] = "unlinked"
  /\ stage' = [stage EXCEPT ![o] = "freed"]
  /\ UNCHANGED <<dwCurrentObjectID, dwObjectType, refCount, listVars, holders>>

LargestOf(ids) == IF ids = {} THEN 0 ELSE CHOOSE i \in ids : \A j \in ids : j <= i

\* The maximum is looked for only if the object had it; otherwise the
\* identifier of the destroyed object is recorded.
UpdateMaxID(o) ==
  /\ stage[o] = "freed"
  /\ stage' = [stage EXCEPT ![o] = "gone"]
  /\ dwMaxObjectID' = [dwMaxObjectID EXCEPT ![TypeOf(o)] =
                         IF o >= @ THEN LargestOf(ToSet(ObjectList[TypeOf(o)])) ELSE o]
  /\ UNCHANGED <<dwCurrentObjectID, dwObjectType, refCount, ObjectList, dwObjectNum, holders>>

Next ==
  \/ CreateObject
  \/ \E o \in Objects :
       \/ AddRefCount(o) \/ DropReference(o) \/ DestroyObject(o)
       \/ Relink(o) \/ Free(o) \/ UpdateMaxID(o)

Spec == Init /\ [][Next]_vars

-----------------------------------------------------------------------------
(* Properties.                                                              *)

\* The count in a linked object is the number of references clients own, also
\* after a refused destruction.
RefCountIsHolders == \A o \in Objects : refCount[o] = holders[o]

\* No object is uninitialized or freed while a client may use it, though any
\* client may try AddRefCount at any time.
NobodyUsesDestroyed ==
  \A o \in Objects : stage[o] \in {"unlinked", "freed", "gone"} => holders[o] = 0
=============================================================================

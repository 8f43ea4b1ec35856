-------------------------- MODULE KernelBaseProofs --------------------------
(***************************************************************************)
(* Theorems about the parts that the waiting objects stand on: the object  *)
(* manager (ObjectManager) for any types, any number of objects and any    *)
(* bound on the references to one; the spin locks (SpinLockOrder) for any  *)
(* CPUs, threads and objects; the memory (KernelMemory) for any regions,   *)
(* sizes asked for and pools.  The three have nothing in common but the    *)
(* lemmas about queues; what belongs to the spin locks is named Spin...,   *)
(* what belongs to the memory Mem...                                       *)
(***************************************************************************)
EXTENDS ObjectManager, SpinLockOrder, KernelMemory, QueueLemmas

(***************************************************************************)
(*                           The object manager                            *)
(***************************************************************************)

Stages == {"none", "linked", "unlinked", "freed", "gone"}

-----------------------------------------------------------------------------
(* The inductive invariant.                                                 *)

TypeOK ==
  /\ dwCurrentObjectID \in Nat \ {0}
  /\ dwObjectType \in [Objects -> Types]
  /\ refCount \in [Objects -> Nat] /\ holders \in [Objects -> Nat]
  /\ ObjectList \in [Types -> Seq(Objects)]
  /\ dwObjectNum \in [Types -> Nat]
  /\ dwMaxObjectID \in [Types -> 0..MaxObjects]
  /\ stage \in [Objects -> Stages]

\* The list of a type holds the linked objects of that type, once each, so a
\* pointer that __ValidateObject finds is one to an object in use.
ListsAreTheLinked ==
  \A ty \in Types :
    /\ IsInjective(ObjectList[ty])
    /\ \A o \in Objects :
         ObjectInQueue(ObjectList[ty], o) <=> stage[o] = "linked" /\ TypeOf(o) = ty

\* The number of objects the list keeps is the number of those in it.
NumIsLength == \A ty \in Types : dwObjectNum[ty] = Len(ObjectList[ty])

\* Objects are referenced exactly as long as they are linked.
LinkedAreReferenced == \A o \in Objects : refCount[o] > 0 <=> stage[o] = "linked"

IInv ==
  /\ TypeOK
  /\ ListsAreTheLinked
  /\ NumIsLength
  /\ LinkedAreReferenced
  /\ RefCountIsHolders

-----------------------------------------------------------------------------
(* Lists.                                                                   *)

\* Objects are linked at the head.
LEMMA PrependKeeps ==
  ASSUME NEW S, NEW q \in Seq(S), IsInjective(q), NEW x \in S, ~ObjectInQueue(q, x),
         NEW r, r = <<x>> \o q
  PROVE  /\ r \in Seq(S) /\ Len(r) = Len(q) + 1
         /\ IsInjective(r)
         /\ \A y : ObjectInQueue(r, y) <=> ObjectInQueue(q, y) \/ y = x
<1>1. /\ r \in Seq(S) /\ Len(r) = Len(q) + 1 /\ DOMAIN r = 1..Len(r)
      /\ \A i \in 1..Len(q) : r[i + 1] = q[i]
      /\ r[1] = x
  OBVIOUS
<1>2. \A i, j \in 1..Len(q) : q[i] = q[j] => i = j
  BY DEF IsInjective
<1>3. \A i \in 1..Len(q) : q[i] # x
  BY DEF ObjectInQueue, Contains
<1>4. \A i \in 1..Len(r) : i = 1 \/ (i - 1 \in 1..Len(q) /\ r[i] = q[i - 1])
  <2> SUFFICES ASSUME NEW i \in 1..Len(r), i # 1
               PROVE  i - 1 \in 1..Len(q) /\ r[i] = q[i - 1]
    OBVIOUS
  <2>1. i - 1 \in 1..Len(q) /\ (i - 1) + 1 = i
    BY <1>1
  <2> QED BY <1>1, <2>1
<1>5. IsInjective(r)
  BY <1>1, <1>2, <1>3, <1>4 DEF IsInjective
<1>6. ASSUME NEW y
      PROVE  ObjectInQueue(r, y) <=> ObjectInQueue(q, y) \/ y = x
  <2>1. 1 \in 1..Len(r) /\ \A i \in 1..Len(q) : i + 1 \in 1..Len(r)
    BY <1>1
  <2>2. /\ ObjectInQueue(r, y) <=> \E i \in 1..Len(r) : r[i] = y
        /\ ObjectInQueue(q, y) <=> \E i \in 1..Len(q) : q[i] = y
    BY <1>1 DEF ObjectInQueue, Contains
  <2>3. ASSUME ObjectInQueue(q, y)
        PROVE  ObjectInQueue(r, y)
    BY <1>1, <2>1, <2>2, <2>3
  <2>4. y = x => ObjectInQueue(r, y)
    BY <1>1, <2>1, <2>2
  <2>5. ASSUME ObjectInQueue(r, y), y # x
        PROVE  ObjectInQueue(q, y)
    <3>1. PICK i \in 1..Len(r) : r[i] = y
      BY <2>2, <2>5
    <3>2. i - 1 \in 1..Len(q) /\ q[i - 1] = y
      BY <1>1, <1>4, <2>5, <3>1
    <3> QED BY <2>2, <3>2
  <2> QED BY <2>3, <2>4, <2>5
<1> QED BY <1>1, <1>5, <1>6

\* The search for the maximal identifier finds one of the list, or none.
LEMMA LargestIsOne ==
  ASSUME ObjectAssumption, NEW ids, ids \subseteq Objects
  PROVE  LargestOf(ids) \in 0..MaxObjects
<1>1. CASE ids = {}
  BY <1>1, ObjectAssumption DEF LargestOf
<1>2. CASE ids # {}
  <2> DEFINE below == {MaxObjects - i : i \in ids}
  <2>1. below \subseteq Nat /\ below # {}
    <3>1. \A i \in ids : i \in Nat /\ i <= MaxObjects /\ MaxObjects - i \in Nat
      BY ObjectAssumption DEF Objects
    <3> QED BY <1>2, <3>1
  <2>2. PICK m \in below : \A n \in below : m <= n
    BY <2>1, LeastNatural
  <2>3. PICK i \in ids : m = MaxObjects - i
    BY <2>2
  <2>4. \A j \in ids : MaxObjects - i <= MaxObjects - j
    BY <2>2, <2>3
  <2>5. \A j \in ids : j <= i
    BY <2>3, <2>4, ObjectAssumption DEF Objects
  <2>6. LargestOf(ids) \in ids
    <3>1. LargestOf(ids) = CHOOSE n \in ids : \A j \in ids : j <= n
      BY <1>2 DEF LargestOf
    <3>2. \E n \in ids : \A j \in ids : j <= n
      BY <2>3, <2>5
    <3> QED BY <3>1, <3>2
  <2>7. \A n \in Objects : n \in 0..MaxObjects
    BY ObjectAssumption DEF Objects
  <2> QED BY <2>6, <2>7
<1> QED BY <1>1, <1>2

\* A pointer is valid if its object is in the list of its type.
LEMMA ValidIsLinked ==
  ASSUME IInv, NEW o \in Objects
  PROVE  /\ TypeOf(o) \in Types
         /\ ValidateObject(o) <=> stage[o] = "linked"
<1>1. TypeOf(o) \in Types
  BY DEF IInv, TypeOK, TypeOf
<1>2. DOMAIN ObjectList[TypeOf(o)] = 1..Len(ObjectList[TypeOf(o)])
  BY <1>1 DEF IInv, TypeOK
<1>3. ValidateObject(o) <=> ObjectInQueue(ObjectList[TypeOf(o)], o)
  BY <1>2 DEF ValidateObject, ObjectInQueue, Contains
<1> QED BY <1>1, <1>3 DEF IInv, ListsAreTheLinked

-----------------------------------------------------------------------------
(* Every step preserves it.                                                 *)

LEMMA InitIInv == Init => IInv
<1> SUFFICES ASSUME Init
             PROVE  IInv
  OBVIOUS
<1>1. <<>> \in Seq(Objects) /\ Len(<<>>) = 0
  OBVIOUS
<1>2. TypeOK
  BY <1>1, ObjectAssumption DEF Init, TypeOK, Stages
<1>3. ListsAreTheLinked
  BY <1>1, EmptyQueue DEF Init, ListsAreTheLinked
<1>4. NumIsLength /\ LinkedAreReferenced /\ RefCountIsHolders
  BY <1>1 DEF Init, NumIsLength, LinkedAreReferenced, RefCountIsHolders
<1> QED BY <1>2, <1>3, <1>4 DEF IInv

\* Linking an object that is in no list.
LEMMA LinkPreserves ==
  ASSUME IInv, NEW o \in Objects, stage[o] # "linked", Link(o),
         dwObjectType' = dwObjectType, dwCurrentObjectID' \in Nat \ {0},
         dwMaxObjectID' \in [Types -> 0..MaxObjects]
  PROVE  IInv'
<1> DEFINE ty == TypeOf(o)
           q  == ObjectList[ty]
           r  == <<o>> \o q
<1>1. ty \in Types /\ q \in Seq(Objects) /\ IsInjective(q) /\ ~ObjectInQueue(q, o)
  BY DEF IInv, TypeOK, ListsAreTheLinked, TypeOf
<1>2. r = <<o>> \o q
  OBVIOUS
<1>3. ObjectList' = [ObjectList EXCEPT ![ty] = r]
  BY DEF Link
<1>4. dwObjectNum' = [dwObjectNum EXCEPT ![ty] = dwObjectNum[ty] + 1]
  BY DEF Link
<1> HIDE DEF r
<1>5. /\ r \in Seq(Objects) /\ Len(r) = Len(q) + 1 /\ IsInjective(r)
      /\ \A y : ObjectInQueue(r, y) <=> ObjectInQueue(q, y) \/ y = o
  <2> HIDE DEF q
  <2>1. /\ <<o>> \o q \in Seq(Objects) /\ Len(<<o>> \o q) = Len(q) + 1
        /\ IsInjective(<<o>> \o q)
        /\ \A y : ObjectInQueue(<<o>> \o q, y) <=> ObjectInQueue(q, y) \/ y = o
    BY <1>1, PrependKeeps, ZenonT(60)
  <2> QED BY <1>2, <2>1
<1>6. /\ ObjectList' \in [Types -> Seq(Objects)] /\ dwObjectNum' \in [Types -> Nat]
      /\ ObjectList'[ty] = r /\ dwObjectNum'[ty] = dwObjectNum[ty] + 1
      /\ \A u \in Types \ {ty} : ObjectList'[u] = ObjectList[u]
                                 /\ dwObjectNum'[u] = dwObjectNum[u]
  <2> HIDE DEF q, ty
  <2>1. ObjectList \in [Types -> Seq(Objects)] /\ dwObjectNum \in [Types -> Nat]
    BY DEF IInv, TypeOK
  <2>2. dwObjectNum[ty] + 1 \in Nat
    BY <1>1, <2>1
  <2> QED BY <1>1, <1>3, <1>4, <1>5, <2>1, <2>2
<1>7. /\ stage' \in [Objects -> Stages] /\ stage'[o] = "linked"
      /\ \A u \in Objects \ {o} : stage'[u] = stage[u]
  BY DEF Link, IInv, TypeOK, Stages
<1>8. TypeOK'
  BY <1>6, <1>7 DEF IInv, TypeOK, Link
<1>9. ListsAreTheLinked'
  <2> SUFFICES ASSUME NEW u \in Types
               PROVE  /\ IsInjective(ObjectList'[u])
                      /\ \A p \in Objects : ObjectInQueue(ObjectList'[u], p)
                                              <=> stage'[p] = "linked" /\ TypeOf(p) = u
    BY DEF ListsAreTheLinked, TypeOf
  <2>1. CASE u = ty
    BY <1>1, <1>5, <1>6, <1>7, <2>1 DEF IInv, ListsAreTheLinked
  <2>2. CASE u # ty
    BY <1>1, <1>6, <1>7, <2>2 DEF IInv, ListsAreTheLinked
  <2> QED BY <2>1, <2>2
<1>10. NumIsLength'
  BY <1>1, <1>5, <1>6 DEF IInv, NumIsLength
<1>11. LinkedAreReferenced' /\ RefCountIsHolders'
  BY <1>7 DEF Link, IInv, TypeOK, LinkedAreReferenced, RefCountIsHolders
<1> QED BY <1>8, <1>9, <1>10, <1>11 DEF IInv

LEMMA CreateObjectPreserves ==
  ASSUME IInv, CreateObject
  PROVE  IInv'
<1> DEFINE o == dwCurrentObjectID
<1>1. o \in Objects /\ TypeOf(o) \in Types
  BY ObjectAssumption DEF CreateObject, IInv, TypeOK, Objects, TypeOf
<1>2. dwMaxObjectID' \in [Types -> 0..MaxObjects]
  BY <1>1 DEF CreateObject, IInv, TypeOK, Objects
<1>3. dwCurrentObjectID' \in Nat \ {0}
  BY DEF CreateObject, IInv, TypeOK
<1> QED BY <1>1, <1>2, <1>3, LinkPreserves DEF CreateObject

LEMMA RelinkPreserves ==
  ASSUME IInv, NEW o \in Objects, Relink(o)
  PROVE  IInv'
<1>1. /\ stage[o] # "linked" /\ Link(o) /\ dwObjectType' = dwObjectType
      /\ dwCurrentObjectID' \in Nat \ {0} /\ dwMaxObjectID' \in [Types -> 0..MaxObjects]
  BY DEF Relink, IInv, TypeOK
<1> QED BY <1>1, LinkPreserves

\* A reference more or less, of an object that keeps some.
LEMMA ReferencesPreserve ==
  ASSUME IInv, NEW o \in Objects, AddRefCount(o) \/ DropReference(o)
  PROVE  IInv'
<1> USE ObjectAssumption DEF AddRefCount, DropReference, listVars, IInv
<1>1. stage[o] = "linked"
  BY ValidIsLinked
<1>2. refCount[o] \in Nat /\ holders[o] \in Nat /\ refCount[o] = holders[o]
  BY DEF TypeOK, RefCountIsHolders
<1>3. \E n \in Nat \ {0} : /\ refCount' = [refCount EXCEPT ![o] = n]
                           /\ holders' = [holders EXCEPT ![o] = n]
  <2>1. CASE AddRefCount(o)
    <3>1. refCount[o] + 1 \in Nat \ {0}
      BY <1>2
    <3> QED BY <1>2, <2>1, <3>1
  <2>2. CASE DropReference(o)
    <3>1. refCount[o] - 1 \in Nat \ {0}
      BY <1>2, <2>2
    <3> QED BY <1>2, <2>2, <3>1
  <2> QED BY <2>1, <2>2
<1>4. /\ UNCHANGED <<dwCurrentObjectID, dwObjectType, stage>>
      /\ UNCHANGED <<ObjectList, dwObjectNum, dwMaxObjectID>>
  OBVIOUS
<1>5. TypeOK'
  BY <1>3, <1>4 DEF TypeOK
<1>6. ListsAreTheLinked' /\ NumIsLength'
  BY <1>4 DEF ListsAreTheLinked, NumIsLength, TypeOf
<1>7. LinkedAreReferenced' /\ RefCountIsHolders'
  BY <1>1, <1>3, <1>4 DEF TypeOK, LinkedAreReferenced, RefCountIsHolders
<1> QED BY <1>5, <1>6, <1>7

LEMMA DestroyObjectPreserves ==
  ASSUME IInv, NEW o \in Objects, DestroyObject(o)
  PROVE  IInv'
<1> DEFINE ty == TypeOf(o)
           q  == ObjectList[ty]
           r  == DeleteFromQueue(q, o)
<1>1. /\ ty \in Types /\ q \in Seq(Objects) /\ IsInjective(q)
      /\ ObjectInQueue(q, o) /\ stage[o] = "linked"
  BY ValidIsLinked DEF DestroyObject, IInv, TypeOK, ListsAreTheLinked
<1>2. r = DeleteFromQueue(q, o)
  OBVIOUS
<1>3. ObjectList' = [ObjectList EXCEPT ![ty] = r]
  BY DEF DestroyObject, DeleteFromQueue
<1>4. dwObjectNum' = [dwObjectNum EXCEPT ![ty] = dwObjectNum[ty] - 1]
  BY DEF DestroyObject
<1> HIDE DEF r
<1>5. /\ r \in Seq(Objects) /\ Len(r) = Len(q) - 1 /\ IsInjective(r)
      /\ \A y : ObjectInQueue(r, y) <=> ObjectInQueue(q, y) /\ y # o
  <2> HIDE DEF q
  <2>1. PICK k \in 1..Len(q) :
          r = [i \in 1..(Len(q) - 1) |-> IF i < k THEN q[i] ELSE q[i + 1]]
    <3>1. \E k \in 1..Len(q) :
            /\ q[k] = o
            /\ DeleteFromQueue(q, o) =
                 [i \in 1..(Len(q) - 1) |-> IF i < k THEN q[i] ELSE q[i + 1]]
      BY <1>1, DeleteFromQueueFact, SMTT(30)
    <3> QED BY <1>2, <3>1
  <2>2. Len(q) - 1 \in Nat /\ Len(q) \in Nat
    BY <1>1
  <2>3. Len(r) = Len(q) - 1
    BY <1>1, <2>1, <2>2
  <2> QED BY <1>1, <1>2, <2>3, DeleteKeeps
<1>6. dwObjectNum[ty] - 1 \in Nat
  <2>1. Len(r) \in Nat /\ Len(q) \in Nat /\ dwObjectNum[ty] = Len(q)
    BY <1>1, <1>5 DEF IInv, NumIsLength
  <2> QED BY <1>5, <2>1
<1>7. /\ ObjectList' \in [Types -> Seq(Objects)] /\ dwObjectNum' \in [Types -> Nat]
      /\ ObjectList'[ty] = r /\ dwObjectNum'[ty] = dwObjectNum[ty] - 1
      /\ \A u \in Types \ {ty} : ObjectList'[u] = ObjectList[u]
                                 /\ dwObjectNum'[u] = dwObjectNum[u]
  BY <1>1, <1>3, <1>4, <1>5, <1>6 DEF IInv, TypeOK
<1>8. /\ stage' \in [Objects -> Stages] /\ stage'[o] = "unlinked"
      /\ \A u \in Objects \ {o} : stage'[u] = stage[u]
  BY DEF DestroyObject, IInv, TypeOK, Stages
<1>9. /\ refCount' = [refCount EXCEPT ![o] = 0] /\ holders' = [holders EXCEPT ![o] = 0]
      /\ UNCHANGED <<dwCurrentObjectID, dwObjectType, dwMaxObjectID>>
  <2>1. refCount[o] = 1 /\ holders[o] = 1 /\ holders[o] - 1 = 0
    BY DEF DestroyObject, LastReference, IInv, RefCountIsHolders
  <2> QED BY <2>1 DEF DestroyObject
<1>10. TypeOK'
  BY <1>7, <1>8, <1>9 DEF IInv, TypeOK
<1>11. ListsAreTheLinked'
  <2> SUFFICES ASSUME NEW u \in Types
               PROVE  /\ IsInjective(ObjectList'[u])
                      /\ \A p \in Objects : ObjectInQueue(ObjectList'[u], p)
                                              <=> stage'[p] = "linked" /\ TypeOf(p) = u
    BY <1>9 DEF ListsAreTheLinked, TypeOf
  <2>1. CASE u = ty
    BY <1>1, <1>5, <1>7, <1>8, <2>1 DEF IInv, ListsAreTheLinked
  <2>2. CASE u # ty
    BY <1>1, <1>7, <1>8, <2>2 DEF IInv, ListsAreTheLinked
  <2> QED BY <2>1, <2>2
<1>12. NumIsLength'
  BY <1>1, <1>5, <1>7 DEF IInv, NumIsLength
<1>13. LinkedAreReferenced' /\ RefCountIsHolders'
  BY <1>8, <1>9 DEF IInv, TypeOK, LinkedAreReferenced, RefCountIsHolders
<1> QED BY <1>10, <1>11, <1>12, <1>13 DEF IInv

\* Freed memory, and the maximal identifier after it.
LEMMA FreePreserves ==
  ASSUME IInv, NEW o \in Objects, Free(o) \/ UpdateMaxID(o)
  PROVE  IInv'
<1> USE ObjectAssumption DEF Free, UpdateMaxID, listVars, IInv
<1>1. stage[o] # "linked" /\ stage' \in [Objects -> Stages]
      /\ \A u \in Objects : stage'[u] = "linked" <=> stage[u] = "linked"
  BY DEF TypeOK, Stages
<1>2. dwMaxObjectID' \in [Types -> 0..MaxObjects]
  <2>1. TypeOf(o) \in Types /\ o \in 0..MaxObjects
    BY DEF TypeOK, TypeOf, Objects
  <2>2. ToSet(ObjectList[TypeOf(o)]) \subseteq Objects
    BY <2>1 DEF TypeOK, ToSet
  <2>3. LargestOf(ToSet(ObjectList[TypeOf(o)])) \in 0..MaxObjects
    BY <2>2, LargestIsOne
  <2> QED BY <2>1, <2>3 DEF TypeOK
<1>3. TypeOK'
  BY <1>1, <1>2 DEF TypeOK
<1>4. ListsAreTheLinked' /\ NumIsLength' /\ LinkedAreReferenced' /\ RefCountIsHolders'
  BY <1>1 DEF ListsAreTheLinked, NumIsLength, LinkedAreReferenced, RefCountIsHolders, TypeOf
<1> QED BY <1>3, <1>4

LEMMA NextPreserves == IInv /\ [Next]_vars => IInv'
<1> SUFFICES ASSUME IInv, [Next]_vars
             PROVE  IInv'
  OBVIOUS
<1>1. CASE CreateObject
  BY <1>1, CreateObjectPreserves
<1>2. CASE \E o \in Objects : AddRefCount(o) \/ DropReference(o)
  BY <1>2, ReferencesPreserve
<1>3. CASE \E o \in Objects : DestroyObject(o)
  BY <1>3, DestroyObjectPreserves
<1>4. CASE \E o \in Objects : Relink(o)
  BY <1>4, RelinkPreserves
<1>5. CASE \E o \in Objects : Free(o) \/ UpdateMaxID(o)
  BY <1>5, FreePreserves
<1>6. CASE UNCHANGED vars
  BY <1>6 DEF vars, listVars, IInv, TypeOK, ListsAreTheLinked, NumIsLength,
              LinkedAreReferenced, RefCountIsHolders, TypeOf
<1> QED BY <1>1, <1>2, <1>3, <1>4, <1>5, <1>6 DEF Next

-----------------------------------------------------------------------------
(* The theorems.                                                            *)

\* The lists, counts and stages of all objects agree at every moment, also
\* while DestroyObject is without the lock.
THEOREM Invariance == Spec => []IInv
<1> QED BY InitIInv, NextPreserves, PTL DEF Spec

\* The reference count of an object is the number of references clients own,
\* through any mixture of AddRefCount, DestroyObject and refused destructions.
THEOREM CountIsExact == Spec => []RefCountIsHolders
<1>1. IInv => RefCountIsHolders
  BY DEF IInv
<1> QED BY <1>1, Invariance, PTL

\* Nobody owns a reference to an object that is being uninitialized or freed:
\* AddRefCount cannot get hold of one that DestroyObject has unlinked.
THEOREM DestroyedIsUnused == Spec => []NobodyUsesDestroyed
<1>1. IInv => NobodyUsesDestroyed
  BY DEF IInv, TypeOK, LinkedAreReferenced, RefCountIsHolders, NobodyUsesDestroyed
<1> QED BY <1>1, Invariance, PTL

(***************************************************************************)
(*                             The spin locks                              *)
(***************************************************************************)

(* The inductive invariant.                                                 *)

Held(c) == {l \in Locks : holder[l] = c}

\* Locks are entered by rising rank: what a path holds is below what it enters.
LockRank(l) ==
  IF l = System THEN 0
  ELSE IF l = KernelThreadManager THEN 1
  ELSE IF l \in Conditions THEN 2
  ELSE IF l \in Plain \union Mutexes THEN 3
  ELSE 4

\* The locks held behind a step that begins under the locks of held.
After(s, held) ==
  IF s[1] = "enter" THEN held \union {s[2]}
  ELSE IF s[1] = "leave" THEN held \ {s[2]} ELSE held

\* Under which locks a step may begin.
Legal(s, held) ==
  /\ s[1] = "enter" => /\ s[2] \in Locks \ held
                       /\ TimedObjects \subseteq Plain =>
                            \A l \in held : LockRank(l) < LockRank(s[2])
  /\ s[1] = "leave" => s[2] \in held
  /\ s[1] = "serve" => s[2] \in WaitObjects /\ held \subseteq WaitObjects
  /\ s[1] = "fire" => held = {System}
  /\ s[1] = "sleepers" => held = {System, KernelThreadManager}
  /\ s[1] = "expire" => held = {System, s[2]}
  /\ s[1] \in {"timeout", "disarm"} => System \in held

TimeOutStep(s) == s[1] \in {"expire", "timeout"}

\* The locks under which the steps of p begin are h[1], h[2], ...
Annotates(h, p) ==
  \A i \in 1..Len(p) :
    /\ Legal(p[i], h[i])
    /\ h[i + 1] = After(p[i], h[i])
    /\ TimeOutStep(p[i]) => \A j \in 1..i : System \in h[j]

\* From here to its end the path leaves what it holds and all it enters.
Bracketed(p, held) ==
  \E h : h[1] = held /\ h[Len(p) + 1] = {} /\ Annotates(h, p)

Waiting == {"infinite", "arm", "timed"}
CallKinds == {"block", "sleep", "arm", "disarm", "return"}

Steps ==
  ({"enter", "leave"} \X Locks) \union ({"serve"} \X WaitObjects)
    \union ({"ready", "sleep", "awake", "expire", "timeout", "arm", "disarm", "return"} \X Threads)
    \union ({"block"} \X Threads \X WaitObjects \X {"infinite", "arm"})
    \union {<<"fire">>, <<"sleepers">>}

SpinTypeOK ==
  /\ holder \in [Locks -> CPUs \union {NoCPU}]
  /\ path \in [CPUs -> Seq(Steps)]
  /\ runner \in [CPUs -> Threads \union {NoThread}]
  /\ pc \in [Threads -> Waiting \union {"run", "cancel", "sleep"}]
  /\ waitsFor \in [Threads -> WaitObjects \union {NoObject}]
  /\ queued \subseteq Threads
  /\ sleeping \subseteq Threads
  /\ timer \in [Threads -> BOOLEAN]
  /\ readied \in [Threads -> Nat]

LocksBracketed == \A c \in CPUs : Bracketed(path[c], Held(c))

\* What a pending step of a CPU that runs t says about its thread.
Fits(t, s) ==
  /\ s[1] \in CallKinds => t = s[2]
  /\ s[1] \in {"block", "sleep"} => pc[s[2]] = "run"
  /\ s[1] = "block" /\ s[4] = "arm" => s[3] \in TimedObjects
  /\ s[1] = "arm" => pc[s[2]] = "arm"
  /\ s[1] = "disarm" => pc[s[2]] = "cancel"
  /\ s[1] = "return" => pc[s[2]] \in {"infinite", "timed"} /\ readied[s[2]] > 0
  /\ s[1] = "awake" => pc[s[2]] = "sleep" /\ s[2] \notin sleeping
  /\ s[1] = "ready" => pc[s[2]] \in Waiting /\ s[2] \notin queued /\ readied[s[2]] = 0
  /\ TimeOutStep(s) => pc[s[2]] \in {"timed", "cancel"}
  /\ TimeOutStep(s) \/ s[1] = "fire" => t = NoThread

StepsFit == \A c \in CPUs : \A i \in 1..Len(path[c]) : Fits(runner[c], path[c][i])

\* No thread is made ready, or awakened, by two pending steps; a call does
\* one thing to its own thread.
Same(s, r) == s = r /\ s[1] \in {"ready", "awake"}
OnceEach ==
  /\ \A c, d \in CPUs : \A i \in 1..Len(path[c]), j \in 1..Len(path[d]) :
       Same(path[c][i], path[d][j]) => c = d /\ i = j
  /\ \A c \in CPUs : \A i, j \in 1..Len(path[c]) :
       path[c][i][1] \in CallKinds /\ path[c][j][1] \in CallKinds => i = j

RunnersDiffer ==
  \A c, d \in CPUs : runner[c] = runner[d] /\ runner[c] # NoThread => c = d

ThreadsFit ==
  \A t \in Threads :
    /\ t \in queued => pc[t] \in Waiting /\ readied[t] = 0
    /\ t \in sleeping => pc[t] = "sleep"
    /\ pc[t] \in {"arm", "timed", "cancel"} => waitsFor[t] \in TimedObjects
    /\ timer[t] => pc[t] \in {"timed", "cancel"}

SpinIInv ==
  /\ SpinTypeOK /\ LocksBracketed /\ StepsFit /\ OnceEach
  /\ RunnersDiffer /\ ThreadsFit /\ NoDoubleWake /\ NobodyStranded
-----------------------------------------------------------------------------
(* Paths.                                                                   *)

\* Doing the first step of a path, with others in its place.
LEMMA SpliceFact ==
  ASSUME NEW S, NEW p \in Seq(S), p # <<>>, NEW s \in Seq(S)
  PROVE  /\ Head(p) = p[1] /\ Len(p) \in Nat /\ Len(p) > 0 /\ Len(s) \in Nat
         /\ s \o Tail(p) \in Seq(S)
         /\ Len(s \o Tail(p)) = Len(s) + Len(p) - 1
         /\ \A i \in 1..Len(s) : (s \o Tail(p))[i] = s[i]
         /\ \A i \in (Len(s) + 1)..(Len(s) + Len(p) - 1) :
              (s \o Tail(p))[i] = p[i - Len(s) + 1]
  OBVIOUS
\* The steps of which paths are made.
LEMMA StepsAre ==
  /\ \A l \in Locks : Enter(l) \in Steps /\ Leave(l) \in Steps
  /\ \A o \in WaitObjects : <<"serve", o>> \in Steps
  /\ \A t \in Threads :
       /\ <<"ready", t>> \in Steps /\ <<"sleep", t>> \in Steps /\ <<"awake", t>> \in Steps
       /\ <<"expire", t>> \in Steps /\ <<"timeout", t>> \in Steps /\ <<"arm", t>> \in Steps
       /\ <<"disarm", t>> \in Steps /\ <<"return", t>> \in Steps
  /\ \A t \in Threads, o \in WaitObjects, how \in {"infinite", "arm"} :
       <<"block", t, o, how>> \in Steps
  /\ <<"fire">> \in Steps /\ <<"sleepers">> \in Steps
  BY DEF Enter, Leave, Steps

LEMMA LocksAre ==
  /\ WaitObjects \subseteq Locks /\ Threads \subseteq Locks
  /\ System \in Locks /\ KernelThreadManager \in Locks
  /\ Plain \subseteq WaitObjects /\ Mutexes \subseteq WaitObjects /\ Conditions \subseteq WaitObjects
  BY DEF Locks, WaitObjects

\* What Under puts around some steps.
LEMMA UnderFact ==
  ASSUME NEW l \in Locks, NEW s \in Seq(Steps)
  PROVE  /\ Under(l, s) \in Seq(Steps)
         /\ Len(Under(l, s)) = Len(s) + 2
         /\ Under(l, s)[1] = Enter(l)
         /\ Under(l, s)[Len(s) + 2] = Leave(l)
         /\ \A i \in 1..Len(s) : Under(l, s)[i + 1] = s[i]
<1>1. Enter(l) \in Steps /\ Leave(l) \in Steps
  BY StepsAre
<1> QED
  BY <1>1 DEF Under

LEMMA UnderOne ==
  ASSUME NEW l \in Locks, NEW x \in Steps
  PROVE  /\ Under(l, <<x>>) \in Seq(Steps) /\ Len(Under(l, <<x>>)) = 3
         /\ Under(l, <<x>>)[1] = Enter(l) /\ Under(l, <<x>>)[2] = x
         /\ Under(l, <<x>>)[3] = Leave(l)
         /\ Under(l, <<x>>) = <<Enter(l), x, Leave(l)>>
<1>1. <<x>> \in Seq(Steps) /\ Len(<<x>>) = 1 /\ <<x>>[1] = x
  OBVIOUS
<1>2. /\ Under(l, <<x>>) \in Seq(Steps) /\ Len(Under(l, <<x>>)) = 3
      /\ Under(l, <<x>>)[1] = Enter(l) /\ Under(l, <<x>>)[3] = Leave(l)
      /\ Under(l, <<x>>)[2] = x
  <2> DEFINE s == <<x>>
             r == Under(l, s)
  <2>1. s \in Seq(Steps) /\ Len(s) = 1 /\ s[1] = x
    BY <1>1
  <2> HIDE DEF s
  <2>2. /\ r \in Seq(Steps) /\ Len(r) = Len(s) + 2 /\ r[1] = Enter(l)
        /\ r[Len(s) + 2] = Leave(l) /\ \A i \in 1..Len(s) : r[i + 1] = s[i]
    BY <2>1, UnderFact
  <2> HIDE DEF r
  <2>3. r \in Seq(Steps) /\ Len(r) = 3 /\ r[1] = Enter(l) /\ r[3] = Leave(l) /\ r[2] = x
    BY <2>1, <2>2
  <2> QED BY <2>3 DEF r, s
<1>3. Enter(l) \in Steps /\ Leave(l) \in Steps
  BY StepsAre
<1> DEFINE r == Under(l, <<x>>)
<1>4. r = <<Enter(l), x, Leave(l)>>
  <2>1. r \in Seq(Steps) /\ Len(r) = 3 /\ r[1] = Enter(l) /\ r[2] = x /\ r[3] = Leave(l)
    BY <1>2
  <2> HIDE DEF r
  <2> QED BY <2>1
<1> QED
  BY <1>2, <1>4

\* A lock inside a lock.
LEMMA UnderTwo ==
  ASSUME NEW l \in Locks, NEW k \in Locks, NEW x \in Steps
  PROVE  /\ Under(l, Under(k, <<x>>)) \in Seq(Steps)
         /\ Under(l, Under(k, <<x>>)) = <<Enter(l), Enter(k), x, Leave(k), Leave(l)>>
<1> DEFINE s == Under(k, <<x>>)
           r == Under(l, s)
<1>1. s \in Seq(Steps) /\ Len(s) = 3 /\ s[1] = Enter(k) /\ s[2] = x /\ s[3] = Leave(k)
  BY UnderOne
<1> HIDE DEF s
<1>2. r \in Seq(Steps) /\ Len(r) = Len(s) + 2 /\ r[1] = Enter(l) /\ r[Len(s) + 2] = Leave(l)
      /\ \A i \in 1..Len(s) : r[i + 1] = s[i]
  BY <1>1, UnderFact
<1> HIDE DEF r
<1>3. Len(r) = 5 /\ r[2] = s[1] /\ r[3] = s[2] /\ r[4] = s[3] /\ r[5] = Leave(l)
  BY <1>1, <1>2
<1>4. r = <<Enter(l), Enter(k), x, Leave(k), Leave(l)>>
  BY <1>1, <1>2, <1>3
<1> QED
  BY <1>2, <1>4 DEF r, s

\* The paths, step by step.
LEMMA ObjectPaths ==
  ASSUME NEW o \in WaitObjects
  PROVE  /\ WakePath(o) = <<Enter(o), <<"serve", o>>, Leave(o)>>
         /\ \A t \in Threads : \A how \in {"infinite", "arm"} :
              WaitPath(o, t, how) =
                <<Enter(o), Enter(t), <<"block", t, o, how>>, Leave(t), Leave(o)>>
<1>1. o \in Locks /\ Threads \subseteq Locks
  BY LocksAre
<1>2. WakePath(o) = <<Enter(o), <<"serve", o>>, Leave(o)>>
  BY <1>1, StepsAre, UnderOne DEF WakePath
<1>3. ASSUME NEW t \in Threads, NEW how \in {"infinite", "arm"}
      PROVE  WaitPath(o, t, how) =
               <<Enter(o), Enter(t), <<"block", t, o, how>>, Leave(t), Leave(o)>>
  BY <1>1, StepsAre, UnderTwo DEF WaitPath
<1> QED
  BY <1>2, <1>3

LEMMA ThreadPaths ==
  ASSUME NEW t \in Threads
  PROVE  /\ ReadStatusPath(t) = <<Enter(t), <<"return", t>>, Leave(t)>>
         /\ SetTimerPath(t) = <<Enter(System), <<"arm", t>>, Leave(System)>>
         /\ CancelTimerPath(t) = <<Enter(System), <<"disarm", t>>, Leave(System)>>
         /\ SleepPath(t) = <<Enter(KernelThreadManager), Enter(t), <<"sleep", t>>, Leave(t),
                             Leave(KernelThreadManager)>>
<1>1. t \in Locks /\ System \in Locks /\ KernelThreadManager \in Locks
  BY LocksAre
<1>2. ReadStatusPath(t) = <<Enter(t), <<"return", t>>, Leave(t)>>
  BY <1>1, StepsAre, UnderOne DEF ReadStatusPath
<1>3. SetTimerPath(t) = <<Enter(System), <<"arm", t>>, Leave(System)>>
  BY <1>1, StepsAre, UnderOne DEF SetTimerPath
<1>4. CancelTimerPath(t) = <<Enter(System), <<"disarm", t>>, Leave(System)>>
  BY <1>1, StepsAre, UnderOne DEF CancelTimerPath
<1>5. SleepPath(t) = <<Enter(KernelThreadManager), Enter(t), <<"sleep", t>>, Leave(t),
                       Leave(KernelThreadManager)>>
  BY <1>1, StepsAre, UnderTwo DEF SleepPath
<1> QED
  BY <1>2, <1>3, <1>4, <1>5

LEMMA InterruptPaths ==
  /\ TimerPath = <<Enter(System), <<"fire">>, Leave(System)>>
  /\ WakeSleepersPath = <<Enter(System), Enter(KernelThreadManager), <<"sleepers">>,
                          Leave(KernelThreadManager), Leave(System)>>
<1>1. System \in Locks /\ KernelThreadManager \in Locks
  BY LocksAre
<1>2. TimerPath = <<Enter(System), <<"fire">>, Leave(System)>>
  BY <1>1, StepsAre, UnderOne DEF TimerPath
<1>3. WakeSleepersPath = <<Enter(System), Enter(KernelThreadManager), <<"sleepers">>,
                           Leave(KernelThreadManager), Leave(System)>>
  BY <1>1, StepsAre, UnderTwo DEF WakeSleepersPath
<1> QED
  BY <1>2, <1>3

LEMMA CondWaitPathIs ==
  ASSUME NEW o \in WaitObjects, NEW t \in Threads, NEW m \in WaitObjects,
         NEW how \in {"infinite", "arm"}
  PROVE  CondWaitPath(o, t, m, how) =
           <<Enter(o), Enter(t), <<"block", t, o, how>>, Leave(t),
             Enter(m), <<"serve", m>>, Leave(m), Leave(o)>>
<1> DEFINE a == Under(t, <<<<"block", t, o, how>>>>)
           b == WakePath(m)
           s == a \o b
           r == Under(o, s)
<1>1. o \in Locks /\ t \in Locks /\ m \in Locks
  BY LocksAre
<1>2. a \in Seq(Steps) /\ Len(a) = 3 /\ a[1] = Enter(t) /\ a[2] = <<"block", t, o, how>>
      /\ a[3] = Leave(t)
  BY <1>1, StepsAre, UnderOne
<1>3. b \in Seq(Steps) /\ Len(b) = 3 /\ b[1] = Enter(m) /\ b[2] = <<"serve", m>>
      /\ b[3] = Leave(m)
  BY <1>1, StepsAre, UnderOne DEF WakePath
<1> HIDE DEF a, b
<1>4. /\ s \in Seq(Steps) /\ Len(s) = 6
      /\ s[1] = a[1] /\ s[2] = a[2] /\ s[3] = a[3] /\ s[4] = b[1] /\ s[5] = b[2] /\ s[6] = b[3]
  <2>1. /\ s \in Seq(Steps) /\ Len(s) = Len(a) + Len(b)
        /\ \A i \in 1..(Len(a) + Len(b)) : s[i] = IF i <= Len(a) THEN a[i] ELSE b[i - Len(a)]
    BY <1>2, <1>3, ConcatProperties, Zenon
  <2> HIDE DEF s
  <2>2. /\ s \in Seq(Steps) /\ Len(s) = 6
        /\ \A i \in 1..6 : s[i] = IF i <= 3 THEN a[i] ELSE b[i - 3]
    BY <2>1, <1>2, <1>3
  <2> QED BY <2>2
<1> HIDE DEF s
<1>5. r \in Seq(Steps) /\ Len(r) = Len(s) + 2 /\ r[1] = Enter(o) /\ r[Len(s) + 2] = Leave(o)
      /\ \A i \in 1..Len(s) : r[i + 1] = s[i]
  BY <1>1, <1>4, UnderFact
<1> HIDE DEF r
<1>6. Len(r) = 8 /\ r[2] = s[1] /\ r[3] = s[2] /\ r[4] = s[3] /\ r[5] = s[4] /\ r[6] = s[5]
      /\ r[7] = s[6] /\ r[8] = Leave(o)
  BY <1>4, <1>5
<1>7. r = <<Enter(o), Enter(t), <<"block", t, o, how>>, Leave(t),
            Enter(m), <<"serve", m>>, Leave(m), Leave(o)>>
  <2>1. /\ r \in Seq(Steps) /\ Len(r) = 8
        /\ r[1] = Enter(o) /\ r[2] = Enter(t) /\ r[3] = <<"block", t, o, how>> /\ r[4] = Leave(t)
        /\ r[5] = Enter(m) /\ r[6] = <<"serve", m>> /\ r[7] = Leave(m) /\ r[8] = Leave(o)
    BY <1>2, <1>3, <1>4, <1>5, <1>6
  <2>2. r = <<r[1], r[2], r[3], r[4], r[5], r[6], r[7], r[8]>>
    <3>1. r \in Seq(Steps) /\ Len(r) = 8
      BY <2>1
    <3> QED BY <3>1
  <2> QED BY <2>1, <2>2, Zenon
<1> QED
  BY <1>7 DEF r, s, a, b, CondWaitPath
\* What takes the place of a step: a thread is made ready, expires or awakes,
\* and the step perhaps comes again.
LEMMA UnderAndAgain ==
  ASSUME NEW l \in Locks, NEW x \in Steps, NEW y \in Steps
  PROVE  /\ Under(l, <<x>>) \o <<>> = <<Enter(l), x, Leave(l)>>
         /\ Under(l, <<x>>) \o <<y>> = <<Enter(l), x, Leave(l), y>>
         /\ Under(l, <<x>>) \o <<>> \in Seq(Steps) /\ Under(l, <<x>>) \o <<y>> \in Seq(Steps)
<1> DEFINE s == Under(l, <<x>>)
<1>1. /\ s \in Seq(Steps) /\ Len(s) = 3 /\ s[1] = Enter(l) /\ s[2] = x /\ s[3] = Leave(l)
      /\ s = <<Enter(l), x, Leave(l)>>
  BY UnderOne
<1> HIDE DEF s
<1>2. s \o <<>> = s
  BY <1>1
<1>3. s \o <<y>> = <<Enter(l), x, Leave(l), y>>
  <2> DEFINE r == s \o <<y>>
  <2>1. r \in Seq(Steps) /\ Len(r) = 4 /\ r[1] = s[1] /\ r[2] = s[2] /\ r[3] = s[3] /\ r[4] = y
    BY <1>1
  <2> HIDE DEF r
  <2>2. r = <<s[1], s[2], s[3], y>>
    BY <2>1
  <2> QED BY <1>1, <2>2 DEF r
<1>4. s \o <<>> \in Seq(Steps) /\ s \o <<y>> \in Seq(Steps)
  BY <1>1
<1> QED
  BY <1>1, <1>2, <1>3, <1>4 DEF s

-----------------------------------------------------------------------------
(* The locks behind every step of a path.                                    *)

LEMMA Ranks ==
  /\ LockRank(System) = 0 /\ LockRank(KernelThreadManager) = 1
  /\ \A o \in Conditions : LockRank(o) = 2
  /\ \A o \in Plain \union Mutexes : LockRank(o) = 3
  /\ \A t \in Threads : LockRank(t) = 4
  /\ \A l \in Locks : LockRank(l) \in 0..4
  BY LockAssumption DEF LockRank, Locks, WaitObjects

\* Steps put in the place of the first one, which have the same effect on the
\* locks.
LEMMA SpliceBrackets ==
  ASSUME NEW p \in Seq(Steps), p # <<>>, NEW held, Bracketed(p, held),
         NEW s \in Seq(Steps), NEW g, Annotates(g, s),
         g[Len(s) + 1] = After(p[1], held),
         System \in held => \A j \in 1..Len(s) : System \in g[j]
  PROVE  Bracketed(s \o Tail(p), g[1])
<1> DEFINE r == s \o Tail(p)
           n == Len(s)
           m == Len(p)
<1>1. n \in Nat /\ m \in Nat /\ m > 0
  BY SpliceFact
<1>2. /\ Len(r) = n + m - 1
      /\ \A i \in 1..n : r[i] = s[i]
      /\ \A i \in (n + 1)..(n + m - 1) : r[i] = p[i - n + 1]
  BY SpliceFact
<1>3. PICK h : h[1] = held /\ h[m + 1] = {} /\ Annotates(h, p)
  BY DEF Bracketed
<1>4. /\ \A i \in 1..m : /\ Legal(p[i], h[i]) /\ h[i + 1] = After(p[i], h[i])
                         /\ TimeOutStep(p[i]) => \A j \in 1..i : System \in h[j]
      /\ \A i \in 1..n : /\ Legal(s[i], g[i]) /\ g[i + 1] = After(s[i], g[i])
                         /\ TimeOutStep(s[i]) => \A j \in 1..i : System \in g[j]
  BY <1>3 DEF Annotates
<1>5. g[n + 1] = h[2]
  <2>1. h[1 + 1] = After(p[1], h[1])
    BY <1>1, <1>4
  <2> QED BY <1>3, <2>1
<1>6. System \in h[1] => \A j \in 1..n : System \in g[j]
  BY <1>3
<1> DEFINE k == [i \in 1..(n + m) |-> IF i <= n THEN g[i] ELSE h[i - n + 1]]
<1>7. /\ \A i \in 1..n : k[i] = g[i]
      /\ \A i \in (n + 1)..(n + m) : k[i] = h[i - n + 1]
      /\ k[n + 1] = g[n + 1]
  BY <1>1, <1>5
<1> HIDE DEF r, n, m, k
<1>8. k[1] = g[1] /\ k[Len(r) + 1] = {}
  <2>1. CASE n = 0
    BY <1>1, <1>2, <1>3, <1>7, <2>1
  <2>2. CASE n > 0
    BY <1>1, <1>2, <1>3, <1>7, <2>2
  <2> QED BY <1>1, <2>1, <2>2
<1>9. ASSUME NEW i \in 1..Len(r)
      PROVE  /\ Legal(r[i], k[i]) /\ k[i + 1] = After(r[i], k[i])
             /\ TimeOutStep(r[i]) => \A j \in 1..i : System \in k[j]
  <2>1. CASE i <= n
    <3>1. i \in 1..n /\ r[i] = s[i] /\ k[i] = g[i]
      BY <1>1, <1>2, <1>7, <2>1
    <3>2. k[i + 1] = g[i + 1]
      <4>1. CASE i = n
        BY <1>7, <4>1
      <4>2. CASE i < n
        BY <1>1, <1>7, <3>1, <4>2
      <4> QED BY <1>1, <3>1, <4>1, <4>2
    <3>3. \A j \in 1..i : k[j] = g[j]
      BY <1>1, <1>7, <3>1
    <3> QED BY <1>4, <3>1, <3>2, <3>3
  <2>2. CASE i > n
    <3> DEFINE x == i - n + 1
    <3>1. /\ i \in (n + 1)..(n + m - 1) /\ x \in 2..m /\ x + 1 = i + 1 - n + 1
          /\ i \in (n + 1)..(n + m) /\ i + 1 \in (n + 1)..(n + m)
      BY <1>1, <1>2, <2>2
    <3>2. r[i] = p[x] /\ k[i] = h[x]
      BY <1>2, <1>7, <3>1
    <3>3. k[i + 1] = h[x + 1]
      <4>1. PICK z \in (n + 1)..(n + m) : z = i + 1
        BY <3>1
      <4>2. k[z] = h[z - n + 1] /\ z - n + 1 = x + 1
        BY <1>1, <1>7, <4>1
      <4> QED BY <4>1, <4>2
    <3>4. /\ Legal(p[x], h[x]) /\ h[x + 1] = After(p[x], h[x])
          /\ TimeOutStep(p[x]) => \A j \in 1..x : System \in h[j]
      BY <1>1, <1>4, <3>1
    <3>5. ASSUME TimeOutStep(p[x]), NEW j \in 1..i
          PROVE  System \in k[j]
      <4>1. \A y \in 1..x : System \in h[y]
        BY <3>4, <3>5
      <4>2. CASE j <= n
        <5>1. j \in 1..n /\ 1 \in 1..x
          BY <1>1, <3>1, <4>2
        <5>2. System \in g[j]
          BY <1>6, <4>1, <5>1
        <5> QED BY <1>7, <5>1, <5>2
      <4>3. CASE j > n
        <5>1. j \in (n + 1)..(n + m) /\ j - n + 1 \in 1..x
          BY <1>1, <3>1, <4>3
        <5> QED BY <1>7, <4>1, <5>1
      <4> QED BY <1>1, <4>2, <4>3
    <3> HIDE DEF x
    <3> QED BY <3>2, <3>3, <3>4, <3>5
  <2> QED BY <1>1, <1>2, <2>1, <2>2
<1>10. Annotates(k, r)
  BY <1>9 DEF Annotates
<1> QED
  BY <1>8, <1>10 DEF Bracketed, r

\* Nothing is put in its place.
LEMMA TailBrackets ==
  ASSUME NEW p \in Seq(Steps), p # <<>>, NEW held, Bracketed(p, held)
  PROVE  Bracketed(<<>> \o Tail(p), After(p[1], held))
<1> DEFINE g == <<After(p[1], held)>>
           s == <<>>
<1>1. s \in Seq(Steps) /\ Len(s) = 0 /\ g[1] = After(p[1], held)
  OBVIOUS
<1>2. Annotates(g, s)
  BY <1>1 DEF Annotates
<1>3. g[Len(s) + 1] = After(p[1], held) /\ \A j \in 1..Len(s) : System \in g[j]
  BY <1>1
<1> HIDE DEF g, s
<1>4. Bracketed(s \o Tail(p), g[1])
  BY <1>1, <1>2, <1>3, SpliceBrackets
<1> QED
  BY <1>1, <1>4 DEF s
\* One step under the locks held, with the locks held behind it.
Step(s, held, then) ==
  /\ Legal(s, held) /\ then = After(s, held)
  /\ TimeOutStep(s) => System \in held

LEMMA AnnotateThree ==
  ASSUME NEW a, NEW b, NEW c, NEW h1, NEW h2, NEW h3, NEW h4,
         Step(a, h1, h2), Step(b, h2, h3), Step(c, h3, h4),
         System \in h1 => System \in h2 /\ System \in h3,
         System \notin h1 => ~TimeOutStep(a) /\ ~TimeOutStep(b) /\ ~TimeOutStep(c)
  PROVE  Annotates(<<h1, h2, h3, h4>>, <<a, b, c>>)
<1> DEFINE h == <<h1, h2, h3, h4>>
           p == <<a, b, c>>
<1>1. /\ Len(p) = 3 /\ p[1] = a /\ p[2] = b /\ p[3] = c
      /\ h[1] = h1 /\ h[2] = h2 /\ h[3] = h3 /\ h[4] = h4
  OBVIOUS
<1> HIDE DEF h, p
<1>2. \A j \in 1..3 : System \in h[1] => System \in h[j]
  BY <1>1
<1>3. ASSUME NEW i \in 1..3
      PROVE  /\ Legal(p[i], h[i]) /\ h[i + 1] = After(p[i], h[i])
             /\ TimeOutStep(p[i]) => \A j \in 1..i : System \in h[j]
  <2>1. TimeOutStep(p[i]) => System \in h[1]
    BY <1>1
  <2>2. \A j \in 1..i : j \in 1..3
    OBVIOUS
  <2>3. Legal(p[i], h[i]) /\ h[i + 1] = After(p[i], h[i])
    BY <1>1 DEF Step
  <2> QED BY <1>2, <2>1, <2>2, <2>3
<1>4. Annotates(h, p)
  BY <1>1, <1>3 DEF Annotates
<1> QED
  BY <1>4 DEF h, p

LEMMA AnnotateFour ==
  ASSUME NEW a, NEW b, NEW c, NEW d, NEW h1, NEW h2, NEW h3, NEW h4, NEW h5,
         Step(a, h1, h2), Step(b, h2, h3), Step(c, h3, h4), Step(d, h4, h5),
         System \in h1 => System \in h2 /\ System \in h3 /\ System \in h4,
         System \notin h1 =>
           ~TimeOutStep(a) /\ ~TimeOutStep(b) /\ ~TimeOutStep(c) /\ ~TimeOutStep(d)
  PROVE  Annotates(<<h1, h2, h3, h4, h5>>, <<a, b, c, d>>)
<1> DEFINE h == <<h1, h2, h3, h4, h5>>
           p == <<a, b, c, d>>
<1>1. /\ Len(p) = 4 /\ p[1] = a /\ p[2] = b /\ p[3] = c /\ p[4] = d
      /\ h[1] = h1 /\ h[2] = h2 /\ h[3] = h3 /\ h[4] = h4 /\ h[5] = h5
  OBVIOUS
<1> HIDE DEF h, p
<1>2. \A j \in 1..4 : System \in h[1] => System \in h[j]
  BY <1>1
<1>3. ASSUME NEW i \in 1..4
      PROVE  /\ Legal(p[i], h[i]) /\ h[i + 1] = After(p[i], h[i])
             /\ TimeOutStep(p[i]) => \A j \in 1..i : System \in h[j]
  <2>1. TimeOutStep(p[i]) => System \in h[1]
    BY <1>1
  <2>2. \A j \in 1..i : j \in 1..4
    OBVIOUS
  <2>3. Legal(p[i], h[i]) /\ h[i + 1] = After(p[i], h[i])
    BY <1>1 DEF Step
  <2> QED BY <1>2, <2>1, <2>2, <2>3
<1>4. Annotates(h, p)
  BY <1>1, <1>3 DEF Annotates
<1> QED
  BY <1>4 DEF h, p
LEMMA AnnotateFive ==
  ASSUME NEW a, NEW b, NEW c, NEW d, NEW e,
         NEW h1, NEW h2, NEW h3, NEW h4, NEW h5, NEW h6,
         Step(a, h1, h2), Step(b, h2, h3), Step(c, h3, h4), Step(d, h4, h5), Step(e, h5, h6),
         ~TimeOutStep(a) /\ ~TimeOutStep(b) /\ ~TimeOutStep(c) /\ ~TimeOutStep(d) /\ ~TimeOutStep(e)
  PROVE  Annotates(<<h1, h2, h3, h4, h5, h6>>, <<a, b, c, d, e>>)
<1> DEFINE h == <<h1, h2, h3, h4, h5, h6>>
           p == <<a, b, c, d, e>>
<1>1. /\ Len(p) = 5 /\ p[1] = a /\ p[2] = b /\ p[3] = c /\ p[4] = d /\ p[5] = e
      /\ h[1] = h1 /\ h[2] = h2 /\ h[3] = h3 /\ h[4] = h4 /\ h[5] = h5 /\ h[6] = h6
  OBVIOUS
<1> HIDE DEF h, p
<1>2. ASSUME NEW i \in 1..5
      PROVE  Legal(p[i], h[i]) /\ h[i + 1] = After(p[i], h[i]) /\ ~TimeOutStep(p[i])
  BY <1>1 DEF Step
<1>3. Annotates(h, p)
  BY <1>1, <1>2 DEF Annotates
<1> QED
  BY <1>3 DEF h, p

LEMMA AnnotateEight ==
  ASSUME NEW a, NEW b, NEW c, NEW d, NEW e, NEW f, NEW g, NEW k,
         NEW h1, NEW h2, NEW h3, NEW h4, NEW h5, NEW h6, NEW h7, NEW h8, NEW h9,
         Step(a, h1, h2), Step(b, h2, h3), Step(c, h3, h4), Step(d, h4, h5),
         Step(e, h5, h6), Step(f, h6, h7), Step(g, h7, h8), Step(k, h8, h9),
         ~TimeOutStep(a) /\ ~TimeOutStep(b) /\ ~TimeOutStep(c) /\ ~TimeOutStep(d),
         ~TimeOutStep(e) /\ ~TimeOutStep(f) /\ ~TimeOutStep(g) /\ ~TimeOutStep(k)
  PROVE  Annotates(<<h1, h2, h3, h4, h5, h6, h7, h8, h9>>, <<a, b, c, d, e, f, g, k>>)
<1> DEFINE h == <<h1, h2, h3, h4, h5, h6, h7, h8, h9>>
           p == <<a, b, c, d, e, f, g, k>>
<1>1. /\ Len(p) = 8 /\ p[1] = a /\ p[2] = b /\ p[3] = c /\ p[4] = d /\ p[5] = e /\ p[6] = f
      /\ p[7] = g /\ p[8] = k
      /\ h[1] = h1 /\ h[2] = h2 /\ h[3] = h3 /\ h[4] = h4 /\ h[5] = h5 /\ h[6] = h6
      /\ h[7] = h7 /\ h[8] = h8 /\ h[9] = h9
  OBVIOUS
<1> HIDE DEF h, p
<1>2. ASSUME NEW i \in 1..8
      PROVE  Legal(p[i], h[i]) /\ h[i + 1] = After(p[i], h[i]) /\ ~TimeOutStep(p[i])
  <2>1. i = 1 \/ i = 2 \/ i = 3 \/ i = 4 \/ i = 5 \/ i = 6 \/ i = 7 \/ i = 8
    OBVIOUS
  <2>2. i \in 1..4 \/ i \in 5..8
    BY <2>1
  <2>3. CASE i \in 1..4
    BY <1>1, <2>3 DEF Step
  <2>4. CASE i \in 5..8
    BY <1>1, <2>4 DEF Step
  <2> QED BY <2>2, <2>3, <2>4
<1>3. Annotates(h, p)
  BY <1>1, <1>2 DEF Annotates
<1> QED
  BY <1>3 DEF h, p

LEMMA EnterLegal ==
  ASSUME NEW l \in Locks, NEW held, l \notin held,
         TimedObjects \subseteq Plain => \A k \in held : LockRank(k) < LockRank(l)
  PROVE  Step(Enter(l), held, held \union {l})
  BY DEF Step, Legal, After, Enter, TimeOutStep

LEMMA LeaveLegal ==
  ASSUME NEW l, NEW held, l \in held
  PROVE  Step(Leave(l), held, held \ {l})
  BY DEF Step, Legal, After, Leave, TimeOutStep
\* A path under one lock, or under one inside another, can begin with no lock
\* held, and ends with none.
LEMMA OneLockBrackets ==
  ASSUME NEW l \in Locks, NEW x, Step(x, {l}, {l}), ~TimeOutStep(x)
  PROVE  Bracketed(<<Enter(l), x, Leave(l)>>, {})
<1>1. Step(Enter(l), {}, {l}) /\ Step(Leave(l), {l}, {})
  BY EnterLegal, LeaveLegal
<1>2. ~TimeOutStep(Enter(l)) /\ ~TimeOutStep(Leave(l))
  BY DEF TimeOutStep, Enter, Leave
<1> DEFINE h == <<{}, {l}, {l}, {}>>
           p == <<Enter(l), x, Leave(l)>>
<1>3. Annotates(h, p)
  BY <1>1, <1>2, AnnotateThree
<1>4. Len(p) = 3 /\ h[1] = {} /\ h[4] = {}
  OBVIOUS
<1> HIDE DEF h, p
<1>5. Bracketed(p, {})
  BY <1>3, <1>4 DEF Bracketed
<1> QED
  BY <1>5 DEF p

LEMMA TwoLocksBrackets ==
  ASSUME NEW l \in Locks, NEW k \in Locks, LockRank(l) < LockRank(k),
         NEW x, Step(x, {l, k}, {l, k}), ~TimeOutStep(x)
  PROVE  Bracketed(<<Enter(l), Enter(k), x, Leave(k), Leave(l)>>, {})
<1>0. l # k
  BY Ranks
<1>1. Step(Enter(l), {}, {l}) /\ Step(Leave(l), {l}, {})
  BY EnterLegal, LeaveLegal
<1>2. Step(Enter(k), {l}, {l, k}) /\ Step(Leave(k), {l, k}, {l})
  BY <1>0, EnterLegal, LeaveLegal
<1>3. \A m : ~TimeOutStep(Enter(m)) /\ ~TimeOutStep(Leave(m))
  BY DEF TimeOutStep, Enter, Leave
<1> DEFINE h == <<{}, {l}, {l, k}, {l, k}, {l}, {}>>
           p == <<Enter(l), Enter(k), x, Leave(k), Leave(l)>>
<1>4. Annotates(h, p)
  BY <1>1, <1>2, <1>3, AnnotateFive
<1>5. Len(p) = 5 /\ h[1] = {} /\ h[6] = {}
  OBVIOUS
<1> HIDE DEF h, p
<1>6. Bracketed(p, {})
  BY <1>4, <1>5 DEF Bracketed
<1> QED
  BY <1>6 DEF p

LEMMA ObjectPathsBracketed ==
  ASSUME NEW o \in WaitObjects
  PROVE  /\ Bracketed(WakePath(o), {})
         /\ \A t \in Threads : \A how \in {"infinite", "arm"} : Bracketed(WaitPath(o, t, how), {})
<1>1. o \in Locks
  BY LocksAre
<1>2. ASSUME NEW t \in Threads, NEW how \in {"infinite", "arm"}
      PROVE  Bracketed(WaitPath(o, t, how), {})
  <2> DEFINE x == <<"block", t, o, how>>
  <2>1. t \in Locks /\ LockRank(o) < LockRank(t)
    BY LocksAre, Ranks DEF WaitObjects
  <2>2. Step(x, {o, t}, {o, t}) /\ ~TimeOutStep(x)
    BY DEF Step, Legal, After, TimeOutStep
  <2>3. WaitPath(o, t, how) = <<Enter(o), Enter(t), x, Leave(t), Leave(o)>>
    BY ObjectPaths
  <2> HIDE DEF x
  <2> QED BY <1>1, <2>1, <2>2, <2>3, TwoLocksBrackets
<1>3. Bracketed(WakePath(o), {})
  <2> DEFINE x == <<"serve", o>>
  <2>1. Step(x, {o}, {o}) /\ ~TimeOutStep(x)
    BY DEF Step, Legal, After, TimeOutStep
  <2>2. WakePath(o) = <<Enter(o), x, Leave(o)>>
    BY ObjectPaths
  <2> HIDE DEF x
  <2> QED BY <1>1, <2>1, <2>2, OneLockBrackets
<1> QED
  BY <1>2, <1>3

LEMMA ThreadPathsBracketed ==
  ASSUME NEW t \in Threads
  PROVE  /\ Bracketed(ReadStatusPath(t), {})
         /\ Bracketed(SetTimerPath(t), {})
         /\ Bracketed(CancelTimerPath(t), {})
         /\ Bracketed(SleepPath(t), {})
<1>1. /\ t \in Locks /\ System \in Locks /\ KernelThreadManager \in Locks
      /\ LockRank(KernelThreadManager) < LockRank(t)
  BY LocksAre, Ranks
<1>2. Bracketed(SleepPath(t), {})
  <2> DEFINE x == <<"sleep", t>>
             l == KernelThreadManager
  <2>1. Step(x, {l, t}, {l, t}) /\ ~TimeOutStep(x)
    BY DEF Step, Legal, After, TimeOutStep
  <2>2. SleepPath(t) = <<Enter(l), Enter(t), x, Leave(t), Leave(l)>>
    BY ThreadPaths
  <2> HIDE DEF x
  <2> QED BY <1>1, <2>1, <2>2, TwoLocksBrackets
<1>3. Bracketed(ReadStatusPath(t), {})
  <2> DEFINE x == <<"return", t>>
  <2>1. Step(x, {t}, {t}) /\ ~TimeOutStep(x)
    BY DEF Step, Legal, After, TimeOutStep
  <2>2. ReadStatusPath(t) = <<Enter(t), x, Leave(t)>>
    BY ThreadPaths
  <2> HIDE DEF x
  <2> QED BY <1>1, <2>1, <2>2, OneLockBrackets
<1>4. Bracketed(SetTimerPath(t), {}) /\ Bracketed(CancelTimerPath(t), {})
  <2> DEFINE x == <<"arm", t>>
             y == <<"disarm", t>>
  <2>1. /\ Step(x, {System}, {System}) /\ ~TimeOutStep(x)
        /\ Step(y, {System}, {System}) /\ ~TimeOutStep(y)
    BY DEF Step, Legal, After, TimeOutStep
  <2>2. /\ SetTimerPath(t) = <<Enter(System), x, Leave(System)>>
        /\ CancelTimerPath(t) = <<Enter(System), y, Leave(System)>>
    BY ThreadPaths
  <2> HIDE DEF x, y
  <2>3. Bracketed(SetTimerPath(t), {})
    BY <1>1, <2>1, <2>2, OneLockBrackets
  <2>4. Bracketed(CancelTimerPath(t), {})
    BY <1>1, <2>1, <2>2, OneLockBrackets
  <2> QED BY <2>3, <2>4
<1> QED
  BY <1>2, <1>3, <1>4

LEMMA InterruptPathsBracketed ==
  Bracketed(TimerPath, {}) /\ Bracketed(WakeSleepersPath, {})
<1>1. /\ System \in Locks /\ KernelThreadManager \in Locks
      /\ LockRank(System) < LockRank(KernelThreadManager)
  BY LocksAre, Ranks
<1>2. Bracketed(TimerPath, {})
  <2> DEFINE x == <<"fire">>
  <2>1. Step(x, {System}, {System}) /\ ~TimeOutStep(x)
    BY DEF Step, Legal, After, TimeOutStep
  <2>2. TimerPath = <<Enter(System), x, Leave(System)>>
    BY InterruptPaths
  <2> HIDE DEF x
  <2> QED BY <1>1, <2>1, <2>2, OneLockBrackets
<1>3. Bracketed(WakeSleepersPath, {})
  <2> DEFINE x == <<"sleepers">>
             k == KernelThreadManager
  <2>1. Step(x, {System, k}, {System, k}) /\ ~TimeOutStep(x)
    BY DEF Step, Legal, After, TimeOutStep
  <2>2. WakeSleepersPath = <<Enter(System), Enter(k), x, Leave(k), Leave(System)>>
    BY InterruptPaths
  <2> HIDE DEF x
  <2> QED BY <1>1, <2>1, <2>2, TwoLocksBrackets
<1> QED
  BY <1>2, <1>3

LEMMA CondWaitBracketed ==
  ASSUME NEW o \in Conditions, NEW t \in Threads, NEW m \in Mutexes,
         NEW how \in {"infinite", "arm"}
  PROVE  Bracketed(CondWaitPath(o, t, m, how), {})
<1> DEFINE x == <<"block", t, o, how>>
           y == <<"serve", m>>
<1>1. /\ o \in Locks /\ t \in Locks /\ m \in Locks /\ o \in WaitObjects /\ m \in WaitObjects
      /\ LockRank(o) < LockRank(t) /\ LockRank(o) < LockRank(m) /\ o # t /\ o # m
  BY LocksAre, Ranks
<1>2. Step(Enter(o), {}, {o}) /\ Step(Leave(o), {o}, {})
  BY <1>1, EnterLegal, LeaveLegal
<1>3. Step(Enter(t), {o}, {o, t}) /\ Step(Leave(t), {o, t}, {o})
  BY <1>1, EnterLegal, LeaveLegal
<1>4. Step(Enter(m), {o}, {o, m}) /\ Step(Leave(m), {o, m}, {o})
  BY <1>1, EnterLegal, LeaveLegal
<1>5. Step(x, {o, t}, {o, t}) /\ ~TimeOutStep(x) /\ Step(y, {o, m}, {o, m}) /\ ~TimeOutStep(y)
  BY <1>1 DEF Step, Legal, After, TimeOutStep
<1>6. \A l : ~TimeOutStep(Enter(l)) /\ ~TimeOutStep(Leave(l))
  BY DEF TimeOutStep, Enter, Leave
<1>7. CondWaitPath(o, t, m, how) =
        <<Enter(o), Enter(t), x, Leave(t), Enter(m), y, Leave(m), Leave(o)>>
  BY <1>1, CondWaitPathIs
<1> HIDE DEF x, y
<1> DEFINE h == <<{}, {o}, {o, t}, {o, t}, {o}, {o, m}, {o, m}, {o}, {}>>
           p == <<Enter(o), Enter(t), x, Leave(t), Enter(m), y, Leave(m), Leave(o)>>
<1>8. Annotates(h, p)
  BY <1>2, <1>3, <1>4, <1>5, <1>6, AnnotateEight
<1>9. Len(p) = 8 /\ h[1] = {} /\ h[9] = {}
  OBVIOUS
<1> HIDE DEF h, p
<1>10. Bracketed(p, {})
  BY <1>8, <1>9 DEF Bracketed
<1> QED
  BY <1>7, <1>10 DEF p
\* A step is replaced by another one under one more lock, and perhaps comes
\* again.
LEMMA SpliceUnder ==
  ASSUME NEW p \in Seq(Steps), p # <<>>, NEW held, Bracketed(p, held),
         After(p[1], held) = held, ~TimeOutStep(p[1]) \/ System \in held,
         NEW l \in Locks, l \notin held,
         TimedObjects \subseteq Plain => \A k \in held : LockRank(k) < LockRank(l),
         NEW x \in Steps, Step(x, held \union {l}, held \union {l}),
         TimeOutStep(x) => System \in held
  PROVE  /\ Bracketed((Under(l, <<x>>) \o <<>>) \o Tail(p), held)
         /\ Bracketed((Under(l, <<x>>) \o <<p[1]>>) \o Tail(p), held)
<1> DEFINE more == held \union {l}
<1>0. p[1] \in Steps
  BY SpliceFact
<1>1. Step(p[1], held, held)
  <2>1. PICK h : h[1] = held /\ Annotates(h, p)
    BY DEF Bracketed
  <2>2. Legal(p[1], h[1])
    BY <2>1, SpliceFact DEF Annotates
  <2> QED BY <2>1, <2>2 DEF Step
<1>2. Step(Enter(l), held, more) /\ Step(Leave(l), more, held)
  <2>1. more \ {l} = held
    OBVIOUS
  <2> QED BY <2>1, EnterLegal, LeaveLegal
<1>3. ~TimeOutStep(Enter(l)) /\ ~TimeOutStep(Leave(l))
  BY DEF TimeOutStep, Enter, Leave
<1>4. System \in held => System \in more
  OBVIOUS
<1> HIDE DEF more
<1>5. Bracketed((Under(l, <<x>>) \o <<>>) \o Tail(p), held)
  <2> DEFINE s == Under(l, <<x>>) \o <<>>
             g == <<held, more, more, held>>
  <2>1. s = <<Enter(l), x, Leave(l)>> /\ s \in Seq(Steps) /\ Len(s) = 3
    <3>1. s = <<Enter(l), x, Leave(l)>> /\ s \in Seq(Steps)
      BY <1>0, UnderAndAgain
    <3> QED BY <3>1
  <2>2. Annotates(g, s)
    <3>1. Step(x, more, more)
      BY DEF more
    <3> QED BY <1>2, <1>3, <1>4, <2>1, <3>1, AnnotateThree
  <2>3. g[1] = held /\ g[4] = held /\ \A j \in 1..3 : System \in held => System \in g[j]
    BY <1>4
  <2> HIDE DEF s, g
  <2>4. g[Len(s) + 1] = After(p[1], held) /\ (System \in held => \A j \in 1..Len(s) : System \in g[j])
    BY <2>1, <2>3
  <2>5. Bracketed(s \o Tail(p), g[1])
    BY <2>1, <2>2, <2>4, SpliceBrackets
  <2> QED BY <2>3, <2>5 DEF s
<1>6. Bracketed((Under(l, <<x>>) \o <<p[1]>>) \o Tail(p), held)
  <2> DEFINE y == p[1]
             s == Under(l, <<x>>) \o <<y>>
             g == <<held, more, more, held, held>>
  <2> HIDE DEF y
  <2>1. s = <<Enter(l), x, Leave(l), y>> /\ s \in Seq(Steps) /\ Len(s) = 4
    <3>1. y \in Steps
      BY <1>0 DEF y
    <3>2. s = <<Enter(l), x, Leave(l), y>> /\ s \in Seq(Steps)
      BY <3>1, UnderAndAgain
    <3> QED BY <3>2
  <2>2. Annotates(g, s)
    <3>1. Step(x, more, more) /\ Step(y, held, held) /\ (~TimeOutStep(y) \/ System \in held)
      BY <1>1 DEF more, y
    <3> QED BY <1>2, <1>3, <1>4, <2>1, <3>1, AnnotateFour
  <2>3. g[1] = held /\ g[5] = held /\ \A j \in 1..4 : System \in held => System \in g[j]
    BY <1>4
  <2> HIDE DEF s, g
  <2>4. g[Len(s) + 1] = After(p[1], held) /\ (System \in held => \A j \in 1..Len(s) : System \in g[j])
    BY <2>1, <2>3
  <2>5. Bracketed(s \o Tail(p), g[1])
    BY <2>1, <2>2, <2>4, SpliceBrackets
  <2> QED BY <2>3, <2>5 DEF s, y
<1> QED
  BY <1>5, <1>6

\* A step is replaced by one under the same locks.
LEMMA SpliceOne ==
  ASSUME NEW p \in Seq(Steps), p # <<>>, NEW held, Bracketed(p, held),
         After(p[1], held) = held,
         NEW x \in Steps, Step(x, held, held)
  PROVE  Bracketed(<<x>> \o Tail(p), held)
<1> DEFINE s == <<x>>
           g == <<held, held>>
<1>1. s \in Seq(Steps) /\ Len(s) = 1 /\ s[1] = x /\ g[1] = held /\ g[2] = held
  OBVIOUS
<1> HIDE DEF s, g
<1>2. Annotates(g, s)
  BY <1>1 DEF Annotates, Step
<1>3. g[Len(s) + 1] = After(p[1], held) /\ (System \in held => \A j \in 1..Len(s) : System \in g[j])
  BY <1>1
<1>4. Bracketed(s \o Tail(p), g[1])
  BY <1>1, <1>2, <1>3, SpliceBrackets
<1> QED
  BY <1>1, <1>4 DEF s
-----------------------------------------------------------------------------
(* How the invariant carries over a step.                                    *)

\* What the steps are about.
LEMMA StepTyped ==
  ASSUME NEW s \in Steps
  PROVE  /\ s[1] \in CallKinds => s[2] \in Threads
         /\ s[1] \in {"ready", "awake", "expire", "timeout"} => s[2] \in Threads
         /\ s[1] \in {"enter", "leave"} => s[2] \in Locks
         /\ s[1] = "serve" => s[2] \in WaitObjects
         /\ s[1] = "block" => s[3] \in WaitObjects /\ s[4] \in {"infinite", "arm"}
         /\ \A t : s[1] = "ready" /\ s[2] = t <=> s = <<"ready", t>>
         /\ \A t : s[1] = "awake" /\ s[2] = t <=> s = <<"awake", t>>
  BY DEF Steps, CallKinds

\* A pending step of d that is not the next one of c.
Others(c, d, s) ==
  \E i \in 1..Len(path[d]) : path[d][i] = s /\ (d = c => i # 1)

LEMMA OthersFact ==
  ASSUME SpinTypeOK, StepsFit, OnceEach, RunnersDiffer,
         NEW c \in CPUs, ~Idle(c), NEW d \in CPUs, NEW s, Others(c, d, s)
  PROVE  /\ s \in Steps /\ Fits(runner[d], s)
         /\ Head(path[c]) = path[c][1] /\ Head(path[c]) \in Steps
         /\ Fits(runner[c], Head(path[c]))
         /\ ~Same(s, Head(path[c]))
         /\ s[1] \in CallKinds /\ Head(path[c])[1] \in CallKinds => s[2] # Head(path[c])[2]
<1>1. path[c] \in Seq(Steps) /\ path[c] # <<>> /\ path[d] \in Seq(Steps)
  BY DEF SpinTypeOK, Idle
<1>2. Head(path[c]) = path[c][1] /\ 1 \in 1..Len(path[c]) /\ Head(path[c]) \in Steps
  BY <1>1
<1>3. PICK i \in 1..Len(path[d]) : path[d][i] = s /\ (d = c => i # 1)
  BY DEF Others
<1>4. s \in Steps
  BY <1>1, <1>3
<1>5. Fits(runner[d], s) /\ Fits(runner[c], Head(path[c]))
  BY <1>2, <1>3 DEF StepsFit
<1>6. ~Same(s, Head(path[c]))
  BY <1>2, <1>3 DEF OnceEach
<1>7. ASSUME s[1] \in CallKinds, Head(path[c])[1] \in CallKinds
      PROVE  s[2] # Head(path[c])[2]
  <2>1. d # c
    BY <1>2, <1>3, <1>7 DEF OnceEach
  <2>2. runner[d] = s[2] /\ runner[c] = Head(path[c])[2]
    BY <1>5, <1>7 DEF Fits
  <2>3. s[2] # NoThread
    BY <1>4, <1>7, StepTyped, LockAssumption
  <2> QED BY <2>1, <2>2, <2>3 DEF RunnersDiffer
<1> QED
  BY <1>2, <1>4, <1>5, <1>6, <1>7

\* Continue, step by step.
LEMMA ContinueFact ==
  ASSUME SpinTypeOK, NEW c \in CPUs, ~Idle(c), NEW steps \in Seq(Steps), Continue(c, steps)
  PROVE  /\ path' \in [CPUs -> Seq(Steps)]
         /\ path'[c] = steps \o Tail(path[c])
         /\ \A d \in CPUs \ {c} : path'[d] = path[d] /\ runner'[d] = runner[d]
         /\ runner' \in [CPUs -> Threads \union {NoThread}]
         /\ runner'[c] \in {runner[c], NoThread}
         /\ path'[c] # <<>> => runner'[c] = runner[c]
         /\ \A d \in CPUs : \A i \in 1..Len(path'[d]) :
              \/ Others(c, d, path'[d][i])
              \/ d = c /\ i \in 1..Len(steps) /\ path'[d][i] = steps[i]
         /\ \A d \in CPUs : \A s : Others(c, d, s) => \E i \in 1..Len(path'[d]) : path'[d][i] = s
         /\ \A i \in 1..Len(steps) : i \in 1..Len(path'[c]) /\ path'[c][i] = steps[i]
<1> DEFINE p == path[c]
           r == steps \o Tail(p)
           n == Len(steps)
           m == Len(p)
<1>1. p \in Seq(Steps) /\ p # <<>>
  BY DEF SpinTypeOK, Idle
<1>2. /\ n \in Nat /\ m \in Nat /\ m > 0 /\ r \in Seq(Steps) /\ Len(r) = n + m - 1
      /\ \A i \in 1..n : r[i] = steps[i]
      /\ \A i \in (n + 1)..(n + m - 1) : r[i] = p[i - n + 1]
  BY <1>1, SpliceFact
<1>3. path' = [path EXCEPT ![c] = r]
      /\ runner' = [runner EXCEPT ![c] = IF r = <<>> THEN NoThread ELSE runner[c]]
  BY DEF Continue
<1>4. /\ path' \in [CPUs -> Seq(Steps)] /\ path'[c] = r
      /\ \A d \in CPUs \ {c} : path'[d] = path[d]
  <2> HIDE DEF r
  <2> QED BY <1>2, <1>3 DEF SpinTypeOK
<1>5. /\ \A d \in CPUs \ {c} : runner'[d] = runner[d]
      /\ runner' \in [CPUs -> Threads \union {NoThread}]
      /\ runner'[c] \in {runner[c], NoThread}
      /\ r # <<>> => runner'[c] = runner[c]
  <2> HIDE DEF r
  <2> QED BY <1>2, <1>3 DEF SpinTypeOK
<1> HIDE DEF r, n, m
<1>6. ASSUME NEW d \in CPUs, NEW i \in 1..Len(path'[d])
      PROVE  \/ Others(c, d, path'[d][i])
             \/ d = c /\ i \in 1..n /\ path'[d][i] = steps[i]
  <2>1. CASE d # c
    BY <1>4, <2>1 DEF Others
  <2>2. CASE d = c /\ i <= n
    BY <1>2, <1>4, <2>2
  <2>3. CASE d = c /\ i > n
    <3>1. i \in (n + 1)..(n + m - 1) /\ i - n + 1 \in 1..m /\ i - n + 1 # 1
      BY <1>2, <1>4, <2>3
    <3>2. path'[d][i] = path[d][i - n + 1]
      BY <1>2, <1>4, <2>3, <3>1
    <3> QED BY <2>3, <3>1, <3>2 DEF Others, m
  <2> QED BY <1>2, <2>1, <2>2, <2>3
<1>7. ASSUME NEW d \in CPUs, NEW s, Others(c, d, s)
      PROVE  \E i \in 1..Len(path'[d]) : path'[d][i] = s
  <2>1. PICK i \in 1..Len(path[d]) : path[d][i] = s /\ (d = c => i # 1)
    BY <1>7 DEF Others
  <2>2. CASE d # c
    BY <1>4, <2>1, <2>2
  <2>3. CASE d = c
    <3>1. i \in 2..m /\ i + n - 1 \in (n + 1)..(n + m - 1) /\ i + n - 1 \in 1..Len(r)
      BY <1>2, <2>1, <2>3 DEF m
    <3>2. r[i + n - 1] = p[i]
      <4>1. PICK z \in (n + 1)..(n + m - 1) : z = i + n - 1
        BY <3>1
      <4>2. r[z] = p[z - n + 1] /\ z - n + 1 = i
        BY <1>2, <3>1, <4>1
      <4> QED BY <4>1, <4>2
    <3> QED BY <1>4, <2>1, <2>3, <3>1, <3>2
  <2> QED BY <2>2, <2>3
<1>8. \A i \in 1..n : i \in 1..Len(r) /\ r[i] = steps[i]
  BY <1>2
<1> QED
  BY <1>4, <1>5, <1>6, <1>7, <1>8 DEF r, n, m
LEMMA StepsKept ==
  ASSUME SpinTypeOK, NEW c \in CPUs, ~Idle(c), NEW steps \in Seq(Steps), Continue(c, steps),
         \A d \in CPUs, s \in Steps : Others(c, d, s) /\ runner'[d] = runner[d] => Fits(runner[d], s)',
         \A i \in 1..Len(steps), s \in Steps :
           s = steps[i] /\ runner'[c] = runner[c] => Fits(runner[c], s)'
  PROVE  StepsFit'
<1> SUFFICES ASSUME NEW d \in CPUs, NEW i \in 1..Len(path'[d])
             PROVE  Fits(runner[d], path[d][i])'
  BY DEF StepsFit
<1>1. PICK s : s = path'[d][i]
  OBVIOUS
<1>2. path'[d] \in Seq(Steps) /\ s \in Steps /\ path'[d] # <<>>
  BY <1>1, ContinueFact
<1>3. runner'[d] = runner[d]
  BY <1>2, ContinueFact
<1>4. Others(c, d, s) \/ (d = c /\ i \in 1..Len(steps) /\ s = steps[i])
  BY <1>1, ContinueFact
<1>5. Fits(runner[d], s)'
  BY <1>2, <1>3, <1>4
<1> QED
  BY <1>1, <1>5

LEMMA OnceKept ==
  ASSUME SpinTypeOK, OnceEach, NEW c \in CPUs, ~Idle(c), NEW steps \in Seq(Steps),
         Continue(c, steps),
         \A i \in 1..Len(steps) : steps[i][1] \notin CallKinds,
         \A i, j \in 1..Len(steps) : Same(steps[i], steps[j]) => i = j,
         \A i \in 1..Len(steps) : \A d \in CPUs : \A s \in Steps :
           Others(c, d, s) => ~Same(s, steps[i])
  PROVE  OnceEach'
<1> DEFINE p == path[c]
           n == Len(steps)
           m == Len(p)
<1>1. p \in Seq(Steps) /\ p # <<>>
  BY DEF SpinTypeOK, Idle
<1>2. PICK q : q = path'
  OBVIOUS
<1>3. /\ n \in Nat /\ m \in Nat /\ m > 0 /\ Len(q[c]) = n + m - 1
      /\ \A i \in 1..n : q[c][i] = steps[i]
      /\ \A i \in (n + 1)..(n + m - 1) : q[c][i] = p[i - n + 1]
  BY <1>1, <1>2, ContinueFact, SpliceFact
<1>4. \A d \in CPUs \ {c} : q[d] = path[d]
  BY <1>2, ContinueFact
<1> HIDE DEF n, m
\* Where a step of q was before.
<1>5. ASSUME NEW d \in CPUs, NEW i \in 1..Len(q[d])
      PROVE  \/ /\ d = c /\ i \in 1..n /\ q[d][i] = steps[i]
             \/ /\ d = c => i - n + 1 \in 1..Len(path[d]) /\ i - n + 1 # 1
                              /\ q[d][i] = path[d][i - n + 1]
                /\ d # c => i \in 1..Len(path[d]) /\ q[d][i] = path[d][i]
                /\ Others(c, d, q[d][i]) /\ q[d][i] \in Steps
  <2>1. CASE d # c
    <3>1. i \in 1..Len(path[d]) /\ q[d][i] = path[d][i] /\ path[d] \in Seq(Steps)
      BY <1>4, <2>1 DEF SpinTypeOK
    <3> QED BY <2>1, <3>1 DEF Others
  <2>2. CASE d = c /\ i \in 1..n
    BY <1>3, <2>2
  <2>3. CASE d = c /\ i \notin 1..n
    <3>1. i \in (n + 1)..(n + m - 1) /\ i - n + 1 \in 1..m /\ i - n + 1 # 1
      BY <1>3, <2>3
    <3>2. q[c][i] = p[i - n + 1]
      BY <1>3, <3>1
    <3>3. PICK x \in 1..m : x = i - n + 1 /\ x # 1
      BY <3>1
    <3>4. q[c][i] = p[x] /\ p[x] \in Steps /\ Others(c, c, p[x])
      BY <1>1, <3>2, <3>3 DEF Others, m
    <3> QED BY <2>3, <3>1, <3>2, <3>4 DEF m
  <2> QED BY <2>1, <2>2, <2>3
<1>6. ASSUME NEW d \in CPUs, NEW e \in CPUs, NEW i \in 1..Len(q[d]), NEW j \in 1..Len(q[e]),
             Same(q[d][i], q[e][j])
      PROVE  d = e /\ i = j
  <2>0. Same(q[e][j], q[d][i])
    BY <1>6 DEF Same
  <2>1. CASE d = c /\ i \in 1..n /\ q[d][i] = steps[i]
    <3>1. ~Others(c, e, q[e][j]) \/ q[e][j] \notin Steps
      BY <2>0, <2>1 DEF n
    <3>2. e = c /\ j \in 1..n /\ q[e][j] = steps[j]
      BY <1>5, <3>1
    <3> QED BY <1>6, <2>1, <3>2 DEF n
  <2>2. CASE e = c /\ j \in 1..n /\ q[e][j] = steps[j]
    <3>1. ~Others(c, d, q[d][i]) \/ q[d][i] \notin Steps
      BY <1>6, <2>2 DEF n
    <3>2. d = c /\ i \in 1..n /\ q[d][i] = steps[i]
      BY <1>5, <3>1
    <3> QED BY <1>6, <2>2, <3>2 DEF n
  <2>3. CASE /\ ~(d = c /\ i \in 1..n /\ q[d][i] = steps[i])
             /\ ~(e = c /\ j \in 1..n /\ q[e][j] = steps[j])
    <3>1. PICK x \in 1..Len(path[d]) : q[d][i] = path[d][x] /\ x = IF d = c THEN i - n + 1 ELSE i
      BY <1>5, <2>3
    <3>2. PICK y \in 1..Len(path[e]) : q[e][j] = path[e][y] /\ y = IF e = c THEN j - n + 1 ELSE j
      BY <1>5, <2>3
    <3>3. d = e /\ x = y
      BY <1>6, <3>1, <3>2, SMTT(60) DEF OnceEach
    <3>4. i \in Int /\ j \in Int /\ n \in Int
      BY <1>3
    <3> QED BY <3>1, <3>2, <3>3, <3>4
  <2> QED BY <2>1, <2>2, <2>3
<1>7. ASSUME NEW d \in CPUs, NEW i \in 1..Len(q[d]), NEW j \in 1..Len(q[d]),
             q[d][i][1] \in CallKinds, q[d][j][1] \in CallKinds
      PROVE  i = j
  <2>0. /\ ~(d = c /\ i \in 1..n /\ q[d][i] = steps[i])
        /\ ~(d = c /\ j \in 1..n /\ q[d][j] = steps[j])
    BY <1>7 DEF n
  <2>1. PICK x \in 1..Len(path[d]) : q[d][i] = path[d][x] /\ x = IF d = c THEN i - n + 1 ELSE i
    BY <1>5, <2>0
  <2>2. PICK y \in 1..Len(path[d]) : q[d][j] = path[d][y] /\ y = IF d = c THEN j - n + 1 ELSE j
    BY <1>5, <2>0
  <2>3. x = y
    BY <1>7, <2>1, <2>2 DEF OnceEach
  <2>4. i \in Int /\ j \in Int /\ n \in Int
    BY <1>3
  <2> QED BY <2>1, <2>2, <2>3, <2>4
<1> QED
  BY <1>2, <1>6, <1>7 DEF OnceEach

LEMMA RunnersKept ==
  ASSUME SpinTypeOK, RunnersDiffer, NEW c \in CPUs, ~Idle(c), NEW steps \in Seq(Steps),
         Continue(c, steps)
  PROVE  RunnersDiffer'
<1>1. \A d \in CPUs : runner'[d] \in {runner[d], NoThread}
  BY ContinueFact
<1> QED
  BY <1>1 DEF RunnersDiffer

\* A thread that was stranded before is still served, unless it is the subject.
LEMMA StrandedKept ==
  ASSUME SpinTypeOK, NobodyStranded, NEW c \in CPUs, ~Idle(c), NEW steps \in Seq(Steps),
         Continue(c, steps),
         \A t \in Threads : pc'[t] \in Waiting /\ readied'[t] = 0 =>
           \/ t \in queued'
           \/ /\ pc[t] \in Waiting /\ readied[t] = 0 /\ t \notin queued
              /\ Head(path[c]) # <<"ready", t>>
           \/ \E i \in 1..Len(steps) : steps[i] = <<"ready", t>>
  PROVE  NobodyStranded'
<1> SUFFICES ASSUME NEW t \in Threads, pc'[t] \in Waiting, readied'[t] = 0, t \notin queued'
             PROVE  \E d \in CPUs : \E i \in 1..Len(path'[d]) : path'[d][i] = <<"ready", t>>
  BY DEF NobodyStranded, Waiting
<1>1. CASE /\ pc[t] \in Waiting /\ readied[t] = 0 /\ t \notin queued
           /\ Head(path[c]) # <<"ready", t>>
  <2>1. PICK d \in CPUs : \E i \in 1..Len(path[d]) : path[d][i] = <<"ready", t>>
    BY <1>1 DEF NobodyStranded, Waiting
  <2>2. Head(path[c]) = path[c][1]
    BY SpliceFact DEF SpinTypeOK, Idle
  <2>3. Others(c, d, <<"ready", t>>)
    BY <1>1, <2>1, <2>2 DEF Others
  <2> QED BY <2>3, ContinueFact, SMTT(60)
<1>2. CASE \E i \in 1..Len(steps) : steps[i] = <<"ready", t>>
  BY <1>2, ContinueFact
<1> QED
  BY <1>1, <1>2

\* The locks of the other CPUs are as before.
LEMMA LocksKept ==
  ASSUME SpinTypeOK, LocksBracketed, NEW c \in CPUs, ~Idle(c), NEW steps \in Seq(Steps),
         Continue(c, steps), NEW held, Held(c)' = held,
         \A d \in CPUs \ {c} : Held(d)' = Held(d),
         Bracketed(steps \o Tail(path[c]), held)
  PROVE  LocksBracketed'
<1> SUFFICES ASSUME NEW d \in CPUs
             PROVE  Bracketed(path[d], Held(d))'
  BY DEF LocksBracketed
<1>1. PICK p, h : p = path'[d] /\ h = Held(d)'
  OBVIOUS
<1>2. CASE d = c
  <2>1. p = steps \o Tail(path[c]) /\ h = held
    BY <1>1, <1>2, ContinueFact
  <2>2. Bracketed(p, h)
    BY <2>1
  <2> QED BY <1>1, <2>2
<1>3. CASE d # c
  <2>1. p = path[d] /\ h = Held(d)
    <3>1. path'[d] = path[d] /\ Held(d)' = Held(d)
      BY <1>3, ContinueFact
    <3> QED BY <1>1, <3>1
  <2>2. Bracketed(p, h)
    BY <2>1 DEF LocksBracketed
  <2> QED BY <1>1, <2>2
<1> QED
  BY <1>2, <1>3

-----------------------------------------------------------------------------
(* Calls and interrupts begin.                                               *)

LEMMA StartKeeps ==
  ASSUME SpinIInv, NEW c \in CPUs, NEW t \in Threads \union {NoThread},
         t # NoThread => ~OnCPU(t),
         NEW steps \in Seq(Steps), Bracketed(steps, {}), Start(c, t, steps),
         \A i \in 1..Len(steps) : steps[i][1] \notin {"ready", "awake"} /\ Fits(t, steps[i]),
         \A i, j \in 1..Len(steps) :
           steps[i][1] \in CallKinds /\ steps[j][1] \in CallKinds => i = j
  PROVE  SpinIInv'
<1>1. /\ path \in [CPUs -> Seq(Steps)] /\ runner \in [CPUs -> Threads \union {NoThread}]
      /\ path[c] = <<>>
      /\ path' = [path EXCEPT ![c] = steps] /\ runner' = [runner EXCEPT ![c] = t]
      /\ UNCHANGED <<holder, pc, waitsFor, queued, sleeping, timer, readied>>
  BY DEF SpinIInv, SpinTypeOK, Start, Idle, threadVars
<1>2. /\ path'[c] = steps /\ runner'[c] = t
      /\ \A d \in CPUs \ {c} : path'[d] = path[d] /\ runner'[d] = runner[d]
      /\ path' \in [CPUs -> Seq(Steps)] /\ runner' \in [CPUs -> Threads \union {NoThread}]
  BY <1>1
<1>3. SpinTypeOK'
  BY <1>1, <1>2 DEF SpinIInv, SpinTypeOK
<1>4. LocksBracketed'
  <2> SUFFICES ASSUME NEW d \in CPUs
               PROVE  Bracketed(path[d], Held(d))'
    BY DEF LocksBracketed
  <2>1. PICK p, h : p = path'[d] /\ h = Held(d)
    OBVIOUS
  <2>2. Held(d)' = h
    BY <1>1, <2>1 DEF Held
  <2>3. CASE d = c
    <3>1. PICK g : g[1] = h /\ g[Len(path[c]) + 1] = {}
      BY <2>1, <2>3 DEF SpinIInv, LocksBracketed, Bracketed
    <3>2. Len(path[c]) + 1 = 1
      BY <1>1
    <3>3. h = {}
      BY <3>1, <3>2
    <3> QED BY <1>2, <2>1, <2>2, <2>3, <3>3
  <2>4. CASE d # c
    <3>1. Bracketed(p, h)
      BY <1>2, <2>1, <2>4 DEF SpinIInv, LocksBracketed
    <3> QED BY <2>1, <2>2, <3>1
  <2> QED BY <2>3, <2>4
<1>5. StepsFit'
  <2> SUFFICES ASSUME NEW d \in CPUs, NEW i \in 1..Len(path'[d])
               PROVE  Fits(runner[d], path[d][i])'
    BY DEF StepsFit
  <2>1. PICK s, r : s = path'[d][i] /\ r = runner'[d]
    OBVIOUS
  <2>2. Fits(r, s)
    <3>1. CASE d = c
      BY <1>2, <2>1, <3>1
    <3>2. CASE d # c
      BY <1>2, <2>1, <3>2 DEF SpinIInv, StepsFit
    <3> QED BY <3>1, <3>2
  <2> QED BY <1>1, <2>1, <2>2 DEF Fits
<1>6. OnceEach'
  <2>1. PICK q : q = path'
    OBVIOUS
  <2>2. ASSUME NEW d \in CPUs, NEW e \in CPUs, NEW i \in 1..Len(q[d]), NEW j \in 1..Len(q[e]),
               Same(q[d][i], q[e][j])
        PROVE  d = e /\ i = j
    <3>1. d # c /\ e # c
      BY <1>2, <2>1, <2>2 DEF Same
    <3>2. q[d] = path[d] /\ q[e] = path[e]
      BY <1>2, <2>1, <3>1
    <3>3. Same(path[d][i], path[e][j]) /\ i \in 1..Len(path[d]) /\ j \in 1..Len(path[e])
      BY <2>2, <3>2
    <3> QED BY <3>3 DEF SpinIInv, OnceEach
  <2>3. ASSUME NEW d \in CPUs, NEW i \in 1..Len(q[d]), NEW j \in 1..Len(q[d]),
               q[d][i][1] \in CallKinds, q[d][j][1] \in CallKinds
        PROVE  i = j
    <3>1. CASE d = c
      BY <1>2, <2>1, <2>3, <3>1
    <3>2. CASE d # c
      BY <1>2, <2>1, <2>3, <3>2 DEF SpinIInv, OnceEach
    <3> QED BY <3>1, <3>2
  <2> QED BY <2>1, <2>2, <2>3 DEF OnceEach
<1>7. RunnersDiffer'
  <2>1. \A d \in CPUs : t # NoThread => runner[d] # t
    BY LockAssumption DEF OnCPU
  <2> QED BY <1>1, <1>2, <2>1 DEF SpinIInv, RunnersDiffer
<1>8. ThreadsFit' /\ NoDoubleWake'
  BY <1>1 DEF SpinIInv, ThreadsFit, NoDoubleWake
<1>9. NobodyStranded'
  <2> SUFFICES ASSUME NEW u \in Threads, pc'[u] \in Waiting, readied'[u] = 0, u \notin queued'
               PROVE  \E d \in CPUs : \E i \in 1..Len(path'[d]) : path'[d][i] = <<"ready", u>>
    BY DEF NobodyStranded, Waiting
  <2>1. PICK d \in CPUs : \E i \in 1..Len(path[d]) : path[d][i] = <<"ready", u>>
    BY <1>1 DEF SpinIInv, NobodyStranded, Waiting
  <2>2. d # c
    <3>1. Len(path[c]) = 0
      BY <1>1
    <3> QED BY <2>1, <3>1
  <2> QED BY <1>2, <2>1, <2>2
<1> QED
  BY <1>3, <1>4, <1>5, <1>6, <1>7, <1>8, <1>9 DEF SpinIInv
\* A path under one lock.
LEMMA ShortCallKeeps ==
  ASSUME SpinIInv, NEW c \in CPUs, NEW t \in Threads \union {NoThread},
         t # NoThread => ~OnCPU(t),
         NEW l \in Locks, NEW x \in Steps, NEW p, p = <<Enter(l), x, Leave(l)>>,
         Bracketed(p, {}), Start(c, t, p),
         x[1] \notin {"ready", "awake"}, Fits(t, x)
  PROVE  SpinIInv'
<1>1. /\ Len(p) = 3 /\ p[1] = Enter(l) /\ p[2] = x /\ p[3] = Leave(l)
  OBVIOUS
<1>2. p \in Seq(Steps)
  BY StepsAre, SMTT(60)
<1>3. /\ Fits(t, Enter(l)) /\ Fits(t, Leave(l))
      /\ Enter(l)[1] = "enter" /\ Leave(l)[1] = "leave"
  BY DEF Fits, Enter, Leave, TimeOutStep, CallKinds
<1>4. ASSUME NEW i \in 1..3
      PROVE  /\ p[i][1] \notin {"ready", "awake"} /\ Fits(t, p[i])
             /\ i # 2 => p[i][1] \notin CallKinds
  BY <1>1, <1>3 DEF CallKinds
<1>5. \A i, j \in 1..3 : p[i][1] \in CallKinds /\ p[j][1] \in CallKinds => i = j
  BY <1>4
<1> QED
  BY <1>1, <1>2, <1>4, <1>5, StartKeeps

\* A path under two locks.
LEMMA NestedCallKeeps ==
  ASSUME SpinIInv, NEW c \in CPUs, NEW t \in Threads \union {NoThread},
         t # NoThread => ~OnCPU(t),
         NEW l \in Locks, NEW k \in Locks, NEW x \in Steps,
         NEW p, p = <<Enter(l), Enter(k), x, Leave(k), Leave(l)>>,
         Bracketed(p, {}), Start(c, t, p),
         x[1] \notin {"ready", "awake"}, Fits(t, x)
  PROVE  SpinIInv'
<1>1. /\ Len(p) = 5 /\ p[1] = Enter(l) /\ p[2] = Enter(k) /\ p[3] = x /\ p[4] = Leave(k)
      /\ p[5] = Leave(l)
  OBVIOUS
<1>2. p \in Seq(Steps)
  BY StepsAre, SMTT(60)
<1>3. \A m : /\ Fits(t, Enter(m)) /\ Fits(t, Leave(m))
             /\ Enter(m)[1] = "enter" /\ Leave(m)[1] = "leave"
  BY DEF Fits, Enter, Leave, TimeOutStep, CallKinds
<1>4. ASSUME NEW i \in 1..5
      PROVE  /\ p[i][1] \notin {"ready", "awake"} /\ Fits(t, p[i])
             /\ i # 3 => p[i][1] \notin CallKinds
  BY <1>1, <1>3 DEF CallKinds
<1>5. \A i, j \in 1..5 : p[i][1] \in CallKinds /\ p[j][1] \in CallKinds => i = j
  BY <1>4
<1> QED
  BY <1>1, <1>2, <1>4, <1>5, StartKeeps

LEMMA CallWaitPreserves ==
  ASSUME SpinIInv, NEW c \in CPUs, NEW t \in Threads, CallWait(c, t)
  PROVE  SpinIInv'
<1>1. pc[t] = "run" /\ ~OnCPU(t)
  BY DEF CallWait, MayRun
<1>2. PICK o \in Plain \union Mutexes : \E how \in Hows(o) : Start(c, t, WaitPath(o, t, how))
  BY DEF CallWait
<1>3. PICK how \in Hows(o) : Start(c, t, WaitPath(o, t, how))
  BY <1>2
<1>4. o \in WaitObjects /\ how \in {"infinite", "arm"} /\ (how = "arm" => o \in TimedObjects)
  BY DEF Hows, WaitObjects
<1> DEFINE x == <<"block", t, o, how>>
<1>5. Fits(t, x) /\ x[1] = "block" /\ x \in Steps
  BY <1>1, <1>4, StepsAre DEF Fits, TimeOutStep, CallKinds
<1>6. WaitPath(o, t, how) = <<Enter(o), Enter(t), x, Leave(t), Leave(o)>>
  BY <1>4, ObjectPaths
<1>7. Bracketed(WaitPath(o, t, how), {})
  BY <1>4, ObjectPathsBracketed
<1> HIDE DEF x
<1> QED
  BY <1>1, <1>3, <1>4, <1>5, <1>6, <1>7, LocksAre, NestedCallKeeps

LEMMA CallCondWaitPreserves ==
  ASSUME SpinIInv, NEW c \in CPUs, NEW t \in Threads, CallCondWait(c, t)
  PROVE  SpinIInv'
<1>1. pc[t] = "run" /\ ~OnCPU(t)
  BY DEF CallCondWait, MayRun
<1>2. PICK o \in Conditions, m \in Mutexes :
        \E how \in Hows(o) : Start(c, t, CondWaitPath(o, t, m, how))
  BY DEF CallCondWait
<1>3. PICK how \in Hows(o) : Start(c, t, CondWaitPath(o, t, m, how))
  BY <1>2
<1>4. /\ o \in WaitObjects /\ m \in WaitObjects
      /\ how \in {"infinite", "arm"} /\ (how = "arm" => o \in TimedObjects)
  BY DEF Hows, WaitObjects
<1> DEFINE x == <<"block", t, o, how>>
           y == <<"serve", m>>
           p == CondWaitPath(o, t, m, how)
<1>5. p = <<Enter(o), Enter(t), x, Leave(t), Enter(m), y, Leave(m), Leave(o)>>
  BY <1>4, CondWaitPathIs
<1>6. Bracketed(p, {})
  BY <1>4, CondWaitBracketed
<1>7. x \in Steps /\ y \in Steps /\ \A l \in {o, t, m} : Enter(l) \in Steps /\ Leave(l) \in Steps
  BY <1>4, StepsAre, LocksAre
<1>8. Fits(t, x) /\ Fits(t, y) /\ \A l : Fits(t, Enter(l)) /\ Fits(t, Leave(l))
  BY <1>1, <1>4 DEF Fits, Enter, Leave, TimeOutStep, CallKinds
<1>9. x[1] = "block" /\ y[1] = "serve" /\ \A l : Enter(l)[1] = "enter" /\ Leave(l)[1] = "leave"
  BY DEF Enter, Leave
<1> HIDE DEF x, y, p
<1>10. /\ Len(p) = 8 /\ p[1] = Enter(o) /\ p[2] = Enter(t) /\ p[3] = x /\ p[4] = Leave(t)
       /\ p[5] = Enter(m) /\ p[6] = y /\ p[7] = Leave(m) /\ p[8] = Leave(o)
  BY <1>5
<1>11. p \in Seq(Steps)
  <2>1. Enter(o) \in Steps /\ Enter(t) \in Steps /\ Leave(t) \in Steps /\ Enter(m) \in Steps
        /\ Leave(m) \in Steps /\ Leave(o) \in Steps
    BY <1>7
  <2> QED BY <1>5, <1>7, <2>1
<1>12. ASSUME NEW i \in 1..8
       PROVE  /\ p[i][1] \notin {"ready", "awake"} /\ Fits(t, p[i])
              /\ i # 3 => p[i][1] \notin CallKinds
  <2>1. i \in 1..4 \/ i \in 5..8
    OBVIOUS
  <2>2. CASE i \in 1..4
    BY <1>8, <1>9, <1>10, <2>2 DEF CallKinds
  <2>3. CASE i \in 5..8
    BY <1>8, <1>9, <1>10, <2>3 DEF CallKinds
  <2> QED BY <2>1, <2>2, <2>3
<1>13. \A i, j \in 1..8 : p[i][1] \in CallKinds /\ p[j][1] \in CallKinds => i = j
  BY <1>12
<1>14. Start(c, t, p)
  BY <1>3 DEF p
<1> QED
  BY <1>1, <1>6, <1>10, <1>11, <1>12, <1>13, <1>14, StartKeeps


LEMMA CallWakePreserves ==
  ASSUME SpinIInv, NEW c \in CPUs, NEW t \in Threads, CallWake(c, t)
  PROVE  SpinIInv'
<1>1. ~OnCPU(t)
  BY DEF CallWake, MayRun
<1>2. PICK o \in WaitObjects : Start(c, t, WakePath(o))
  BY DEF CallWake
<1> DEFINE x == <<"serve", o>>
<1>3. Fits(t, x) /\ x[1] = "serve" /\ x \in Steps
  BY StepsAre DEF Fits, TimeOutStep, CallKinds
<1>4. WakePath(o) = <<Enter(o), x, Leave(o)>> /\ Bracketed(WakePath(o), {})
  BY ObjectPaths, ObjectPathsBracketed
<1> HIDE DEF x
<1> QED
  BY <1>1, <1>2, <1>3, <1>4, LocksAre, ShortCallKeeps

LEMMA CallSleepPreserves ==
  ASSUME SpinIInv, NEW c \in CPUs, NEW t \in Threads, CallSleep(c, t)
  PROVE  SpinIInv'
<1>1. pc[t] = "run" /\ ~OnCPU(t) /\ Start(c, t, SleepPath(t))
  BY DEF CallSleep, MayRun
<1> DEFINE x == <<"sleep", t>>
           l == KernelThreadManager
<1>2. Fits(t, x) /\ x[1] = "sleep" /\ x \in Steps
  BY <1>1, StepsAre DEF Fits, TimeOutStep, CallKinds
<1>3. SleepPath(t) = <<Enter(l), Enter(t), x, Leave(t), Leave(l)>> /\ Bracketed(SleepPath(t), {})
  BY ThreadPaths, ThreadPathsBracketed
<1> HIDE DEF x
<1> QED
  BY <1>1, <1>2, <1>3, LocksAre, NestedCallKeeps

LEMMA CallSetTimerPreserves ==
  ASSUME SpinIInv, NEW c \in CPUs, NEW t \in Threads, CallSetTimer(c, t)
  PROVE  SpinIInv'
<1>1. pc[t] = "arm" /\ ~OnCPU(t) /\ Start(c, t, SetTimerPath(t))
  BY DEF CallSetTimer
<1> DEFINE x == <<"arm", t>>
<1>2. Fits(t, x) /\ x[1] = "arm" /\ x \in Steps
  BY <1>1, StepsAre DEF Fits, TimeOutStep, CallKinds
<1>3. SetTimerPath(t) = <<Enter(System), x, Leave(System)>> /\ Bracketed(SetTimerPath(t), {})
  BY ThreadPaths, ThreadPathsBracketed
<1> HIDE DEF x
<1> QED
  BY <1>1, <1>2, <1>3, LocksAre, ShortCallKeeps

LEMMA RunAgainPreserves ==
  ASSUME SpinIInv, NEW c \in CPUs, NEW t \in Threads, RunAgain(c, t)
  PROVE  SpinIInv'
<1>1. /\ pc[t] \in {"infinite", "timed"} /\ readied[t] > 0 /\ ~OnCPU(t)
      /\ Start(c, t, ReadStatusPath(t))
  BY DEF RunAgain
<1> DEFINE x == <<"return", t>>
<1>2. Fits(t, x) /\ x[1] = "return" /\ x \in Steps
  BY <1>1, StepsAre DEF Fits, TimeOutStep, CallKinds
<1>3. ReadStatusPath(t) = <<Enter(t), x, Leave(t)>> /\ Bracketed(ReadStatusPath(t), {})
  BY ThreadPaths, ThreadPathsBracketed
<1> HIDE DEF x
<1> QED
  BY <1>1, <1>2, <1>3, LocksAre, ShortCallKeeps

LEMMA CallCancelTimerPreserves ==
  ASSUME SpinIInv, NEW c \in CPUs, NEW t \in Threads, CallCancelTimer(c, t)
  PROVE  SpinIInv'
<1>1. pc[t] = "cancel" /\ ~OnCPU(t) /\ Start(c, t, CancelTimerPath(t))
  BY DEF CallCancelTimer
<1> DEFINE x == <<"disarm", t>>
<1>2. Fits(t, x) /\ x[1] = "disarm" /\ x \in Steps
  BY <1>1, StepsAre DEF Fits, TimeOutStep, CallKinds
<1>3. CancelTimerPath(t) = <<Enter(System), x, Leave(System)>> /\ Bracketed(CancelTimerPath(t), {})
  BY ThreadPaths, ThreadPathsBracketed
<1> HIDE DEF x
<1> QED
  BY <1>1, <1>2, <1>3, LocksAre, ShortCallKeeps

LEMMA TimerInterruptPreserves ==
  ASSUME SpinIInv, NEW c \in CPUs, TimerInterrupt(c)
  PROVE  SpinIInv'
<1> DEFINE x == <<"fire">>
           y == <<"sleepers">>
           k == KernelThreadManager
<1>1. /\ Fits(NoThread, x) /\ x[1] = "fire" /\ x \in Steps
      /\ Fits(NoThread, y) /\ y[1] = "sleepers" /\ y \in Steps
  BY StepsAre DEF Fits, TimeOutStep, CallKinds
<1>2. /\ TimerPath = <<Enter(System), x, Leave(System)>>
      /\ WakeSleepersPath = <<Enter(System), Enter(k), y, Leave(k), Leave(System)>>
      /\ Bracketed(TimerPath, {}) /\ Bracketed(WakeSleepersPath, {})
  BY InterruptPaths, InterruptPathsBracketed
<1> HIDE DEF x, y
<1>3. CASE Start(c, NoThread, TimerPath)
  BY <1>1, <1>2, <1>3, LocksAre, ShortCallKeeps
<1>4. CASE Start(c, NoThread, WakeSleepersPath)
  BY <1>1, <1>2, <1>4, LocksAre, NestedCallKeeps
<1> QED
  BY <1>3, <1>4 DEF TimerInterrupt
-----------------------------------------------------------------------------
(* The steps.                                                                *)

\* What a CPU with something to do is about to do.
LEMMA HeadFact ==
  ASSUME SpinIInv, NEW c \in CPUs, ~Idle(c)
  PROVE  /\ path[c] \in Seq(Steps) /\ path[c] # <<>>
         /\ Head(path[c]) = path[c][1] /\ Head(path[c]) \in Steps
         /\ Fits(runner[c], Head(path[c]))
         /\ Legal(Head(path[c]), Held(c))
         /\ Bracketed(path[c], Held(c))
         /\ <<>> \in Seq(Steps) /\ Len(<<>>) = 0
<1>1. path[c] \in Seq(Steps) /\ path[c] # <<>>
  BY DEF SpinIInv, SpinTypeOK, Idle
<1>2. /\ Head(path[c]) = path[c][1] /\ 1 \in 1..Len(path[c]) /\ Head(path[c]) \in Steps
      /\ <<>> \in Seq(Steps) /\ Len(<<>>) = 0
  BY <1>1
<1>3. Fits(runner[c], Head(path[c])) /\ Bracketed(path[c], Held(c))
  BY <1>2 DEF SpinIInv, StepsFit, LocksBracketed
<1>4. PICK h : h[1] = Held(c) /\ Annotates(h, path[c])
  BY <1>3 DEF Bracketed
<1>5. Legal(Head(path[c]), Held(c))
  BY <1>2, <1>4 DEF Annotates
<1> QED
  BY <1>1, <1>2, <1>3, <1>5

\* Steps that change nothing about the threads.
LEMMA QuietKeeps ==
  ASSUME SpinIInv, NEW c \in CPUs, ~Idle(c), NEW steps \in Seq(Steps), Continue(c, steps),
         UNCHANGED threadVars, Head(path[c])[1] # "ready",
         \A i \in 1..Len(steps) : /\ steps[i][1] \notin CallKinds \union {"ready", "awake"}
                                  /\ Fits(runner[c], steps[i]),
         holder' \in [Locks -> CPUs \union {NoCPU}], LocksBracketed'
  PROVE  SpinIInv'
<1>1. UNCHANGED <<pc, waitsFor, queued, sleeping, timer, readied>>
  BY DEF threadVars
<1>2. SpinTypeOK /\ StepsFit /\ OnceEach /\ RunnersDiffer /\ NobodyStranded
  BY DEF SpinIInv
<1>3. SpinTypeOK'
  BY <1>1, <1>2, ContinueFact DEF SpinTypeOK
<1>4. StepsFit'
  <2>1. ASSUME NEW d \in CPUs, NEW s \in Steps, Others(c, d, s), runner'[d] = runner[d]
        PROVE  Fits(runner[d], s)'
    <3>1. Fits(runner[d], s)
      BY <1>2, <2>1, OthersFact
    <3> QED BY <1>1, <2>1, <3>1 DEF Fits
  <2>2. ASSUME NEW i \in 1..Len(steps), NEW s \in Steps, s = steps[i], runner'[c] = runner[c]
        PROVE  Fits(runner[c], s)'
    <3>1. Fits(runner[c], s)
      BY <2>2
    <3> QED BY <1>1, <2>2, <3>1 DEF Fits
  <2> QED BY <1>2, <2>1, <2>2, StepsKept
<1>5. OnceEach'
  <2>1. \A i \in 1..Len(steps) : \A s : ~Same(steps[i], s) /\ ~Same(s, steps[i])
    BY DEF Same
  <2> QED BY <1>2, <2>1, OnceKept
<1>6. RunnersDiffer'
  BY <1>2, RunnersKept
<1>7. ThreadsFit' /\ NoDoubleWake'
  BY <1>1 DEF SpinIInv, ThreadsFit, NoDoubleWake
<1>8. NobodyStranded'
  <2>1. \A t : Head(path[c]) # <<"ready", t>>
    OBVIOUS
  <2> QED BY <1>1, <1>2, <2>1, StrandedKept
<1> QED
  BY <1>3, <1>4, <1>5, <1>6, <1>7, <1>8 DEF SpinIInv

LEMMA EnterLockPreserves ==
  ASSUME SpinIInv, NEW c \in CPUs, EnterLock(c)
  PROVE  SpinIInv'
<1> DEFINE s == Head(path[c])
           l == Subject(c)
<1>1. /\ ~Idle(c) /\ s[1] = "enter" /\ s[2] = l /\ holder[l] = NoCPU
      /\ holder' = [holder EXCEPT ![l] = c] /\ Continue(c, <<>>) /\ UNCHANGED threadVars
  BY DEF EnterLock, Does, Subject
<1>2. /\ path[c] \in Seq(Steps) /\ path[c] # <<>> /\ s = path[c][1] /\ s \in Steps
      /\ Bracketed(path[c], Held(c)) /\ <<>> \in Seq(Steps) /\ Len(<<>>) = 0
  BY <1>1, HeadFact
<1>3. l \in Locks
  BY <1>1, <1>2, StepTyped
<1>4. SpinTypeOK /\ holder \in [Locks -> CPUs \union {NoCPU}] /\ NoCPU \notin CPUs
  BY LockAssumption DEF SpinIInv, SpinTypeOK
<1>5. holder' \in [Locks -> CPUs \union {NoCPU}]
  BY <1>1, <1>4
<1>6. Held(c)' = After(s, Held(c)) /\ \A d \in CPUs \ {c} : Held(d)' = Held(d)
  <2> HIDE DEF s, l
  <2> QED BY <1>1, <1>3, <1>4 DEF Held, After
<1>7. Bracketed(<<>> \o Tail(path[c]), After(s, Held(c)))
  BY <1>2, TailBrackets
<1>8. LocksBracketed'
  <2> DEFINE held == After(s, Held(c))
  <2>1. Held(c)' = held /\ Bracketed(<<>> \o Tail(path[c]), held)
    BY <1>6, <1>7
  <2>2. SpinTypeOK /\ LocksBracketed
    BY DEF SpinIInv
  <2> HIDE DEF held, s, l
  <2> QED BY <1>1, <1>2, <1>6, <2>1, <2>2, LocksKept
<1>9. \A i \in 1..Len(<<>>) : FALSE
  BY <1>2
<1> QED
  BY <1>1, <1>2, <1>5, <1>8, <1>9, QuietKeeps

LEMMA LeaveLockPreserves ==
  ASSUME SpinIInv, NEW c \in CPUs, LeaveLock(c)
  PROVE  SpinIInv'
<1> DEFINE s == Head(path[c])
           l == Subject(c)
<1>1. /\ ~Idle(c) /\ s[1] = "leave" /\ s[2] = l
      /\ holder' = [holder EXCEPT ![l] = NoCPU] /\ Continue(c, <<>>) /\ UNCHANGED threadVars
  BY DEF LeaveLock, Does, Subject
<1>2. /\ path[c] \in Seq(Steps) /\ path[c] # <<>> /\ s = path[c][1] /\ s \in Steps
      /\ Legal(s, Held(c)) /\ Bracketed(path[c], Held(c)) /\ <<>> \in Seq(Steps) /\ Len(<<>>) = 0
  BY <1>1, HeadFact
<1>3. l \in Locks /\ holder[l] = c
  BY <1>1, <1>2 DEF Legal, Held
<1>4. SpinTypeOK /\ holder \in [Locks -> CPUs \union {NoCPU}] /\ NoCPU \notin CPUs
  BY LockAssumption DEF SpinIInv, SpinTypeOK
<1>5. holder' \in [Locks -> CPUs \union {NoCPU}]
  BY <1>1, <1>4
<1>6. Held(c)' = After(s, Held(c)) /\ \A d \in CPUs \ {c} : Held(d)' = Held(d)
  <2> HIDE DEF s, l
  <2> QED BY <1>1, <1>3, <1>4 DEF Held, After
<1>7. Bracketed(<<>> \o Tail(path[c]), After(s, Held(c)))
  BY <1>2, TailBrackets
<1>8. LocksBracketed'
  <2> DEFINE held == After(s, Held(c))
  <2>1. Held(c)' = held /\ Bracketed(<<>> \o Tail(path[c]), held)
    BY <1>6, <1>7
  <2>2. SpinTypeOK /\ LocksBracketed
    BY DEF SpinIInv
  <2> HIDE DEF held, s, l
  <2> QED BY <1>1, <1>2, <1>6, <2>1, <2>2, LocksKept
<1>9. \A i \in 1..Len(<<>>) : FALSE
  BY <1>2
<1> QED
  BY <1>1, <1>2, <1>5, <1>8, <1>9, QuietKeeps
\* A step that neither enters nor leaves a lock, with nothing in its place.
LEMMA LoneStep ==
  ASSUME SpinIInv, NEW c \in CPUs, ~Idle(c), Continue(c, <<>>), UNCHANGED holder,
         Head(path[c])[1] \notin {"enter", "leave"}
  PROVE  /\ LocksBracketed' /\ OnceEach' /\ RunnersDiffer'
         /\ path' \in [CPUs -> Seq(Steps)] /\ runner' \in [CPUs -> Threads \union {NoThread}]
         /\ holder' \in [Locks -> CPUs \union {NoCPU}]
<1> DEFINE s == Head(path[c])
<1>1. /\ path[c] \in Seq(Steps) /\ path[c] # <<>> /\ s = path[c][1]
      /\ Bracketed(path[c], Held(c)) /\ <<>> \in Seq(Steps) /\ Len(<<>>) = 0
  BY HeadFact
<1>2. SpinTypeOK /\ LocksBracketed /\ OnceEach /\ RunnersDiffer
  BY DEF SpinIInv
<1>3. \A i \in 1..Len(<<>>) : FALSE
  BY <1>1
<1>4. LocksBracketed'
  <2> DEFINE held == After(s, Held(c))
  <2>1. held = Held(c) /\ \A d \in CPUs : Held(d)' = Held(d)
    BY DEF After, Held
  <2>2. Bracketed(<<>> \o Tail(path[c]), held)
    BY <1>1, TailBrackets
  <2>3. Held(c)' = held
    BY <2>1
  <2> HIDE DEF held, s
  <2> QED BY <1>1, <1>2, <2>1, <2>2, <2>3, LocksKept
<1>5. OnceEach' /\ RunnersDiffer'
  BY <1>1, <1>2, <1>3, OnceKept, RunnersKept
<1>6. /\ path' \in [CPUs -> Seq(Steps)] /\ runner' \in [CPUs -> Threads \union {NoThread}]
  BY <1>1, <1>2, ContinueFact
<1> QED
  BY <1>2, <1>4, <1>5, <1>6 DEF SpinTypeOK

LEMMA StepsKeptAlone ==
  ASSUME SpinIInv, NEW c \in CPUs, ~Idle(c), Continue(c, <<>>),
         \A d \in CPUs, s \in Steps : Others(c, d, s) /\ runner'[d] = runner[d] => Fits(runner[d], s)'
  PROVE  StepsFit'
<1>1. <<>> \in Seq(Steps) /\ \A i \in 1..Len(<<>>) : FALSE
  OBVIOUS
<1> QED
  BY <1>1, StepsKept DEF SpinIInv

LEMMA StrandedKeptAlone ==
  ASSUME SpinIInv, NEW c \in CPUs, ~Idle(c), Continue(c, <<>>),
         \A t \in Threads : pc'[t] \in Waiting /\ readied'[t] = 0 =>
           \/ t \in queued'
           \/ /\ pc[t] \in Waiting /\ readied[t] = 0 /\ t \notin queued
              /\ Head(path[c]) # <<"ready", t>>
  PROVE  NobodyStranded'
<1>1. <<>> \in Seq(Steps) /\ \A i \in 1..Len(<<>>) : FALSE
  OBVIOUS
<1> QED
  BY <1>1, StrandedKept DEF SpinIInv

LEMMA NothingLeftPreserves ==
  ASSUME SpinIInv, NEW c \in CPUs, ServeNobody(c) \/ NothingDue(c)
  PROVE  SpinIInv'
<1>1. /\ ~Idle(c) /\ Head(path[c])[1] \in {"serve", "sleepers", "fire"}
      /\ Continue(c, <<>>) /\ UNCHANGED holder /\ UNCHANGED threadVars
  BY DEF ServeNobody, NothingDue, Does
<1>2. <<>> \in Seq(Steps) /\ \A i \in 1..Len(<<>>) : FALSE
  OBVIOUS
<1> QED
  BY <1>1, <1>2, LoneStep, QuietKeeps

LEMMA BlockPreserves ==
  ASSUME SpinIInv, NEW c \in CPUs, Block(c)
  PROVE  SpinIInv'
<1> DEFINE t == Subject(c)
           how == Head(path[c])[4]
           o == Head(path[c])[3]
<1>1. /\ ~Idle(c) /\ Head(path[c])[1] = "block" /\ Head(path[c])[2] = t
      /\ pc' = [pc EXCEPT ![t] = how] /\ waitsFor' = [waitsFor EXCEPT ![t] = o]
      /\ queued' = queued \union {t} /\ readied' = [readied EXCEPT ![t] = 0]
      /\ Continue(c, <<>>) /\ UNCHANGED <<holder, sleeping, timer>>
  BY DEF Block, Does, Subject
<1>2. Head(path[c]) \in Steps /\ Fits(runner[c], Head(path[c]))
  BY <1>1, HeadFact
<1>3. /\ t \in Threads /\ o \in WaitObjects /\ how \in {"infinite", "arm"}
      /\ (how = "arm" => o \in TimedObjects) /\ pc[t] = "run"
  BY <1>1, <1>2, StepTyped DEF Fits, CallKinds
<1> HIDE DEF t, how, o
<1>4. SpinTypeOK /\ StepsFit /\ OnceEach /\ RunnersDiffer /\ ThreadsFit /\ NoDoubleWake /\ NobodyStranded
  BY DEF SpinIInv
<1>5. SpinTypeOK'
  BY <1>1, <1>3, <1>4, LoneStep DEF SpinTypeOK, Waiting
<1>6. StepsFit'
  <2> SUFFICES ASSUME NEW d \in CPUs, NEW s \in Steps, Others(c, d, s), runner'[d] = runner[d]
               PROVE  Fits(runner[d], s)'
    BY <1>1, StepsKeptAlone
  <2>1. /\ Fits(runner[d], s)
        /\ s[1] \in CallKinds => s[2] # t
    BY <1>1, <1>4, OthersFact DEF CallKinds
  <2>2. s[1] \in {"ready", "awake"} \/ TimeOutStep(s) => s[2] \in Threads /\ s[2] # t
    BY <1>3, <2>1, StepTyped DEF Fits, Waiting, TimeOutStep
  <2> QED BY <1>1, <1>3, <1>4, <2>1, <2>2, StepTyped DEF Fits, SpinTypeOK, CallKinds, TimeOutStep
<1>7. ThreadsFit' /\ NoDoubleWake'
  BY <1>1, <1>3, <1>4 DEF ThreadsFit, NoDoubleWake, SpinTypeOK, Waiting
<1>8. NobodyStranded'
  <2>1. \A u \in Threads : u # t => pc'[u] = pc[u] /\ readied'[u] = readied[u]
    BY <1>1, <1>4 DEF SpinTypeOK
  <2>2. \A u : Head(path[c]) # <<"ready", u>>
    BY <1>1
  <2> QED BY <1>1, <2>1, <2>2, StrandedKeptAlone
<1> QED
  BY <1>1, <1>5, <1>6, <1>7, <1>8, LoneStep DEF SpinIInv
LEMMA ReadyPreserves ==
  ASSUME SpinIInv, NEW c \in CPUs, Ready(c)
  PROVE  SpinIInv'
<1> DEFINE t == Subject(c)
<1>1. /\ ~Idle(c) /\ Head(path[c])[1] = "ready" /\ Head(path[c])[2] = t
      /\ readied' = [readied EXCEPT ![t] = readied[t] + 1]
      /\ Continue(c, <<>>) /\ UNCHANGED <<holder, pc, waitsFor, queued, sleeping, timer>>
  BY DEF Ready, Does, Subject
<1>2. Head(path[c]) \in Steps /\ Fits(runner[c], Head(path[c]))
  BY <1>1, HeadFact
<1>3. /\ t \in Threads /\ Head(path[c]) = <<"ready", t>>
      /\ pc[t] \in Waiting /\ t \notin queued /\ readied[t] = 0
  BY <1>1, <1>2, StepTyped DEF Fits
<1> HIDE DEF t
<1>4. SpinTypeOK /\ StepsFit /\ OnceEach /\ RunnersDiffer /\ ThreadsFit /\ NoDoubleWake /\ NobodyStranded
  BY DEF SpinIInv
<1>5. readied'[t] = 1 /\ \A u \in Threads \ {t} : readied'[u] = readied[u]
  BY <1>1, <1>3, <1>4 DEF SpinTypeOK
<1>6. SpinTypeOK'
  <2>1. readied' \in [Threads -> Nat]
    BY <1>1, <1>3, <1>4 DEF SpinTypeOK
  <2> QED BY <1>1, <1>4, <2>1, LoneStep DEF SpinTypeOK
<1>7. StepsFit'
  <2> SUFFICES ASSUME NEW d \in CPUs, NEW s \in Steps, Others(c, d, s), runner'[d] = runner[d]
               PROVE  Fits(runner[d], s)'
    BY <1>1, StepsKeptAlone
  <2>1. Fits(runner[d], s) /\ ~Same(s, Head(path[c]))
    BY <1>1, <1>4, OthersFact
  <2>2. s[1] = "ready" => s[2] \in Threads \ {t}
    BY <1>3, <2>1, StepTyped DEF Same
  <2>3. s[1] = "return" => s[2] \in Threads /\ readied'[s[2]] > 0
    BY <1>5, <2>1, StepTyped DEF Fits, CallKinds
  <2> QED BY <1>1, <1>5, <2>1, <2>2, <2>3 DEF Fits, TimeOutStep
<1>8. ThreadsFit' /\ NoDoubleWake'
  BY <1>1, <1>3, <1>4, <1>5 DEF ThreadsFit, NoDoubleWake
<1>9. NobodyStranded'
  <2>1. \A u : u # t => Head(path[c]) # <<"ready", u>>
    BY <1>3
  <2> QED BY <1>1, <1>5, <2>1, StrandedKeptAlone
<1> QED
  BY <1>1, <1>4, <1>6, <1>7, <1>8, <1>9, LoneStep DEF SpinIInv

LEMMA AwakePreserves ==
  ASSUME SpinIInv, NEW c \in CPUs, Awake(c)
  PROVE  SpinIInv'
<1> DEFINE t == Subject(c)
<1>1. /\ ~Idle(c) /\ Head(path[c])[1] = "awake" /\ Head(path[c])[2] = t
      /\ pc' = [pc EXCEPT ![t] = "run"]
      /\ Continue(c, <<>>) /\ UNCHANGED <<holder, waitsFor, queued, sleeping, timer, readied>>
  BY DEF Awake, Does, Subject
<1>2. Head(path[c]) \in Steps /\ Fits(runner[c], Head(path[c]))
  BY <1>1, HeadFact
<1>3. /\ t \in Threads /\ Head(path[c]) = <<"awake", t>> /\ pc[t] = "sleep" /\ t \notin sleeping
  BY <1>1, <1>2, StepTyped DEF Fits
<1> HIDE DEF t
<1>4. SpinTypeOK /\ StepsFit /\ OnceEach /\ RunnersDiffer /\ ThreadsFit /\ NoDoubleWake /\ NobodyStranded
  BY DEF SpinIInv
<1>5. pc'[t] = "run" /\ \A u \in Threads \ {t} : pc'[u] = pc[u]
  BY <1>1, <1>3, <1>4 DEF SpinTypeOK
<1>6. SpinTypeOK'
  BY <1>1, <1>3, <1>4, LoneStep DEF SpinTypeOK, Waiting
<1>7. StepsFit'
  <2> SUFFICES ASSUME NEW d \in CPUs, NEW s \in Steps, Others(c, d, s), runner'[d] = runner[d]
               PROVE  Fits(runner[d], s)'
    BY <1>1, StepsKeptAlone
  <2>1. Fits(runner[d], s) /\ ~Same(s, Head(path[c]))
    BY <1>1, <1>4, OthersFact
  <2>2. s[1] = "awake" => s[2] \in Threads \ {t}
    BY <1>3, <2>1, StepTyped DEF Same
  <2>3. s[1] \in CallKinds \union {"ready"} \/ TimeOutStep(s) => s[2] \in Threads \ {t} \/ s[1] = "awake"
    BY <1>3, <2>1, StepTyped DEF Fits, CallKinds, Waiting, TimeOutStep
  <2> QED BY <1>1, <1>5, <2>1, <2>2, <2>3 DEF Fits, TimeOutStep, CallKinds
<1>8. ThreadsFit' /\ NoDoubleWake'
  BY <1>1, <1>3, <1>4, <1>5 DEF ThreadsFit, NoDoubleWake, Waiting
<1>9. NobodyStranded'
  <2>1. \A u : Head(path[c]) # <<"ready", u>>
    BY <1>1
  <2>2. \A u \in Threads : pc'[u] \in Waiting => pc[u] \in Waiting
    BY <1>5 DEF Waiting
  <2> QED BY <1>1, <2>1, <2>2, StrandedKeptAlone
<1> QED
  BY <1>1, <1>4, <1>6, <1>7, <1>8, <1>9, LoneStep DEF SpinIInv

LEMMA SleepInPreserves ==
  ASSUME SpinIInv, NEW c \in CPUs, SleepIn(c)
  PROVE  SpinIInv'
<1> DEFINE t == Subject(c)
<1>1. /\ ~Idle(c) /\ Head(path[c])[1] = "sleep" /\ Head(path[c])[2] = t
      /\ pc' = [pc EXCEPT ![t] = "sleep"] /\ sleeping' = sleeping \union {t}
      /\ Continue(c, <<>>) /\ UNCHANGED <<holder, waitsFor, queued, timer, readied>>
  BY DEF SleepIn, Does, Subject
<1>2. Head(path[c]) \in Steps /\ Fits(runner[c], Head(path[c]))
  BY <1>1, HeadFact
<1>3. t \in Threads /\ pc[t] = "run"
  BY <1>1, <1>2, StepTyped DEF Fits, CallKinds
<1> HIDE DEF t
<1>4. SpinTypeOK /\ StepsFit /\ OnceEach /\ RunnersDiffer /\ ThreadsFit /\ NoDoubleWake /\ NobodyStranded
  BY DEF SpinIInv
<1>5. pc'[t] = "sleep" /\ \A u \in Threads \ {t} : pc'[u] = pc[u]
  BY <1>1, <1>3, <1>4 DEF SpinTypeOK
<1>6. SpinTypeOK'
  BY <1>1, <1>3, <1>4, LoneStep DEF SpinTypeOK
<1>7. StepsFit'
  <2> SUFFICES ASSUME NEW d \in CPUs, NEW s \in Steps, Others(c, d, s), runner'[d] = runner[d]
               PROVE  Fits(runner[d], s)'
    BY <1>1, StepsKeptAlone
  <2>1. Fits(runner[d], s) /\ (s[1] \in CallKinds => s[2] \in Threads \ {t})
    BY <1>1, <1>4, OthersFact, StepTyped DEF CallKinds
  <2>2. s[1] \in {"ready", "awake"} \/ TimeOutStep(s) => s[2] \in Threads \ {t}
    BY <1>3, <2>1, StepTyped DEF Fits, Waiting, TimeOutStep
  <2> QED BY <1>1, <1>5, <2>1, <2>2 DEF Fits, TimeOutStep, CallKinds
<1>8. ThreadsFit' /\ NoDoubleWake'
  BY <1>1, <1>3, <1>4, <1>5 DEF ThreadsFit, NoDoubleWake, Waiting
<1>9. NobodyStranded'
  <2>1. \A u : Head(path[c]) # <<"ready", u>>
    BY <1>1
  <2>2. \A u \in Threads : pc'[u] \in Waiting => pc[u] \in Waiting
    BY <1>5 DEF Waiting
  <2> QED BY <1>1, <2>1, <2>2, StrandedKeptAlone
<1> QED
  BY <1>1, <1>4, <1>6, <1>7, <1>8, <1>9, LoneStep DEF SpinIInv

LEMMA SetTimerPreserves ==
  ASSUME SpinIInv, NEW c \in CPUs, SetTimer(c)
  PROVE  SpinIInv'
<1> DEFINE t == Subject(c)
<1>1. /\ ~Idle(c) /\ Head(path[c])[1] = "arm" /\ Head(path[c])[2] = t
      /\ timer' = [timer EXCEPT ![t] = TRUE] /\ pc' = [pc EXCEPT ![t] = "timed"]
      /\ Continue(c, <<>>) /\ UNCHANGED <<holder, waitsFor, queued, sleeping, readied>>
  BY DEF SetTimer, Does, Subject
<1>2. Head(path[c]) \in Steps /\ Fits(runner[c], Head(path[c]))
  BY <1>1, HeadFact
<1>3. t \in Threads /\ pc[t] = "arm"
  BY <1>1, <1>2, StepTyped DEF Fits, CallKinds
<1> HIDE DEF t
<1>4. SpinTypeOK /\ StepsFit /\ OnceEach /\ RunnersDiffer /\ ThreadsFit /\ NoDoubleWake /\ NobodyStranded
  BY DEF SpinIInv
<1>5. pc'[t] = "timed" /\ \A u \in Threads \ {t} : pc'[u] = pc[u] /\ timer'[u] = timer[u]
  BY <1>1, <1>3, <1>4 DEF SpinTypeOK
<1>6. SpinTypeOK'
  BY <1>1, <1>3, <1>4, LoneStep DEF SpinTypeOK, Waiting
<1>7. StepsFit'
  <2> SUFFICES ASSUME NEW d \in CPUs, NEW s \in Steps, Others(c, d, s), runner'[d] = runner[d]
               PROVE  Fits(runner[d], s)'
    BY <1>1, StepsKeptAlone
  <2>1. Fits(runner[d], s) /\ (s[1] \in CallKinds => s[2] \in Threads \ {t})
    BY <1>1, <1>4, OthersFact, StepTyped DEF CallKinds
  <2>2. s[1] = "awake" \/ TimeOutStep(s) => s[2] \in Threads \ {t}
    BY <1>3, <2>1, StepTyped DEF Fits, Waiting, TimeOutStep
  <2>3. s[1] = "ready" => s[2] \in Threads /\ pc'[s[2]] \in Waiting
    BY <1>5, <2>1, StepTyped DEF Fits, Waiting
  <2> QED BY <1>1, <1>5, <2>1, <2>2, <2>3 DEF Fits, TimeOutStep, CallKinds
<1>8. ThreadsFit' /\ NoDoubleWake'
  BY <1>1, <1>3, <1>4, <1>5 DEF ThreadsFit, NoDoubleWake, Waiting
<1>9. NobodyStranded'
  <2>1. \A u : Head(path[c]) # <<"ready", u>>
    BY <1>1
  <2>2. \A u \in Threads : pc'[u] \in Waiting => pc[u] \in Waiting
    BY <1>3, <1>5 DEF Waiting
  <2> QED BY <1>1, <2>1, <2>2, StrandedKeptAlone
<1> QED
  BY <1>1, <1>4, <1>6, <1>7, <1>8, <1>9, LoneStep DEF SpinIInv

LEMMA ReadStatusPreserves ==
  ASSUME SpinIInv, NEW c \in CPUs, ReadStatus(c)
  PROVE  SpinIInv'
<1> DEFINE t == Subject(c)
           then == IF pc[t] = "timed" THEN "cancel" ELSE "run"
<1>1. /\ ~Idle(c) /\ Head(path[c])[1] = "return" /\ Head(path[c])[2] = t
      /\ pc' = [pc EXCEPT ![t] = then]
      /\ Continue(c, <<>>) /\ UNCHANGED <<holder, waitsFor, queued, sleeping, timer, readied>>
  BY DEF ReadStatus, Does, Subject
<1>2. Head(path[c]) \in Steps /\ Fits(runner[c], Head(path[c]))
  BY <1>1, HeadFact
<1>3. /\ t \in Threads /\ pc[t] \in {"infinite", "timed"} /\ readied[t] > 0
      /\ then \in {"cancel", "run"} /\ (then = "cancel" <=> pc[t] = "timed")
  BY <1>1, <1>2, StepTyped DEF Fits, CallKinds
<1> HIDE DEF t, then
<1>4. SpinTypeOK /\ StepsFit /\ OnceEach /\ RunnersDiffer /\ ThreadsFit /\ NoDoubleWake /\ NobodyStranded
  BY DEF SpinIInv
<1>5. pc'[t] = then /\ \A u \in Threads \ {t} : pc'[u] = pc[u]
  BY <1>1, <1>3, <1>4 DEF SpinTypeOK
<1>6. SpinTypeOK'
  BY <1>1, <1>3, <1>4, LoneStep DEF SpinTypeOK
<1>7. StepsFit'
  <2> SUFFICES ASSUME NEW d \in CPUs, NEW s \in Steps, Others(c, d, s), runner'[d] = runner[d]
               PROVE  Fits(runner[d], s)'
    BY <1>1, StepsKeptAlone
  <2>1. Fits(runner[d], s) /\ (s[1] \in CallKinds => s[2] \in Threads \ {t})
    BY <1>1, <1>4, OthersFact, StepTyped DEF CallKinds
  <2>2. s[1] \in {"ready", "awake"} => s[2] \in Threads \ {t}
    BY <1>3, <2>1, StepTyped DEF Fits
  <2>3. TimeOutStep(s) => s[2] \in Threads /\ pc'[s[2]] \in {"timed", "cancel"}
    BY <1>3, <1>5, <2>1, StepTyped DEF Fits, TimeOutStep
  <2> QED BY <1>1, <1>5, <2>1, <2>2, <2>3 DEF Fits, TimeOutStep, CallKinds
<1>8. ThreadsFit' /\ NoDoubleWake'
  BY <1>1, <1>3, <1>4, <1>5 DEF ThreadsFit, NoDoubleWake, Waiting
<1>9. NobodyStranded'
  <2>1. \A u : Head(path[c]) # <<"ready", u>>
    BY <1>1
  <2>2. \A u \in Threads : pc'[u] \in Waiting => pc[u] \in Waiting
    BY <1>3, <1>5 DEF Waiting
  <2> QED BY <1>1, <2>1, <2>2, StrandedKeptAlone
<1> QED
  BY <1>1, <1>4, <1>6, <1>7, <1>8, <1>9, LoneStep DEF SpinIInv
LEMMA CancelTimerPreserves ==
  ASSUME SpinIInv, NEW c \in CPUs, CancelTimer(c)
  PROVE  SpinIInv'
<1> DEFINE t == Subject(c)
<1>1. /\ ~Idle(c) /\ Head(path[c])[1] = "disarm" /\ Head(path[c])[2] = t
      /\ timer' = [timer EXCEPT ![t] = FALSE] /\ pc' = [pc EXCEPT ![t] = "run"]
      /\ Continue(c, <<>>) /\ UNCHANGED <<holder, waitsFor, queued, sleeping, readied>>
  BY DEF CancelTimer, Does, Subject
<1>2. /\ Head(path[c]) \in Steps /\ Fits(runner[c], Head(path[c]))
      /\ Legal(Head(path[c]), Held(c))
  BY <1>1, HeadFact
<1>3. t \in Threads /\ pc[t] = "cancel" /\ runner[c] = t /\ holder[System] = c
  BY <1>1, <1>2, StepTyped DEF Fits, CallKinds, Legal, Held
<1> HIDE DEF t
<1>4. /\ SpinTypeOK /\ StepsFit /\ OnceEach /\ RunnersDiffer /\ ThreadsFit /\ NoDoubleWake
      /\ NobodyStranded /\ LocksBracketed
  BY DEF SpinIInv
<1>5. pc'[t] = "run" /\ timer'[t] = FALSE
      /\ \A u \in Threads \ {t} : pc'[u] = pc[u] /\ timer'[u] = timer[u]
  BY <1>1, <1>3, <1>4 DEF SpinTypeOK
<1>6. SpinTypeOK'
  BY <1>1, <1>3, <1>4, LoneStep DEF SpinTypeOK
\* A CPU with a time-out to do runs no call and holds the lock System.
<1>7. ASSUME NEW d \in CPUs, NEW s, Others(c, d, s)
      PROVE  ~TimeOutStep(s)
  <2> SUFFICES ASSUME TimeOutStep(s)
               PROVE  FALSE
    OBVIOUS
  <2>1. runner[d] = NoThread
    BY <1>1, <1>4, <1>7, OthersFact DEF Fits
  <2>2. d # c
    BY <1>3, <2>1, LockAssumption
  <2>3. PICK h : h[1] = Held(d) /\ Annotates(h, path[d])
    BY <1>4 DEF LocksBracketed, Bracketed
  <2>4. PICK i \in 1..Len(path[d]) : path[d][i] = s
    BY <1>7 DEF Others
  <2>5. System \in h[1]
    <3>1. \A j \in 1..i : System \in h[j]
      BY <2>3, <2>4 DEF Annotates
    <3> QED BY <3>1
  <2> QED BY <1>3, <2>2, <2>3, <2>5 DEF Held
<1>8. StepsFit'
  <2> SUFFICES ASSUME NEW d \in CPUs, NEW s \in Steps, Others(c, d, s), runner'[d] = runner[d]
               PROVE  Fits(runner[d], s)'
    BY <1>1, StepsKeptAlone
  <2>1. Fits(runner[d], s) /\ (s[1] \in CallKinds => s[2] \in Threads \ {t})
    BY <1>1, <1>4, OthersFact, StepTyped DEF CallKinds
  <2>2. s[1] \in {"ready", "awake"} => s[2] \in Threads \ {t}
    BY <1>3, <2>1, StepTyped DEF Fits, Waiting
  <2>3. ~TimeOutStep(s)
    BY <1>7
  <2> QED BY <1>1, <1>5, <2>1, <2>2, <2>3 DEF Fits, CallKinds
<1>9. ThreadsFit' /\ NoDoubleWake'
  BY <1>1, <1>3, <1>4, <1>5 DEF ThreadsFit, NoDoubleWake, Waiting
<1>10. NobodyStranded'
  <2>1. \A u : Head(path[c]) # <<"ready", u>>
    BY <1>1
  <2>2. \A u \in Threads : pc'[u] \in Waiting => pc[u] \in Waiting
    BY <1>3, <1>5 DEF Waiting
  <2> QED BY <1>1, <2>1, <2>2, StrandedKeptAlone
<1> QED
  BY <1>1, <1>4, <1>6, <1>8, <1>9, <1>10, LoneStep DEF SpinIInv

\* Nobody waits for a condition with a time-out: CondTimeOutCallback would make
\* ready a thread that a signal has taken from the queue.
LEMMA TimeOutPreserves ==
  ASSUME TimedObjects \intersect Conditions = {}, SpinIInv, NEW c \in CPUs, TimeOut(c)
  PROVE  SpinIInv'
<1> DEFINE t == Subject(c)
<1>1. /\ ~Idle(c) /\ Head(path[c])[1] = "timeout" /\ Head(path[c])[2] = t
      /\ IF TimesOut(t)
         THEN queued' = queued \ {t} /\ readied' = [readied EXCEPT ![t] = readied[t] + 1]
         ELSE UNCHANGED <<queued, readied>>
      /\ Continue(c, <<>>) /\ UNCHANGED <<holder, pc, waitsFor, sleeping, timer>>
  BY DEF TimeOut, Does, Subject
<1>2. Head(path[c]) \in Steps /\ Fits(runner[c], Head(path[c]))
  BY <1>1, HeadFact
<1>3. t \in Threads /\ pc[t] \in {"timed", "cancel"}
  BY <1>1, <1>2, StepTyped DEF Fits, TimeOutStep
<1>4. /\ SpinTypeOK /\ StepsFit /\ OnceEach /\ RunnersDiffer /\ ThreadsFit /\ NoDoubleWake
      /\ NobodyStranded
  BY DEF SpinIInv
<1>5. TimesOut(t) <=> t \in queued
  <2>1. waitsFor[t] \notin Conditions
    BY <1>3, <1>4 DEF ThreadsFit
  <2> QED BY <2>1 DEF TimesOut
<1> HIDE DEF t
<1>6. CASE t \notin queued
  <2>1. UNCHANGED threadVars
    BY <1>1, <1>5, <1>6 DEF threadVars
  <2>2. <<>> \in Seq(Steps) /\ \A i \in 1..Len(<<>>) : FALSE
    OBVIOUS
  <2> QED BY <1>1, <2>1, <2>2, LoneStep, QuietKeeps
<1>7. CASE t \in queued
  <2>1. /\ queued' = queued \ {t} /\ readied' = [readied EXCEPT ![t] = readied[t] + 1]
        /\ readied[t] = 0
    BY <1>1, <1>3, <1>4, <1>5, <1>7 DEF ThreadsFit
  <2>2. readied'[t] = 1 /\ \A u \in Threads \ {t} : readied'[u] = readied[u]
    BY <1>3, <1>4, <2>1 DEF SpinTypeOK
  <2>3. SpinTypeOK'
    <3>1. readied' \in [Threads -> Nat] /\ queued' \subseteq Threads
      BY <1>1, <1>3, <1>4, <2>1 DEF SpinTypeOK
    <3> QED BY <1>1, <1>4, <3>1, LoneStep DEF SpinTypeOK
  <2>4. StepsFit'
    <3> SUFFICES ASSUME NEW d \in CPUs, NEW s \in Steps, Others(c, d, s), runner'[d] = runner[d]
                 PROVE  Fits(runner[d], s)'
      BY <1>1, StepsKeptAlone
    <3>1. Fits(runner[d], s)
      BY <1>1, <1>4, OthersFact
    <3>2. s[1] = "ready" => s[2] \in Threads \ {t}
      BY <1>7, <3>1, StepTyped DEF Fits
    <3>3. s[1] = "return" => s[2] \in Threads /\ readied'[s[2]] > 0
      BY <2>2, <3>1, StepTyped DEF Fits, CallKinds
    <3> QED BY <1>1, <2>1, <2>2, <3>1, <3>2, <3>3 DEF Fits, TimeOutStep
  <2>5. ThreadsFit' /\ NoDoubleWake'
    BY <1>1, <1>3, <1>4, <2>1, <2>2 DEF ThreadsFit, NoDoubleWake
  <2>6. NobodyStranded'
    <3>1. \A u : Head(path[c]) # <<"ready", u>>
      BY <1>1
    <3> QED BY <1>1, <2>1, <2>2, <3>1, StrandedKeptAlone
  <2> QED BY <1>1, <1>4, <2>3, <2>4, <2>5, <2>6, LoneStep DEF SpinIInv
<1> QED
  BY <1>6, <1>7
\* A loop goes on after what it has put before itself: what is under one lock
\* more comes first.
LEMMA InsertKeepsOnce ==
  ASSUME SpinIInv, NEW c \in CPUs, ~Idle(c), NEW t \in Threads,
         NEW x \in Steps, x[1] \notin CallKinds,
         NEW steps \in Seq(Steps), Continue(c, steps),
         \/ steps = <<Enter(t), x, Leave(t)>>
         \/ /\ steps = <<Enter(t), x, Leave(t), Head(path[c])>>
            /\ Head(path[c])[1] \in {"serve", "fire", "sleepers"},
         \A d \in CPUs, s \in Steps : Others(c, d, s) => ~Same(s, x)
  PROVE  OnceEach'
<1> DEFINE y == Head(path[c])
           n == Len(steps)
<1>1. \A l : Enter(l)[1] = "enter" /\ Leave(l)[1] = "leave"
  BY DEF Enter, Leave
<1>2. /\ n \in {3, 4} /\ steps[1] = Enter(t) /\ steps[2] = x /\ steps[3] = Leave(t)
      /\ n = 4 => steps[4] = y /\ y[1] \in {"serve", "fire", "sleepers"}
  <2>1. CASE steps = <<Enter(t), x, Leave(t)>>
    BY <2>1
  <2>2. CASE steps = <<Enter(t), x, Leave(t), y>> /\ y[1] \in {"serve", "fire", "sleepers"}
    BY <2>2
  <2> QED BY <2>1, <2>2
<1> HIDE DEF y, n
<1>3. ASSUME NEW i \in 1..n
      PROVE  /\ steps[i][1] \notin CallKinds
             /\ i # 2 => steps[i][1] \notin {"ready", "awake"}
  <2>1. i = 1 \/ i = 2 \/ i = 3 \/ (i = 4 /\ n = 4)
    BY <1>2
  <2> QED BY <1>1, <1>2, <2>1 DEF CallKinds
<1>4. \A i \in 1..n : \A s : Same(s, steps[i]) => i = 2 /\ Same(s, x)
  BY <1>2, <1>3 DEF Same
<1>5. \A i, j \in 1..n : Same(steps[i], steps[j]) => i = j
  BY <1>3 DEF Same
<1>6. \A i \in 1..n : \A d \in CPUs : \A s \in Steps : Others(c, d, s) => ~Same(s, steps[i])
  BY <1>4
<1> QED
  BY <1>3, <1>5, <1>6, OnceKept DEF SpinIInv, n

LEMMA ServeHeaderPreserves ==
  ASSUME SpinIInv, NEW c \in CPUs, ServeHeader(c)
  PROVE  SpinIInv'
<1> DEFINE o == Subject(c)
           y == Head(path[c])
<1>1. PICK t \in Waiters(o) : \E more \in {<<>>, <<y>>} :
          queued' = queued \ {t} /\ Continue(c, ReadyPath(t) \o more)
  BY DEF ServeHeader
<1>2. PICK more \in {<<>>, <<y>>} :
          queued' = queued \ {t} /\ Continue(c, ReadyPath(t) \o more)
  BY <1>1
<1>3. /\ ~Idle(c) /\ y[1] = "serve" /\ y[2] = o
      /\ UNCHANGED <<holder, pc, waitsFor, sleeping, timer, readied>>
  BY DEF ServeHeader, Does, Subject
<1>4. /\ path[c] \in Seq(Steps) /\ path[c] # <<>> /\ y = path[c][1] /\ y \in Steps
      /\ Legal(y, Held(c)) /\ Bracketed(path[c], Held(c))
  BY <1>3, HeadFact
<1>5. /\ SpinTypeOK /\ StepsFit /\ OnceEach /\ RunnersDiffer /\ ThreadsFit /\ NoDoubleWake
      /\ NobodyStranded /\ LocksBracketed
  BY DEF SpinIInv
<1>6. /\ t \in Threads /\ t \in queued /\ pc[t] \in Waiting /\ readied[t] = 0
  BY <1>5 DEF Waiters, SpinTypeOK, ThreadsFit
<1> DEFINE x == <<"ready", t>>
           steps == ReadyPath(t) \o more
<1>7. x \in Steps /\ t \in Locks /\ x[1] = "ready" /\ x[2] = t
  BY <1>6, StepsAre, LocksAre
<1>8. /\ steps \in Seq(Steps)
      /\ steps = <<Enter(t), x, Leave(t)>> \/ steps = <<Enter(t), x, Leave(t), y>>
  BY <1>4, <1>7, UnderAndAgain DEF ReadyPath
<1>9. Bracketed(steps \o Tail(path[c]), Held(c))
  <2>1. After(y, Held(c)) = Held(c) /\ ~TimeOutStep(y)
    BY <1>3 DEF After, TimeOutStep
  <2>2. Held(c) \subseteq WaitObjects
    BY <1>3, <1>4 DEF Legal
  <2>3. t \notin Held(c) /\ \A k \in Held(c) : LockRank(k) < LockRank(t)
    BY <1>6, <2>2, Ranks, LockAssumption DEF WaitObjects
  <2>4. Step(x, Held(c) \union {t}, Held(c) \union {t}) /\ ~TimeOutStep(x)
    BY DEF Step, Legal, After, TimeOutStep
  <2> HIDE DEF x, y
  <2>5. /\ Bracketed((Under(t, <<x>>) \o <<>>) \o Tail(path[c]), Held(c))
        /\ Bracketed((Under(t, <<x>>) \o <<y>>) \o Tail(path[c]), Held(c))
    BY <1>4, <1>7, <2>1, <2>3, <2>4, SpliceUnder
  <2> QED BY <2>5 DEF ReadyPath, x
<1>10. Continue(c, steps)
  BY <1>2
<1>11. \A d \in CPUs, s \in Steps : Others(c, d, s) => ~Same(s, x)
  <2>1. ASSUME NEW d \in CPUs, NEW s \in Steps, Others(c, d, s), Same(s, x)
        PROVE  FALSE
    <3>1. Fits(runner[d], s) /\ s = <<"ready", t>>
      BY <1>3, <1>5, <2>1, OthersFact DEF Same
    <3> QED BY <1>6, <3>1 DEF Fits
  <2> QED BY <2>1
<1> HIDE DEF x, steps, y, o
<1>12. LocksBracketed'
  <2>1. \A d \in CPUs : Held(d)' = Held(d)
    BY <1>3 DEF Held
  <2>2. PICK held : held = Held(c)
    OBVIOUS
  <2>3. Held(c)' = held /\ Bracketed(steps \o Tail(path[c]), held)
    BY <1>9, <2>1, <2>2
  <2> QED BY <1>3, <1>5, <1>8, <1>10, <2>1, <2>3, LocksKept
<1>13. OnceEach' /\ RunnersDiffer'
  <2>1. x[1] \notin CallKinds
    BY <1>7 DEF CallKinds
  <2>2. OnceEach'
    BY <1>3, <1>6, <1>7, <1>8, <1>10, <1>11, <2>1, InsertKeepsOnce DEF y
  <2> QED BY <1>3, <1>5, <1>8, <1>10, <2>2, RunnersKept
<1>14. SpinTypeOK'
  <2>1. queued' \subseteq Threads
    BY <1>2, <1>5 DEF SpinTypeOK
  <2> QED BY <1>3, <1>5, <1>8, <1>10, <2>1, ContinueFact DEF SpinTypeOK
<1>15. StepsFit'
  <2>1. ASSUME NEW d \in CPUs, NEW s \in Steps, Others(c, d, s), runner'[d] = runner[d]
        PROVE  Fits(runner[d], s)'
    <3>1. Fits(runner[d], s)
      BY <1>3, <1>5, <2>1, OthersFact
    <3> QED BY <1>2, <1>3, <2>1, <3>1 DEF Fits
  <2>2. ASSUME NEW i \in 1..Len(steps), NEW s \in Steps, s = steps[i], runner'[c] = runner[c]
        PROVE  Fits(runner[c], s)'
    <3>1. s = Enter(t) \/ s = x \/ s = Leave(t) \/ s = y
      BY <1>8, <2>2
    <3>2. CASE s = x
      BY <1>2, <1>3, <1>6, <1>7, <3>2 DEF Fits, CallKinds, TimeOutStep
    <3>3. CASE s = Enter(t) \/ s = Leave(t) \/ s = y
      BY <1>3, <3>3 DEF Fits, CallKinds, TimeOutStep, Enter, Leave
    <3> QED BY <3>1, <3>2, <3>3
  <2> QED BY <1>3, <1>5, <1>8, <1>10, <2>1, <2>2, StepsKept
<1>16. ThreadsFit' /\ NoDoubleWake'
  BY <1>2, <1>3, <1>5 DEF ThreadsFit, NoDoubleWake
<1>17. NobodyStranded'
  <2>1. Head(path[c])[1] = "serve"
    BY <1>3 DEF y
  <2>2. \A u : Head(path[c]) # <<"ready", u>>
    BY <2>1
  <2>3. \E i \in 1..Len(steps) : steps[i] = <<"ready", t>>
    <3>1. 2 \in 1..Len(steps) /\ steps[2] = x
      BY <1>8
    <3> QED BY <3>1 DEF x
  <2>4. \A u \in Threads : pc'[u] \in Waiting /\ readied'[u] = 0 =>
          \/ u \in queued'
          \/ pc[u] \in Waiting /\ readied[u] = 0 /\ u \notin queued /\ Head(path[c]) # <<"ready", u>>
          \/ \E i \in 1..Len(steps) : steps[i] = <<"ready", u>>
    BY <1>2, <1>3, <2>2, <2>3
  <2> QED BY <1>3, <1>5, <1>8, <1>10, <2>4, StrandedKept
<1> QED
  BY <1>12, <1>13, <1>14, <1>15, <1>16, <1>17 DEF SpinIInv
LEMMA WakeSleeperPreserves ==
  ASSUME SpinIInv, NEW c \in CPUs, WakeSleeper(c)
  PROVE  SpinIInv'
<1> DEFINE y == Head(path[c])
<1>1. PICK t \in sleeping :
          /\ sleeping' = sleeping \ {t}
          /\ Continue(c, Under(t, <<<<"awake", t>>>>) \o <<y>>)
  BY DEF WakeSleeper
<1>2. /\ ~Idle(c) /\ y[1] = "sleepers"
      /\ UNCHANGED <<holder, pc, waitsFor, queued, timer, readied>>
  BY DEF WakeSleeper, Does
<1>3. /\ path[c] \in Seq(Steps) /\ path[c] # <<>> /\ y = path[c][1] /\ y \in Steps
      /\ Legal(y, Held(c)) /\ Bracketed(path[c], Held(c))
  BY <1>2, HeadFact
<1>4. /\ SpinTypeOK /\ StepsFit /\ OnceEach /\ RunnersDiffer /\ ThreadsFit /\ NoDoubleWake
      /\ NobodyStranded /\ LocksBracketed
  BY DEF SpinIInv
<1>5. t \in Threads /\ t \in sleeping /\ pc[t] = "sleep"
  BY <1>4 DEF SpinTypeOK, ThreadsFit
<1> DEFINE x == <<"awake", t>>
           steps == Under(t, <<x>>) \o <<y>>
<1>6. x \in Steps /\ t \in Locks /\ x[1] = "awake" /\ x[2] = t
  BY <1>5, StepsAre, LocksAre
<1>7. steps \in Seq(Steps) /\ steps = <<Enter(t), x, Leave(t), y>>
  BY <1>3, <1>6, UnderAndAgain
<1>8. Bracketed(steps \o Tail(path[c]), Held(c))
  <2>1. After(y, Held(c)) = Held(c) /\ ~TimeOutStep(y)
    BY <1>2 DEF After, TimeOutStep
  <2>2. Held(c) = {System, KernelThreadManager}
    BY <1>2, <1>3 DEF Legal
  <2>3. t \notin Held(c) /\ \A k \in Held(c) : LockRank(k) < LockRank(t)
    BY <1>5, <2>2, Ranks, LockAssumption
  <2>4. Step(x, Held(c) \union {t}, Held(c) \union {t}) /\ ~TimeOutStep(x)
    BY DEF Step, Legal, After, TimeOutStep
  <2> HIDE DEF x, y
  <2> QED BY <1>3, <1>6, <2>1, <2>3, <2>4, SpliceUnder
<1>9. Continue(c, steps)
  BY <1>1
<1>10. \A d \in CPUs, s \in Steps : Others(c, d, s) => ~Same(s, x)
  <2>1. ASSUME NEW d \in CPUs, NEW s \in Steps, Others(c, d, s), Same(s, x)
        PROVE  FALSE
    <3>1. Fits(runner[d], s) /\ s = <<"awake", t>>
      BY <1>2, <1>4, <2>1, OthersFact DEF Same
    <3> QED BY <1>5, <3>1 DEF Fits
  <2> QED BY <2>1
<1> HIDE DEF x, steps, y
<1>11. LocksBracketed'
  <2>1. \A d \in CPUs : Held(d)' = Held(d)
    BY <1>2 DEF Held
  <2>2. PICK held : held = Held(c)
    OBVIOUS
  <2>3. Held(c)' = held /\ Bracketed(steps \o Tail(path[c]), held)
    BY <1>8, <2>1, <2>2
  <2> QED BY <1>2, <1>4, <1>7, <1>9, <2>1, <2>3, LocksKept
<1>12. OnceEach' /\ RunnersDiffer'
  <2>1. x[1] \notin CallKinds
    BY <1>6 DEF CallKinds
  <2>2. OnceEach'
    BY <1>2, <1>5, <1>6, <1>7, <1>9, <1>10, <2>1, InsertKeepsOnce DEF y
  <2> QED BY <1>2, <1>4, <1>7, <1>9, <2>2, RunnersKept
<1>13. SpinTypeOK'
  <2>1. sleeping' \subseteq Threads
    BY <1>1, <1>4 DEF SpinTypeOK
  <2> QED BY <1>2, <1>4, <1>7, <1>9, <2>1, ContinueFact DEF SpinTypeOK
<1>14. StepsFit'
  <2>1. ASSUME NEW d \in CPUs, NEW s \in Steps, Others(c, d, s), runner'[d] = runner[d]
        PROVE  Fits(runner[d], s)'
    <3>1. Fits(runner[d], s)
      BY <1>2, <1>4, <2>1, OthersFact
    <3> QED BY <1>1, <1>2, <2>1, <3>1 DEF Fits
  <2>2. ASSUME NEW i \in 1..Len(steps), NEW s \in Steps, s = steps[i], runner'[c] = runner[c]
        PROVE  Fits(runner[c], s)'
    <3>1. s = Enter(t) \/ s = x \/ s = Leave(t) \/ s = y
      BY <1>7, <2>2
    <3>2. CASE s = x
      BY <1>1, <1>2, <1>5, <1>6, <3>2 DEF Fits, CallKinds, TimeOutStep
    <3>3. CASE s = Enter(t) \/ s = Leave(t) \/ s = y
      BY <1>2, <3>3 DEF Fits, CallKinds, TimeOutStep, Enter, Leave
    <3> QED BY <3>1, <3>2, <3>3
  <2> QED BY <1>2, <1>4, <1>7, <1>9, <2>1, <2>2, StepsKept
<1>15. ThreadsFit' /\ NoDoubleWake'
  BY <1>1, <1>2, <1>4 DEF ThreadsFit, NoDoubleWake
<1>16. NobodyStranded'
  <2>1. Head(path[c])[1] = "sleepers"
    BY <1>2 DEF y
  <2>2. \A u : Head(path[c]) # <<"ready", u>>
    BY <2>1
  <2> QED BY <1>2, <1>4, <1>7, <1>9, <2>2, StrandedKept
<1> QED
  BY <1>11, <1>12, <1>13, <1>14, <1>15, <1>16 DEF SpinIInv

LEMMA FirePreserves ==
  ASSUME SpinIInv, NEW c \in CPUs, Fire(c)
  PROVE  SpinIInv'
<1> DEFINE y == Head(path[c])
<1>1. PICK t \in Threads :
          /\ timer[t] /\ timer' = [timer EXCEPT ![t] = FALSE]
          /\ Continue(c, ExpirePath(t) \o <<y>>)
  BY DEF Fire
<1>2. /\ ~Idle(c) /\ y[1] = "fire"
      /\ UNCHANGED <<holder, pc, waitsFor, queued, sleeping, readied>>
  BY DEF Fire, Does
<1>3. /\ path[c] \in Seq(Steps) /\ path[c] # <<>> /\ y = path[c][1] /\ y \in Steps
      /\ Legal(y, Held(c)) /\ Bracketed(path[c], Held(c)) /\ Fits(runner[c], y)
  BY <1>2, HeadFact
<1>4. /\ SpinTypeOK /\ StepsFit /\ OnceEach /\ RunnersDiffer /\ ThreadsFit /\ NoDoubleWake
      /\ NobodyStranded /\ LocksBracketed
  BY DEF SpinIInv
<1>5. pc[t] \in {"timed", "cancel"} /\ runner[c] = NoThread
  BY <1>1, <1>2, <1>3, <1>4 DEF ThreadsFit, Fits
<1> DEFINE x == <<"expire", t>>
           steps == ExpirePath(t) \o <<y>>
<1>6. x \in Steps /\ t \in Locks /\ x[1] = "expire" /\ x[2] = t
  BY StepsAre, LocksAre
<1>7. steps \in Seq(Steps) /\ steps = <<Enter(t), x, Leave(t), y>>
  BY <1>3, <1>6, UnderAndAgain DEF ExpirePath
<1>8. Bracketed(steps \o Tail(path[c]), Held(c))
  <2>1. After(y, Held(c)) = Held(c) /\ ~TimeOutStep(y)
    BY <1>2 DEF After, TimeOutStep
  <2>2. Held(c) = {System}
    BY <1>2, <1>3 DEF Legal
  <2>3. t \notin Held(c) /\ \A k \in Held(c) : LockRank(k) < LockRank(t)
    BY <2>2, Ranks, LockAssumption
  <2>4. Step(x, Held(c) \union {t}, Held(c) \union {t}) /\ System \in Held(c)
    BY <2>2 DEF Step, Legal, After, TimeOutStep
  <2> HIDE DEF x, y
  <2>5. Bracketed((Under(t, <<x>>) \o <<y>>) \o Tail(path[c]), Held(c))
    BY <1>3, <1>6, <2>1, <2>3, <2>4, SpliceUnder
  <2> QED BY <2>5 DEF ExpirePath, x
<1>9. Continue(c, steps)
  BY <1>1
<1>10. \A s : ~Same(s, x)
  BY DEF Same
<1> HIDE DEF x, steps, y
<1>11. LocksBracketed'
  <2>1. \A d \in CPUs : Held(d)' = Held(d)
    BY <1>2 DEF Held
  <2>2. PICK held : held = Held(c)
    OBVIOUS
  <2>3. Held(c)' = held /\ Bracketed(steps \o Tail(path[c]), held)
    BY <1>8, <2>1, <2>2
  <2> QED BY <1>2, <1>4, <1>7, <1>9, <2>1, <2>3, LocksKept
<1>12. OnceEach' /\ RunnersDiffer'
  <2>1. x[1] \notin CallKinds
    BY <1>6 DEF CallKinds
  <2>2. OnceEach'
    BY <1>2, <1>6, <1>7, <1>9, <1>10, <2>1, InsertKeepsOnce DEF y
  <2> QED BY <1>2, <1>4, <1>7, <1>9, <2>2, RunnersKept
<1>13. SpinTypeOK'
  <2>1. timer' \in [Threads -> BOOLEAN]
    BY <1>1, <1>4 DEF SpinTypeOK
  <2> QED BY <1>2, <1>4, <1>7, <1>9, <2>1, ContinueFact DEF SpinTypeOK
<1>14. StepsFit'
  <2>1. ASSUME NEW d \in CPUs, NEW s \in Steps, Others(c, d, s), runner'[d] = runner[d]
        PROVE  Fits(runner[d], s)'
    <3>1. Fits(runner[d], s)
      BY <1>2, <1>4, <2>1, OthersFact
    <3> QED BY <1>2, <2>1, <3>1 DEF Fits
  <2>2. ASSUME NEW i \in 1..Len(steps), NEW s \in Steps, s = steps[i], runner'[c] = runner[c]
        PROVE  Fits(runner[c], s)'
    <3>1. s = Enter(t) \/ s = x \/ s = Leave(t) \/ s = y
      BY <1>7, <2>2
    <3>2. CASE s = x
      BY <1>2, <1>5, <1>6, <2>2, <3>2 DEF Fits, CallKinds, TimeOutStep
    <3>3. CASE s = Enter(t) \/ s = Leave(t) \/ s = y
      BY <1>2, <1>5, <2>2, <3>3 DEF Fits, CallKinds, TimeOutStep, Enter, Leave
    <3> QED BY <3>1, <3>2, <3>3
  <2> QED BY <1>2, <1>4, <1>7, <1>9, <2>1, <2>2, StepsKept
<1>15. ThreadsFit' /\ NoDoubleWake'
  BY <1>1, <1>2, <1>4, <1>5 DEF ThreadsFit, NoDoubleWake, SpinTypeOK
<1>16. NobodyStranded'
  <2>1. Head(path[c])[1] = "fire"
    BY <1>2 DEF y
  <2>2. \A u : Head(path[c]) # <<"ready", u>>
    BY <2>1
  <2> QED BY <1>2, <1>4, <1>7, <1>9, <2>2, StrandedKept
<1> QED
  BY <1>11, <1>12, <1>13, <1>14, <1>15, <1>16 DEF SpinIInv

LEMMA ExpirePreserves ==
  ASSUME SpinIInv, NEW c \in CPUs, Expire(c)
  PROVE  SpinIInv'
<1> DEFINE t == Subject(c)
           y == Head(path[c])
           o == waitsFor[t]
           x == <<"timeout", t>>
<1>1. /\ ~Idle(c) /\ y[1] = "expire" /\ y[2] = t
      /\ Continue(c, IF StillWaits(t) THEN TimeOutPath(t) ELSE <<>>)
      /\ UNCHANGED holder /\ UNCHANGED threadVars
  BY DEF Expire, Does, Subject
<1>2. /\ path[c] \in Seq(Steps) /\ path[c] # <<>> /\ y = path[c][1] /\ y \in Steps
      /\ Legal(y, Held(c)) /\ Bracketed(path[c], Held(c)) /\ Fits(runner[c], y)
      /\ <<>> \in Seq(Steps) /\ Len(<<>>) = 0
  BY <1>1, HeadFact
<1>3. /\ SpinTypeOK /\ ThreadsFit /\ LocksBracketed
  BY DEF SpinIInv
<1>4. /\ t \in Threads /\ pc[t] \in {"timed", "cancel"} /\ runner[c] = NoThread
      /\ o \in TimedObjects /\ o \in WaitObjects
      /\ Held(c) = {System, t} /\ After(y, Held(c)) = Held(c)
  BY <1>1, <1>2, <1>3, StepTyped, LockAssumption
     DEF Fits, TimeOutStep, Legal, After, ThreadsFit
<1>5. x \in Steps /\ o \in Locks /\ x[1] = "timeout" /\ x[2] = t
  BY <1>4, StepsAre, LocksAre
<1>6. Fits(runner[c], x) /\ \A l : Fits(runner[c], Enter(l)) /\ Fits(runner[c], Leave(l))
  BY <1>4 DEF Fits, TimeOutStep, CallKinds, Enter, Leave
<1>7. \A l : Enter(l)[1] = "enter" /\ Leave(l)[1] = "leave"
  BY DEF Enter, Leave
\* Whatever comes next.
<1>8. ASSUME NEW steps \in Seq(Steps), Continue(c, steps),
             Bracketed(steps \o Tail(path[c]), Held(c)),
             \A i \in 1..Len(steps) : /\ steps[i][1] \notin CallKinds \union {"ready", "awake"}
                                      /\ Fits(runner[c], steps[i])
      PROVE  SpinIInv'
  <2>1. \A d \in CPUs : Held(d)' = Held(d)
    BY <1>1 DEF Held
  <2>2. PICK held : held = Held(c)
    OBVIOUS
  <2>3. Held(c)' = held /\ Bracketed(steps \o Tail(path[c]), held)
    BY <1>8, <2>1, <2>2
  <2> HIDE DEF t, y, o, x
  <2>4. LocksBracketed'
    BY <1>1, <1>3, <1>8, <2>1, <2>3, LocksKept
  <2>5. Head(path[c])[1] = "expire"
    BY <1>1 DEF y
  <2>6. holder' \in [Locks -> CPUs \union {NoCPU}]
    BY <1>1, <1>3 DEF SpinTypeOK
  <2> QED BY <1>1, <1>8, <2>4, <2>5, <2>6, QuietKeeps
<1> HIDE DEF x, y, o, t
<1>9. CASE ~StillWaits(t)
  <2>1. Continue(c, <<>>)
    BY <1>1, <1>9
  <2>2. Bracketed(<<>> \o Tail(path[c]), Held(c))
    BY <1>2, <1>4, TailBrackets
  <2>3. \A i \in 1..Len(<<>>) : FALSE
    BY <1>2
  <2> QED BY <1>2, <1>8, <2>1, <2>2, <2>3
<1>10. CASE StillWaits(t) /\ o \in Plain
  <2> DEFINE steps == <<x>>
  <2>1. Continue(c, steps)
    BY <1>1, <1>10 DEF TimeOutPath, o, x
  <2>2. Step(x, Held(c), Held(c))
    BY <1>4, <1>5 DEF Step, Legal, After, TimeOutStep
  <2>3. Bracketed(steps \o Tail(path[c]), Held(c))
    BY <1>2, <1>4, <1>5, <2>2, SpliceOne
  <2>4. steps \in Seq(Steps) /\ Len(steps) = 1 /\ steps[1] = x
    BY <1>5
  <2> HIDE DEF steps
  <2>5. \A i \in 1..Len(steps) : /\ steps[i][1] \notin CallKinds \union {"ready", "awake"}
                                 /\ Fits(runner[c], steps[i])
    BY <1>5, <1>6, <2>4 DEF CallKinds
  <2> QED BY <1>8, <2>1, <2>3, <2>4, <2>5
<1>11. CASE StillWaits(t) /\ o \notin Plain
  <2> DEFINE steps == Under(o, <<x>>)
  <2>1. Continue(c, steps)
    BY <1>1, <1>11 DEF TimeOutPath, LockedTimeOut, o, x
  <2>2. Step(x, Held(c) \union {o}, Held(c) \union {o}) /\ System \in Held(c)
    BY <1>4, <1>5 DEF Step, Legal, After, TimeOutStep
  <2>3. o \notin Held(c) /\ ~(TimedObjects \subseteq Plain)
    BY <1>4, <1>11, LockAssumption
  <2>4. Bracketed((Under(o, <<x>>) \o <<>>) \o Tail(path[c]), Held(c))
    BY <1>2, <1>4, <1>5, <2>2, <2>3, SpliceUnder
  <2>5. /\ steps \in Seq(Steps) /\ steps = <<Enter(o), x, Leave(o)>> /\ Len(steps) = 3
        /\ steps[1] = Enter(o) /\ steps[2] = x /\ steps[3] = Leave(o)
    BY <1>5, UnderOne
  <2>6. Bracketed(steps \o Tail(path[c]), Held(c))
    <3>1. Under(o, <<x>>) \o <<>> = <<Enter(o), x, Leave(o)>>
      BY <1>2, <1>5, UnderAndAgain
    <3>2. Under(o, <<x>>) \o <<>> = steps
      BY <2>5, <3>1
    <3> QED BY <2>4, <3>2
  <2> HIDE DEF steps
  <2>7. \A i \in 1..Len(steps) : /\ steps[i][1] \notin CallKinds \union {"ready", "awake"}
                                 /\ Fits(runner[c], steps[i])
    BY <1>5, <1>6, <1>7, <2>5 DEF CallKinds
  <2> QED BY <1>8, <2>1, <2>5, <2>6, <2>7
<1> QED
  BY <1>9, <1>10, <1>11
-----------------------------------------------------------------------------
(* The theorems.                                                             *)

LEMMA InitSpinIInv == SpinInit => SpinIInv
<1> SUFFICES ASSUME SpinInit
             PROVE  SpinIInv
  OBVIOUS
<1>1. SpinTypeOK
  BY DEF SpinInit, SpinTypeOK
<1>2. \A c \in CPUs : path[c] = <<>> /\ Len(path[c]) = 0 /\ Held(c) = {}
  BY LockAssumption DEF SpinInit, Held
<1>3. LocksBracketed
  <2> SUFFICES ASSUME NEW c \in CPUs
               PROVE  Bracketed(path[c], Held(c))
    BY DEF LocksBracketed
  <2>1. PICK h : h = [i \in {1} |-> {}]
    OBVIOUS
  <2>2. h[1] = {}
    BY <2>1
  <2>3. Annotates(h, path[c])
    BY <1>2 DEF Annotates
  <2>4. Len(path[c]) + 1 = 1 /\ Held(c) = {}
    BY <1>2
  <2>5. h[1] = Held(c) /\ h[Len(path[c]) + 1] = {}
    BY <2>2, <2>4
  <2> QED BY <2>3, <2>5 DEF Bracketed
<1>4. StepsFit /\ OnceEach /\ RunnersDiffer
  BY <1>2 DEF StepsFit, OnceEach, RunnersDiffer, SpinInit
<1>5. ThreadsFit /\ NoDoubleWake /\ NobodyStranded
  BY DEF ThreadsFit, NoDoubleWake, NobodyStranded, SpinInit, Waiting
<1> QED
  BY <1>1, <1>3, <1>4, <1>5 DEF SpinIInv

LEMMA SpinStutters ==
  ASSUME SpinIInv, UNCHANGED spinVars
  PROVE  SpinIInv'
<1>1. UNCHANGED <<holder, path, runner, pc, waitsFor, queued, sleeping, timer, readied>>
  BY DEF spinVars, lockVars, threadVars
<1>2. SpinTypeOK' /\ StepsFit' /\ OnceEach' /\ RunnersDiffer' /\ ThreadsFit'
  BY <1>1 DEF SpinIInv, SpinTypeOK, StepsFit, Fits, OnceEach, RunnersDiffer, ThreadsFit
<1>3. LocksBracketed' /\ NoDoubleWake' /\ NobodyStranded'
  BY <1>1 DEF SpinIInv, LocksBracketed, Held, NoDoubleWake, NobodyStranded
<1> QED
  BY <1>2, <1>3 DEF SpinIInv

LEMMA SpinNextPreserves ==
  ASSUME TimedObjects \intersect Conditions = {}
  PROVE  SpinIInv /\ [SpinNext]_spinVars => SpinIInv'
<1> SUFFICES ASSUME SpinIInv, [SpinNext]_spinVars
             PROVE  SpinIInv'
  OBVIOUS
<1>1. ASSUME NEW c \in CPUs, NEW t \in Threads,
             \/ CallWait(c, t) \/ CallCondWait(c, t) \/ CallWake(c, t) \/ CallSleep(c, t)
             \/ CallSetTimer(c, t) \/ RunAgain(c, t) \/ CallCancelTimer(c, t)
      PROVE  SpinIInv'
  BY <1>1, CallWaitPreserves, CallCondWaitPreserves, CallWakePreserves, CallSleepPreserves,
     CallSetTimerPreserves, RunAgainPreserves, CallCancelTimerPreserves
<1>2. ASSUME NEW c \in CPUs,
             \/ TimerInterrupt(c) \/ EnterLock(c) \/ LeaveLock(c)
             \/ Block(c) \/ ServeHeader(c) \/ ServeNobody(c) \/ Ready(c)
             \/ WakeSleeper(c) \/ Awake(c) \/ NothingDue(c) \/ SleepIn(c)
      PROVE  SpinIInv'
  BY <1>2, TimerInterruptPreserves, EnterLockPreserves, LeaveLockPreserves, BlockPreserves,
     ServeHeaderPreserves, NothingLeftPreserves, ReadyPreserves, WakeSleeperPreserves,
     AwakePreserves, SleepInPreserves
<1>3. ASSUME NEW c \in CPUs,
             \/ Fire(c) \/ Expire(c) \/ TimeOut(c)
             \/ SetTimer(c) \/ ReadStatus(c) \/ CancelTimer(c)
      PROVE  SpinIInv'
  BY <1>3, FirePreserves, ExpirePreserves, TimeOutPreserves, SetTimerPreserves,
     ReadStatusPreserves, CancelTimerPreserves
<1>4. CASE SpinNext
  BY <1>1, <1>2, <1>3, <1>4 DEF SpinNext
<1> QED
  BY <1>4, SpinStutters

\* With no time-out on a condition, the invariant holds in every state.
THEOREM SpinInvariance ==
  ASSUME TimedObjects \intersect Conditions = {}
  PROVE  SpinSpec => []SpinIInv
<1>1. SpinIInv /\ [SpinNext]_spinVars => SpinIInv'
  BY SpinNextPreserves
<1> QED
  BY <1>1, InitSpinIInv, PTL DEF SpinSpec

\* A time-out and a wake-up of the same thread, on any number of CPUs, make it
\* ready once: the time-outs of events, semaphores, mailboxes and mutexes look
\* whether they still find it in the queue.
THEOREM ReadiedOnce ==
  ASSUME TimedObjects \intersect Conditions = {}
  PROVE  SpinSpec => []NoDoubleWake
<1>1. SpinIInv => NoDoubleWake
  BY DEF SpinIInv
<1> QED
  BY <1>1, SpinInvariance, PTL

\* A blocked thread is queued or somebody is on the way to make it ready.
THEOREM NobodyIsStranded ==
  ASSUME TimedObjects \intersect Conditions = {}
  PROVE  SpinSpec => []NobodyStranded
<1>1. SpinIInv => NobodyStranded
  BY DEF SpinIInv
<1> QED
  BY <1>1, SpinInvariance, PTL

\* A CPU that spins wants a lock above all it holds.
LEMMA WantsAbove ==
  ASSUME TimedObjects \subseteq Plain, SpinIInv, NEW c \in CPUs, Does(c, "enter")
  PROVE  /\ Subject(c) \in Locks
         /\ \A l \in Locks : holder[l] = c => LockRank(l) < LockRank(Subject(c))
<1>1. /\ Head(path[c]) \in Steps /\ Legal(Head(path[c]), Held(c))
      /\ Head(path[c])[1] = "enter" /\ Head(path[c])[2] = Subject(c)
  BY HeadFact DEF Does, Subject
<1> QED
  BY <1>1, StepTyped DEF Legal, Held

\* Without time-outs on mutexes and conditions no CPUs spin for each other, on
\* any number of CPUs: locks are entered in the order System,
\* KernelThreadManager, condition, other object, thread.
THEOREM NoSpinDeadlock ==
  ASSUME TimedObjects \subseteq Plain
  PROVE  SpinSpec => []NoCircularWait
<1>1. TimedObjects \intersect Conditions = {}
  BY LockAssumption
<1>2. SpinSpec => []SpinIInv
  BY <1>1, SpinInvariance
<1>3. SpinIInv => NoCircularWait
  <2> SUFFICES ASSUME SpinIInv, NEW group \in SUBSET CPUs, group # {},
                      \A c \in group : Does(c, "enter") /\ holder[Subject(c)] \in group
               PROVE  FALSE
    BY DEF NoCircularWait
  <2> DEFINE Rank(c) == LockRank(Subject(c))
  <2>1. \A c \in group : Rank(c) \in 0..4
    BY WantsAbove, Ranks
  <2>2. ASSUME NEW c \in group
        PROVE  \E d \in group : Rank(d) > Rank(c)
    <3>1. Subject(c) \in Locks /\ holder[Subject(c)] \in group
      BY WantsAbove
    <3>2. Rank(c) < Rank(holder[Subject(c)])
      BY <3>1, WantsAbove
    <3> QED BY <2>1, <3>1, <3>2
  <2> HIDE DEF Rank
  <2>3. PICK c0 \in group : TRUE
    OBVIOUS
  <2>4. PICK c1 \in group : Rank(c1) > Rank(c0)
    BY <2>2
  <2>5. PICK c2 \in group : Rank(c2) > Rank(c1)
    BY <2>2
  <2>6. PICK c3 \in group : Rank(c3) > Rank(c2)
    BY <2>2
  <2>7. PICK c4 \in group : Rank(c4) > Rank(c3)
    BY <2>2
  <2>8. PICK c5 \in group : Rank(c5) > Rank(c4)
    BY <2>2
  <2> QED BY <2>1, <2>4, <2>5, <2>6, <2>7, <2>8
<1> QED
  BY <1>2, <1>3, PTL

(***************************************************************************)
(*                               The memory                                *)
(***************************************************************************)

(* The inductive invariant.                                                 *)

FreeBlock == [size : Nat, next : Nat, prev : Nat]
FreeList(f) ==
  /\ IsFiniteSet(DOMAIN f) /\ DOMAIN f \subseteq Nat \ {NULL}
  /\ f \in [DOMAIN f -> FreeBlock]

\* n is the least member of D above a, NULL if there is none; p the largest
\* one below a.
IsNext(D, a, n) ==
  IF n = NULL THEN \A b \in D : ~(a < b)
  ELSE n \in D /\ a < n /\ \A b \in D : ~(a < b /\ b < n)
IsPrev(D, a, p) ==
  IF p = NULL THEN \A b \in D : ~(b < a)
  ELSE p \in D /\ p < a /\ \A b \in D : ~(p < b /\ b < a)

\* Both pointers of every free block are its neighbours by address.
LinkedByAddress(f) ==
  \A a \in DOMAIN f :
    IsNext(DOMAIN f, a, f[a].next) /\ IsPrev(DOMAIN f, a, f[a].prev)

\* Two blocks do not overlap; they may touch.
Beside(a, s, b, t) == a + s + Header <= b \/ b + t + Header <= a
Apart(f) == \A a, b \in DOMAIN f : a # b => Beside(a, f[a].size, b, f[b].size)
Clear(f, b, s) == \A a \in DOMAIN f : Beside(a, f[a].size, b, s)

Touch(f, a, b) == a + f[a].size + Header = b
Coalesced(f) == Apart(f) /\ \A a, b \in DOMAIN f : ~Touch(f, a, b)

InFree(f, x) == \E a \in DOMAIN f : a <= x /\ x < a + f[a].size + Header
InUsed(u, x) == \E a \in DOMAIN u : a <= x /\ x < a + u[a] + Header
InRegion(i, x) ==
  /\ i = 1 \/ Regions[i].size >= Header + MinBuffer
  /\ Regions[i].start <= x /\ x < Regions[i].start + Regions[i].size

\* The bytes behind the headers of the free blocks.
FreeBytes(f) == UNION {Payload(a, f[a].size) : a \in DOMAIN f}

BufferTypeOK ==
  /\ lpFreeBufferHeader \in Nat
  /\ FreeList(free)
  /\ DOMAIN used \subseteq Nat \ {NULL} /\ used \in [DOMAIN used -> Nat]
  /\ dwFreeSize \in Nat /\ dwFreeBlocks \in Nat
  /\ appended \in 1..Len(Regions)

ListInOrder ==
  /\ LinkedByAddress(free)
  /\ IsNext(DOMAIN free, NULL, lpFreeBufferHeader)

BlocksApart ==
  /\ Coalesced(free)
  /\ \A a, b \in DOMAIN used : a # b => Beside(a, used[a], b, used[b])
  /\ \A b \in DOMAIN used : Clear(free, b, used[b])

RegionsCovered ==
  \A x \in Nat :
    InFree(free, x) \/ InUsed(used, x) <=> \E i \in 1..appended : InRegion(i, x)

CountsExact ==
  /\ dwFreeBlocks = Cardinality(DOMAIN free)
  /\ IsFiniteSet(FreeBytes(free))
  /\ dwFreeSize = Cardinality(FreeBytes(free))

PoolTypeOK ==
  /\ dwOccupMap \in [Pools -> SUBSET Pages]
  /\ dwMaxBlockSize \in [Pools -> 0..PoolPages]
  /\ lent \subseteq [pool : Pools, start : Pages, num : 1..PoolPages]
  /\ \A r \in lent : r.start + r.num <= PoolPages

PoolsMatch ==
  \A i \in Pools :
    /\ \A x \in Pages :
         x \in dwOccupMap[i] <=> \E r \in lent : r.pool = i /\ x \in Run(r.start, r.num)
    /\ \A r, q \in lent :
         r.pool = i /\ q.pool = i /\ r # q =>
           Run(r.start, r.num) \intersect Run(q.start, q.num) = {}
    /\ dwMaxBlockSize[i] = LongestFreeRun(dwOccupMap[i])

BufferIInv == BufferTypeOK /\ ListInOrder /\ BlocksApart /\ RegionsCovered /\ CountsExact
PoolIInv   == PoolTypeOK /\ PoolsMatch
MemIInv    == BufferIInv /\ PoolIInv

-----------------------------------------------------------------------------
(* The page pools.                                                          *)

LEMMA PagesAre ==
  ASSUME MemoryAssumption
  PROVE  /\ PoolNum \in Nat \ {0} /\ PoolPages \in Nat \ {0} /\ Header \in Nat \ {0}
         /\ MinBuffer \in Nat \ {0} /\ Sizes \subseteq Nat
         /\ \A x : x \in Pages <=> x \in Nat /\ x < PoolPages
         /\ \A i : i \in Pools <=> i \in Nat /\ 1 <= i /\ i <= PoolNum
  BY DEF MemoryAssumption, Pages, Pools

LEMMA MinIs ==
  ASSUME NEW I, I \subseteq Nat, I # {}
  PROVE  Min(I) \in I /\ \A n \in I : Min(I) <= n
<1>1. \E m \in I : \A n \in I : m <= n
  BY LeastNatural
<1> QED
  BY <1>1 DEF Min

LEMMA MaxIs ==
  ASSUME NEW n \in Nat, NEW I, I \subseteq 0..n, I # {}
  PROVE  Max(I) \in I /\ \A k \in I : k <= Max(I)
<1> DEFINE below == {n - k : k \in I}
<1>1. below \subseteq Nat /\ below # {}
  <2>1. \A k \in I : n - k \in Nat
    OBVIOUS
  <2> QED BY <2>1
<1>2. PICK m \in below : \A j \in below : m <= j
  BY <1>1, LeastNatural
<1>3. PICK k \in I : m = n - k
  BY <1>2
<1>4. \A j \in I : n - k <= n - j
  BY <1>2, <1>3
<1>5. \A j \in I : k >= j
  BY <1>3, <1>4
<1>6. Max(I) \in I /\ \A j \in I : Max(I) >= j
  BY <1>3, <1>5 DEF Max
<1> QED
  BY <1>6

\* A pool always has a longest free run, perhaps of no page.
LEMMA LongestFreeRunIs ==
  ASSUME MemoryAssumption, NEW map
  PROVE  /\ LongestFreeRun(map) \in 0..PoolPages
         /\ \E s \in 0..PoolPages - LongestFreeRun(map) :
              Run(s, LongestFreeRun(map)) \intersect map = {}
<1> DEFINE lengths == {n \in 0..PoolPages :
                         \E s \in 0..PoolPages - n : Run(s, n) \intersect map = {}}
<1>1. 0 \in lengths
  <2>1. Run(0, 0) = {} /\ 0 \in 0..PoolPages - 0 /\ 0 \in 0..PoolPages
    BY PagesAre DEF Run
  <2> QED BY <2>1
<1>2. Max(lengths) \in lengths
  <2>1. lengths \subseteq 0..PoolPages /\ lengths # {} /\ PoolPages \in Nat
    BY <1>1, PagesAre
  <2> HIDE DEF lengths
  <2> QED BY <2>1, MaxIs
<1>3. LongestFreeRun(map) = Max(lengths)
  BY DEF LongestFreeRun
<1> HIDE DEF lengths
<1>4. LongestFreeRun(map) \in lengths
  BY <1>2, <1>3
<1> QED
  BY <1>4 DEF lengths

\* The first run that Find0String finds lies inside the pool, if the longest
\* free run admits the request.
LEMMA Find0StringFits ==
  ASSUME MemoryAssumption, NEW map, NEW num \in 1..PoolPages, num <= LongestFreeRun(map)
  PROVE  /\ Find0String(num, map) \in Nat
         /\ Find0String(num, map) + num <= PoolPages
         /\ Run(Find0String(num, map), num) \intersect map = {}
<1> DEFINE max == LongestFreeRun(map)
           starts == {s \in 0..PoolPages : Run(s, num) \intersect map = {}}
<1>1. PICK s \in 0..PoolPages - max : Run(s, max) \intersect map = {}
  BY LongestFreeRunIs
<1>2. max \in 0..PoolPages
  BY LongestFreeRunIs
<1> HIDE DEF max
<1>3. s \in starts /\ s + num <= PoolPages
  <2>1. s \in 0..PoolPages /\ s + num <= PoolPages
    BY <1>1, <1>2, PagesAre DEF max
  <2>2. \A x \in Run(s, num) : x \in Run(s, max)
    BY <1>1, <1>2, PagesAre DEF max, Run
  <2> QED BY <1>1, <2>1, <2>2
<1>4. Min(starts) \in starts /\ Min(starts) <= s
  <2>1. starts \subseteq Nat
    OBVIOUS
  <2> HIDE DEF starts
  <2> QED BY <1>3, <2>1, MinIs
<1>5. Find0String(num, map) = Min(starts)
  BY DEF Find0String
<1> HIDE DEF starts
<1>6. Find0String(num, map) \in starts /\ Find0String(num, map) <= s
  BY <1>4, <1>5
<1> QED
  BY <1>1, <1>3, <1>6, PagesAre DEF starts

LEMMA RunInside ==
  ASSUME MemoryAssumption, NEW start \in Nat, NEW num \in 1..PoolPages,
         start + num <= PoolPages
  PROVE  Run(start, num) \subseteq Pages /\ start \in Pages
<1>1. PoolPages \in Nat /\ num \in Nat /\ num >= 1
  BY PagesAre
<1>2. ASSUME NEW x \in Run(start, num)
      PROVE  x \in Pages
  <2>1. x \in start..start + num - 1
    BY DEF Run
  <2>2. x \in 0..PoolPages - 1
    BY <1>1, <2>1
  <2> QED BY <2>2 DEF Pages
<1>3. start \in Pages
  BY <1>1 DEF Pages
<1> QED
  BY <1>2, <1>3

LEMMA AllocatePagesPreserves ==
  ASSUME MemoryAssumption, PoolIInv, NEW num \in 1..PoolPages, _4kAllocate(num)
  PROVE  PoolIInv'
<1> DEFINE i     == Min({j \in Pools : dwMaxBlockSize[j] >= num})
           start == Find0String(num, dwOccupMap[i])
           map   == dwOccupMap[i] \union Run(start, num)
           run   == [pool |-> i, start |-> start, num |-> num]
<1>1. /\ dwOccupMap' = [dwOccupMap EXCEPT ![i] = map]
      /\ dwMaxBlockSize' = [dwMaxBlockSize EXCEPT ![i] = LongestFreeRun(map)]
      /\ lent' = lent \union {run}
  BY DEF _4kAllocate, MaxAfterAllocate
<1>2. i \in Pools /\ num <= dwMaxBlockSize[i]
  <2> DEFINE fit == {j \in Pools : dwMaxBlockSize[j] >= num}
  <2>1. fit # {} /\ fit \subseteq Nat
    BY PagesAre DEF _4kAllocate
  <2>2. Min(fit) \in fit
    <3> HIDE DEF fit
    <3> QED BY <2>1, MinIs
  <2>3. \A j \in Pools : dwMaxBlockSize[j] \in Nat
    BY PagesAre DEF PoolIInv, PoolTypeOK
  <2> QED BY <2>2, <2>3, PagesAre
<1> HIDE DEF i
<1>3. /\ start \in Nat /\ start + num <= PoolPages
      /\ Run(start, num) \intersect dwOccupMap[i] = {}
  <2>1. dwMaxBlockSize[i] = LongestFreeRun(dwOccupMap[i])
    BY <1>2 DEF PoolIInv, PoolsMatch
  <2> QED BY <1>2, <2>1, Find0StringFits
<1> HIDE DEF start
<1>4. Run(start, num) \subseteq Pages /\ start \in Pages
  BY <1>3, RunInside
<1>5. run \in [pool : Pools, start : Pages, num : 1..PoolPages]
      /\ run.pool = i /\ run.start = start /\ run.num = num
  BY <1>2, <1>4
<1> HIDE DEF run
<1>6. LongestFreeRun(map) \in 0..PoolPages
  BY LongestFreeRunIs
<1>7. PoolTypeOK'
  <2>1. map \subseteq Pages
    BY <1>2, <1>4 DEF PoolIInv, PoolTypeOK
  <2> HIDE DEF map
  <2>2. dwOccupMap' \in [Pools -> SUBSET Pages] /\ dwMaxBlockSize' \in [Pools -> 0..PoolPages]
    BY <1>1, <1>6, <2>1 DEF PoolIInv, PoolTypeOK
  <2>3. /\ lent' \subseteq [pool : Pools, start : Pages, num : 1..PoolPages]
        /\ \A r \in lent' : r.start + r.num <= PoolPages
    BY <1>1, <1>3, <1>5 DEF PoolIInv, PoolTypeOK
  <2> QED BY <2>2, <2>3 DEF PoolTypeOK
<1>8. PoolsMatch'
  <2> SUFFICES ASSUME NEW j \in Pools
               PROVE  /\ \A x \in Pages : x \in dwOccupMap'[j] <=>
                           \E r \in lent' : r.pool = j /\ x \in Run(r.start, r.num)
                      /\ \A r, q \in lent' : r.pool = j /\ q.pool = j /\ r # q =>
                           Run(r.start, r.num) \intersect Run(q.start, q.num) = {}
                      /\ dwMaxBlockSize'[j] = LongestFreeRun(dwOccupMap'[j])
    BY DEF PoolsMatch
  <2>1. /\ dwOccupMap'[j] = IF j = i THEN map ELSE dwOccupMap[j]
        /\ dwMaxBlockSize'[j] = IF j = i THEN LongestFreeRun(map) ELSE dwMaxBlockSize[j]
    <3> HIDE DEF map
    <3> QED BY <1>1 DEF PoolIInv, PoolTypeOK
  <2>2. /\ \A x \in Pages : x \in dwOccupMap[j] <=>
             \E r \in lent : r.pool = j /\ x \in Run(r.start, r.num)
        /\ \A r, q \in lent : r.pool = j /\ q.pool = j /\ r # q =>
             Run(r.start, r.num) \intersect Run(q.start, q.num) = {}
        /\ dwMaxBlockSize[j] = LongestFreeRun(dwOccupMap[j])
    BY DEF PoolIInv, PoolsMatch
  <2>3. ASSUME NEW r \in lent, r.pool = i
        PROVE  Run(r.start, r.num) \subseteq dwOccupMap[i]
    <3>1. /\ r.start \in Pages /\ r.num \in 1..PoolPages
          /\ r.start + r.num <= PoolPages
      BY DEF PoolIInv, PoolTypeOK
    <3>2. Run(r.start, r.num) \subseteq Pages
      <4>1. r.start \in Nat
        BY <3>1, PagesAre
      <4> QED BY <3>1, <4>1, RunInside
    <3> QED BY <1>2, <2>3, <3>2 DEF PoolIInv, PoolsMatch
  <2>4. ASSUME NEW x \in Pages
        PROVE  x \in dwOccupMap'[j] <=> \E r \in lent' : r.pool = j /\ x \in Run(r.start, r.num)
    <3>1. x \in dwOccupMap[j] <=> \E r \in lent : r.pool = j /\ x \in Run(r.start, r.num)
      BY <2>2
    <3>2. x \in dwOccupMap'[j] <=> x \in dwOccupMap[j] \/ (j = i /\ x \in Run(start, num))
      BY <2>1
    <3> HIDE DEF map
    <3>3. \A r : r \in lent' <=> r \in lent \/ r = run
      BY <1>1
    <3> QED BY <1>5, <3>1, <3>2, <3>3
  <2>5. \A r, q \in lent' : r.pool = j /\ q.pool = j /\ r # q =>
             Run(r.start, r.num) \intersect Run(q.start, q.num) = {}
    <3> HIDE DEF map
    <3>1. \A r : r \in lent' <=> r \in lent \/ r = run
      BY <1>1
    <3>2. run.pool = i /\ run.start = start /\ run.num = num
      BY <1>5
    <3>3. ASSUME NEW r \in lent, r.pool = i
          PROVE  /\ Run(r.start, r.num) \intersect Run(run.start, run.num) = {}
                 /\ Run(run.start, run.num) \intersect Run(r.start, r.num) = {}
      BY <1>3, <2>3, <3>2, <3>3
    <3> QED BY <2>2, <3>1, <3>2, <3>3
  <2> QED BY <2>1, <2>2, <2>4, <2>5
<1> QED
  BY <1>7, <1>8 DEF PoolIInv

LEMMA FreePagesPreserves ==
  ASSUME MemoryAssumption, PoolIInv, NEW run \in lent, _4kFree(run)
  PROVE  PoolIInv'
<1> DEFINE i   == run.pool
           map == dwOccupMap[i] \ Run(run.start, run.num)
<1>1. /\ dwOccupMap' = [dwOccupMap EXCEPT ![i] = map]
      /\ dwMaxBlockSize' = [dwMaxBlockSize EXCEPT ![i] = LongestFreeRun(map)]
      /\ lent' = lent \ {run}
  BY DEF _4kFree
<1>2. i \in Pools /\ map \subseteq Pages
  BY DEF PoolIInv, PoolTypeOK
<1>3. LongestFreeRun(map) \in 0..PoolPages
  BY LongestFreeRunIs
<1> HIDE DEF i
<1>4. PoolTypeOK'
  <2> HIDE DEF map
  <2> QED BY <1>1, <1>2, <1>3 DEF PoolIInv, PoolTypeOK
<1>5. PoolsMatch'
  <2> SUFFICES ASSUME NEW j \in Pools
               PROVE  /\ \A x \in Pages : x \in dwOccupMap'[j] <=>
                           \E r \in lent' : r.pool = j /\ x \in Run(r.start, r.num)
                      /\ \A r, q \in lent' : r.pool = j /\ q.pool = j /\ r # q =>
                           Run(r.start, r.num) \intersect Run(q.start, q.num) = {}
                      /\ dwMaxBlockSize'[j] = LongestFreeRun(dwOccupMap'[j])
    BY DEF PoolsMatch
  <2>1. /\ dwOccupMap'[j] = IF j = i THEN map ELSE dwOccupMap[j]
        /\ dwMaxBlockSize'[j] = IF j = i THEN LongestFreeRun(map) ELSE dwMaxBlockSize[j]
    <3> HIDE DEF map
    <3> QED BY <1>1 DEF PoolIInv, PoolTypeOK
  <2>2. /\ \A x \in Pages : x \in dwOccupMap[j] <=>
             \E r \in lent : r.pool = j /\ x \in Run(r.start, r.num)
        /\ \A r, q \in lent : r.pool = j /\ q.pool = j /\ r # q =>
             Run(r.start, r.num) \intersect Run(q.start, q.num) = {}
        /\ dwMaxBlockSize[j] = LongestFreeRun(dwOccupMap[j])
    BY DEF PoolIInv, PoolsMatch
  <2>3. ASSUME NEW x \in Pages
        PROVE  x \in dwOccupMap'[j] <=> \E r \in lent' : r.pool = j /\ x \in Run(r.start, r.num)
    <3>1. CASE j # i
      BY <1>1, <2>1, <2>2, <3>1 DEF i
    <3>2. CASE j = i
      <4>1. x \in map <=> x \in dwOccupMap[j] /\ x \notin Run(run.start, run.num)
        BY <3>2
      <4>2. \A r \in lent : r.pool = j /\ r # run =>
              (x \in Run(r.start, r.num) => x \notin Run(run.start, run.num))
        BY <2>2, <3>2 DEF i
      <4> QED BY <1>1, <2>1, <2>2, <3>2, <4>1, <4>2
    <3> QED BY <3>1, <3>2
  <2> QED BY <1>1, <2>1, <2>2, <2>3
<1> QED
  BY <1>4, <1>5 DEF PoolIInv

-----------------------------------------------------------------------------
(* The doubly linked list.                                                  *)

\* The neighbours of an address are determined by the set of addresses.
LEMMA NextUnique ==
  ASSUME NEW D, D \subseteq Nat \ {NULL}, NEW a \in Nat, NEW n, NEW m,
         IsNext(D, a, n), IsNext(D, a, m)
  PROVE  n = m
<1>1. \A b \in D : b \in Nat /\ b # NULL
  OBVIOUS
<1>2. CASE n = NULL \/ m = NULL
  BY <1>1, <1>2 DEF IsNext
<1>3. CASE n # NULL /\ m # NULL
  <2>1. n \in D /\ m \in D
    BY <1>3 DEF IsNext
  <2>2. ~(n < m) /\ ~(m < n)
    BY <1>1, <1>3, <2>1 DEF IsNext
  <2> QED BY <1>1, <2>1, <2>2
<1> QED BY <1>2, <1>3

LEMMA PrevUnique ==
  ASSUME NEW D, D \subseteq Nat \ {NULL}, NEW a \in Nat, NEW n, NEW m,
         IsPrev(D, a, n), IsPrev(D, a, m)
  PROVE  n = m
<1>1. \A b \in D : b \in Nat /\ b # NULL
  OBVIOUS
<1>2. CASE n = NULL \/ m = NULL
  BY <1>1, <1>2 DEF IsPrev
<1>3. CASE n # NULL /\ m # NULL
  <2>1. n \in D /\ m \in D
    BY <1>3 DEF IsPrev
  <2>2. ~(n < m) /\ ~(m < n)
    BY <1>1, <1>3, <2>1 DEF IsPrev
  <2> QED BY <1>1, <2>1, <2>2
<1> QED BY <1>2, <1>3

LEMMA NextIsPrev ==
  ASSUME NEW D, D \subseteq Nat \ {NULL}, NEW a \in D, NEW b \in D
  PROVE  IsNext(D, a, b) <=> IsPrev(D, b, a)
<1>1. \A x \in D : x \in Nat /\ x # NULL
  OBVIOUS
<1> QED BY <1>1 DEF IsNext, IsPrev

LEMMA ConnectFact ==
  ASSUME NEW D, NEW f \in [D -> FreeBlock], NEW p \in Nat, NEW n \in Nat
  PROVE  /\ Connect(f, p, n) \in [D -> FreeBlock]
         /\ \A a \in D :
              /\ Connect(f, p, n)[a].size = f[a].size
              /\ Connect(f, p, n)[a].next = IF a = p THEN n ELSE f[a].next
              /\ Connect(f, p, n)[a].prev = IF a = n THEN p ELSE f[a].prev
<1> DEFINE g == Connect(f, p, n)
<1>1. g = [a \in D |-> [f[a] EXCEPT !.next = IF a = p THEN n ELSE @,
                                   !.prev = IF a = n THEN p ELSE @]]
  BY DEF Connect
<1>2. ASSUME NEW a \in D
      PROVE  /\ g[a] \in FreeBlock
             /\ g[a].size = f[a].size
             /\ g[a].next = IF a = p THEN n ELSE f[a].next
             /\ g[a].prev = IF a = n THEN p ELSE f[a].prev
  <2>1. g[a] = [f[a] EXCEPT !.next = IF a = p THEN n ELSE @,
                            !.prev = IF a = n THEN p ELSE @]
    BY <1>1
  <2>2. f[a] \in FreeBlock
    OBVIOUS
  <2> QED BY <2>1, <2>2 DEF FreeBlock
<1>3. g \in [D -> FreeBlock]
  BY <1>1, <1>2
<1> QED
  BY <1>2, <1>3

LEMMA WithoutFact ==
  ASSUME NEW D, NEW V, NEW f \in [D -> V], NEW b
  PROVE  Without(f, b) \in [D \ {b} -> V]
  BY DEF Without, Restrict

LEMMA WithoutValues ==
  ASSUME NEW f, NEW b
  PROVE  \A a \in DOMAIN f \ {b} : Without(f, b)[a] = f[a]
  BY DEF Without, Restrict

LEMMA PlaceFact ==
  ASSUME NEW D, NEW V, NEW f \in [D -> V], NEW b, NEW v \in V
  PROVE  Place(f, b, v) \in [D \union {b} -> V]
  BY DEF Place

LEMMA PlaceValues ==
  ASSUME NEW f, NEW b, NEW v
  PROVE  /\ Place(f, b, v)[b] = v
         /\ \A a \in DOMAIN f : a # b => Place(f, b, v)[a] = f[a]
  BY DEF Place

LEMMA FreeListFact ==
  ASSUME NEW f, FreeList(f)
  PROVE  /\ f \in [DOMAIN f -> FreeBlock]
         /\ \A a \in DOMAIN f : /\ a \in Nat /\ a # NULL /\ f[a] \in FreeBlock
                                /\ f[a].size \in Nat /\ f[a].next \in Nat /\ f[a].prev \in Nat
  BY DEF FreeList, FreeBlock

\* g is f with blk at a, to which its neighbours point.
BlockIn(f, g, a, blk) ==
  /\ g \in [DOMAIN f \union {a} -> FreeBlock]
  /\ g[a].size = blk.size /\ g[a].next = blk.next /\ g[a].prev = blk.prev
  /\ \A x \in DOMAIN f :
       /\ g[x].size = f[x].size
       /\ g[x].next = IF x = blk.prev THEN a ELSE f[x].next
       /\ g[x].prev = IF x = blk.next THEN a ELSE f[x].prev

LEMMA LinkInFact ==
  ASSUME NEW f, FreeList(f),
         NEW a \in Nat \ {NULL}, a \notin DOMAIN f, NEW blk \in FreeBlock, blk.next # a, blk.prev # a,
         blk.prev = NULL \/ blk.prev # blk.next
  PROVE  BlockIn(f, LinkIn(f, a, blk), a, blk)
<1> DEFINE D == DOMAIN f
           E == D \union {a}
<1>1. /\ blk.next \in Nat /\ blk.prev \in Nat
      /\ \A x \in D : x \in Nat /\ x # NULL /\ x # a
      /\ f \in [D -> FreeBlock]
  BY FreeListFact DEF FreeBlock
<1>2. PICK g : g = Place(f, a, blk)
  OBVIOUS
<1>3. g \in [E -> FreeBlock] /\ g[a] = blk /\ \A x \in D : g[x] = f[x]
  <2>1. Place(f, a, blk) \in [D \union {a} -> FreeBlock]
    BY <1>1, PlaceFact
  <2>2. /\ Place(f, a, blk)[a] = blk
        /\ \A x \in D : x # a => Place(f, a, blk)[x] = f[x]
    BY PlaceValues
  <2> QED BY <1>1, <1>2, <2>1, <2>2
<1>4. PICK h : h = Connect(g, blk.prev, a)
  OBVIOUS
<1> HIDE DEF E
<1>5. /\ h \in [E -> FreeBlock]
      /\ \A x \in E : /\ h[x].size = g[x].size
                      /\ h[x].next = IF x = blk.prev THEN a ELSE g[x].next
                      /\ h[x].prev = IF x = a THEN blk.prev ELSE g[x].prev
  BY <1>1, <1>3, <1>4, ConnectFact
<1>6. PICK k : k = Connect(h, a, blk.next)
  OBVIOUS
<1>7. /\ k \in [E -> FreeBlock]
      /\ \A x \in E : /\ k[x].size = h[x].size
                      /\ k[x].next = IF x = a THEN blk.next ELSE h[x].next
                      /\ k[x].prev = IF x = blk.next THEN a ELSE h[x].prev
  BY <1>1, <1>5, <1>6, ConnectFact
<1>8. LinkIn(f, a, blk) = k
  BY <1>2, <1>4, <1>6 DEF LinkIn
<1>9. a \in E /\ \A x \in D : x \in E
  BY DEF E
<1>10. /\ k[a].size = blk.size /\ k[a].next = blk.next /\ k[a].prev = blk.prev
  BY <1>3, <1>5, <1>7, <1>9
<1>11. \A x \in D :
              /\ k[x].size = f[x].size
              /\ k[x].next = IF x = blk.prev THEN a ELSE f[x].next
              /\ k[x].prev = IF x = blk.next THEN a ELSE f[x].prev
  BY <1>1, <1>3, <1>5, <1>7, <1>9
<1> QED
  BY <1>7, <1>8, <1>10, <1>11 DEF E, BlockIn

\* The size of the block at a, and its successor.
SizeIs(f, a, s) == f[a].size = s
NextIs(f, a, n) == f[a].next = n

\* Between a and a block that is not its neighbour there is nothing new.
OthersInOrder(f, a, blk) ==
  \A x \in DOMAIN f :
    /\ x # blk.prev => IsNext(DOMAIN f \union {a}, x, f[x].next)
    /\ x # blk.next => IsPrev(DOMAIN f \union {a}, x, f[x].prev)

\* A block comes into the list between its neighbours.
LEMMA LinkInKeepsOrder ==
  ASSUME NEW f, FreeList(f), NEW a \in Nat \ {NULL}, a \notin DOMAIN f, NEW blk \in FreeBlock,
         IsNext(DOMAIN f, a, blk.next), IsPrev(DOMAIN f, a, blk.prev),
         OthersInOrder(f, a, blk)
  PROVE  /\ FreeList(LinkIn(f, a, blk)) /\ LinkedByAddress(LinkIn(f, a, blk))
         /\ DOMAIN LinkIn(f, a, blk) = DOMAIN f \union {a}
         /\ SizeIs(LinkIn(f, a, blk), a, blk.size)
         /\ \A x \in DOMAIN f : LinkIn(f, a, blk)[x].size = f[x].size
<1>0. PICK g : g = LinkIn(f, a, blk)
  OBVIOUS
<1> DEFINE D == DOMAIN f
           E == DOMAIN f \union {a}
<1>1. /\ D \subseteq Nat \ {NULL} /\ f \in [D -> FreeBlock]
      /\ \A x \in D : x \in Nat /\ x # NULL /\ x # a
  BY FreeListFact DEF FreeList
<1>2. /\ blk.next # a /\ blk.prev # a
      /\ blk.prev = NULL \/ blk.prev # blk.next
      /\ blk.next = NULL \/ (blk.next \in D /\ a < blk.next)
      /\ blk.prev = NULL \/ (blk.prev \in D /\ blk.prev < a)
  BY <1>1 DEF IsNext, IsPrev
<1>3. /\ g \in [E -> FreeBlock]
      /\ g[a].size = blk.size /\ g[a].next = blk.next /\ g[a].prev = blk.prev
      /\ \A x \in D :
              /\ g[x].size = f[x].size
              /\ g[x].next = IF x = blk.prev THEN a ELSE f[x].next
              /\ g[x].prev = IF x = blk.next THEN a ELSE f[x].prev
  <2>1. /\ blk.next # a /\ blk.prev # a
        /\ blk.prev = NULL \/ blk.prev # blk.next
    BY <1>1, <1>2
  <2> HIDE DEF D, E
  <2>2. BlockIn(f, LinkIn(f, a, blk), a, blk)
    BY <2>1, LinkInFact
  <2> QED BY <1>0, <2>2 DEF BlockIn, D, E
<1>4. DOMAIN g = E
  BY <1>3
<1>5. FreeList(g)
  <2>1. IsFiniteSet(E)
    BY FS_AddElement DEF FreeList
  <2> QED BY <1>1, <1>3, <1>4, <2>1 DEF FreeList
<1>6. IsNext(E, a, blk.next) /\ IsPrev(E, a, blk.prev)
  BY <1>1 DEF IsNext, IsPrev
<1>7. ASSUME NEW x \in D
      PROVE  IsNext(E, x, g[x].next) /\ IsPrev(E, x, g[x].prev)
  <2>1. x = blk.prev => IsNext(E, x, a)
    BY <1>1, <1>2 DEF IsNext, IsPrev
  <2>2. x = blk.next => IsPrev(E, x, a)
    BY <1>1, <1>2 DEF IsNext, IsPrev
  <2>3. x # blk.prev => IsNext(E, x, f[x].next)
    BY DEF OthersInOrder
  <2>4. x # blk.next => IsPrev(E, x, f[x].prev)
    BY DEF OthersInOrder
  <2> HIDE DEF E
  <2> QED BY <1>3, <2>1, <2>2, <2>3, <2>4
<1>8. LinkedByAddress(g)
  <2> SUFFICES ASSUME NEW x \in E
               PROVE  IsNext(E, x, g[x].next) /\ IsPrev(E, x, g[x].prev)
    BY <1>4 DEF LinkedByAddress
  <2>1. CASE x = a
    BY <1>3, <1>6, <2>1
  <2>2. CASE x \in D
    BY <1>7, <2>2
  <2> QED BY <2>1, <2>2
<1> QED
  BY <1>0, <1>3, <1>4, <1>5, <1>8 DEF SizeIs

LEMMA InsertKeepsOrder ==
  ASSUME NEW f, FreeList(f), LinkedByAddress(f), NEW a \in Nat \ {NULL}, a \notin DOMAIN f,
         NEW blk \in FreeBlock, IsNext(DOMAIN f, a, blk.next), IsPrev(DOMAIN f, a, blk.prev)
  PROVE  /\ FreeList(LinkIn(f, a, blk)) /\ LinkedByAddress(LinkIn(f, a, blk))
         /\ DOMAIN LinkIn(f, a, blk) = DOMAIN f \union {a}
         /\ SizeIs(LinkIn(f, a, blk), a, blk.size)
         /\ \A x \in DOMAIN f : LinkIn(f, a, blk)[x].size = f[x].size
<1>1. ASSUME NEW x \in DOMAIN f
      PROVE  /\ x # blk.prev => IsNext(DOMAIN f \union {a}, x, f[x].next)
             /\ x # blk.next => IsPrev(DOMAIN f \union {a}, x, f[x].prev)
  <2>1. \A y \in DOMAIN f : y \in Nat /\ y # NULL /\ y # a
    BY FreeListFact
  <2>2. IsNext(DOMAIN f, x, f[x].next) /\ IsPrev(DOMAIN f, x, f[x].prev)
    BY DEF LinkedByAddress
  <2>3. x # blk.prev => IsNext(DOMAIN f \union {a}, x, f[x].next)
    BY <2>1, <2>2 DEF IsNext, IsPrev
  <2>4. x # blk.next => IsPrev(DOMAIN f \union {a}, x, f[x].prev)
    BY <2>1, <2>2 DEF IsNext, IsPrev
  <2> QED BY <2>3, <2>4
<1>2. OthersInOrder(f, a, blk)
  BY <1>1 DEF OthersInOrder
<1> QED
  BY <1>2, LinkInKeepsOrder, Zenon

LEMMA HeaderAfterInsert ==
  ASSUME NEW D, D \subseteq Nat \ {NULL}, NEW a \in Nat \ {NULL}, NEW h, NEW p,
         IsNext(D, NULL, h), IsPrev(D, a, p)
  PROVE  IsNext(D \union {a}, NULL, IF p = NULL THEN a ELSE h)
<1>1. \A b \in D : b \in Nat /\ b # NULL /\ NULL < b
  BY DEF NULL
<1>2. CASE p = NULL
  <2>1. \A b \in D : ~(b < a)
    BY <1>2 DEF IsPrev
  <2>2. IsNext(D \union {a}, NULL, a)
    BY <1>1, <2>1 DEF IsNext, NULL
  <2> QED BY <1>2, <2>2
<1>3. CASE p # NULL
  <2>1. p \in D /\ p < a
    BY <1>3 DEF IsPrev
  <2>2. h # NULL
    BY <1>1, <2>1 DEF IsNext
  <2>3. h \in D /\ \A b \in D : ~(NULL < b /\ b < h)
    BY <2>2 DEF IsNext
  <2>4. h <= p
    BY <1>1, <2>1, <2>3
  <2>5. \A b \in D \union {a} : ~(NULL < b /\ b < h)
    BY <1>1, <2>1, <2>3, <2>4
  <2>6. IsNext(D \union {a}, NULL, h)
    BY <1>1, <2>2, <2>3, <2>5 DEF IsNext
  <2> QED BY <1>3, <2>6
<1> QED BY <1>2, <1>3

\* A block goes out of the list, and its neighbours become neighbours.
Removed(f, b) == Connect(Without(f, b), f[b].prev, f[b].next)
WithoutIn(f, g, b) ==
  /\ FreeList(g) /\ LinkedByAddress(g)
  /\ DOMAIN g = DOMAIN f \ {b}
  /\ \A x \in DOMAIN f \ {b} :
       /\ g[x].size = f[x].size
       /\ g[x].next = IF x = f[b].prev THEN f[b].next ELSE f[x].next

LEMMA RemoveKeepsOrder ==
  ASSUME NEW f, FreeList(f), LinkedByAddress(f), NEW b \in DOMAIN f
  PROVE  WithoutIn(f, Removed(f, b), b)
<1>0. PICK g : g = Removed(f, b)
  OBVIOUS
<1> DEFINE D == DOMAIN f
           E == DOMAIN f \ {b}
           p == f[b].prev
           n == f[b].next
<1>1. /\ D \subseteq Nat \ {NULL} /\ f \in [D -> FreeBlock] /\ p \in Nat /\ n \in Nat
      /\ \A x \in D : x \in Nat /\ x # NULL
  BY FreeListFact DEF FreeList
<1>2. PICK w : w = Without(f, b)
  OBVIOUS
<1>3. w \in [E -> FreeBlock] /\ \A x \in E : w[x] = f[x]
  <2>1. Without(f, b) \in [D \ {b} -> FreeBlock]
    BY <1>1, WithoutFact
  <2>2. \A x \in D \ {b} : Without(f, b)[x] = f[x]
    BY WithoutValues
  <2> QED BY <1>2, <2>1, <2>2
<1>4. /\ IsNext(D, b, n) /\ IsPrev(D, b, p)
      /\ \A x \in D : IsNext(D, x, f[x].next) /\ IsPrev(D, x, f[x].prev)
  BY DEF LinkedByAddress
<1>5. /\ g \in [E -> FreeBlock]
      /\ \A x \in E : /\ g[x].size = f[x].size
                      /\ g[x].next = IF x = p THEN n ELSE f[x].next
                      /\ g[x].prev = IF x = n THEN p ELSE f[x].prev
  <2>1. g = Connect(w, p, n)
    BY <1>0, <1>2 DEF Removed
  <2> HIDE DEF E, p, n
  <2> QED BY <1>1, <1>3, <2>1, ConnectFact
<1>6. DOMAIN g = E
  BY <1>5
<1>7. FreeList(g)
  <2>1. IsFiniteSet(E)
    BY FS_RemoveElement DEF FreeList
  <2> QED BY <1>1, <1>5, <1>6, <2>1 DEF FreeList
<1> HIDE DEF p, n
<1>8. ASSUME NEW x \in E
      PROVE  IsNext(E, x, g[x].next) /\ IsPrev(E, x, g[x].prev)
  <2>1. /\ x \in D /\ x # b /\ x \in Nat /\ b \in Nat
        /\ \A y : y \in E <=> y \in D /\ y # b
        /\ \A y \in D : y \in Nat /\ y # NULL
    BY <1>1
  <2>2. IsNext(D, b, n) /\ IsPrev(D, b, p) /\ IsNext(D, x, f[x].next) /\ IsPrev(D, x, f[x].prev)
    BY <1>4, <2>1
  <2>3. /\ g[x].next = IF x = p THEN n ELSE f[x].next
        /\ g[x].prev = IF x = n THEN p ELSE f[x].prev
    BY <1>5
  <2>4. PICK fn, fp : fn = f[x].next /\ fp = f[x].prev
    OBVIOUS
  <2> HIDE DEF D, E
  <2>5. ASSUME x = p
        PROVE  IsNext(E, x, n)
    <3>1. p # NULL /\ p < b /\ \A y \in D : ~(p < y /\ y < b)
      BY <2>1, <2>2, <2>5 DEF IsPrev
    <3>2. CASE n = NULL
      <4>1. \A y \in D : ~(b < y)
        BY <2>2, <3>2 DEF IsNext
      <4> QED BY <2>1, <2>5, <3>1, <3>2, <4>1 DEF IsNext
    <3>3. CASE n # NULL
      <4>1. n \in D /\ b < n /\ \A y \in D : ~(b < y /\ y < n)
        BY <2>2, <3>3 DEF IsNext
      <4>2. n \in E /\ p < n
        BY <2>1, <2>5, <3>1, <4>1
      <4>3. \A y \in E : ~(p < y /\ y < n)
        BY <2>1, <2>5, <3>1, <4>1
      <4> QED BY <2>5, <3>3, <4>2, <4>3 DEF IsNext
    <3> QED BY <3>2, <3>3
  <2>6. ASSUME x # p
        PROVE  IsNext(E, x, fn)
    <3>1. fn # b
      <4> SUFFICES ASSUME fn = b
                   PROVE  IsPrev(D, b, x)
        BY <2>1, <2>2, <2>6, PrevUnique, <1>1
      <4>1. IsNext(D, x, b)
        BY <2>2, <2>4
      <4> QED BY <2>1, <4>1, <1>1, NextIsPrev
    <3>2. IsNext(E, x, fn)
      BY <2>1, <2>2, <2>4, <3>1 DEF IsNext
    <3> QED BY <3>2
  <2>7. ASSUME x = n
        PROVE  IsPrev(E, x, p)
    <3>1. n # NULL /\ b < n /\ \A y \in D : ~(b < y /\ y < n)
      BY <2>1, <2>2, <2>7 DEF IsNext
    <3>2. CASE p = NULL
      <4>1. \A y \in D : ~(y < b)
        BY <2>2, <3>2 DEF IsPrev
      <4> QED BY <2>1, <2>7, <3>1, <3>2, <4>1 DEF IsPrev
    <3>3. CASE p # NULL
      <4>1. p \in D /\ p < b /\ \A y \in D : ~(p < y /\ y < b)
        BY <2>2, <3>3 DEF IsPrev
      <4>2. p \in E /\ p < n
        BY <2>1, <2>7, <3>1, <4>1
      <4>3. \A y \in E : ~(p < y /\ y < n)
        BY <2>1, <2>7, <3>1, <4>1
      <4> QED BY <2>7, <3>3, <4>2, <4>3 DEF IsPrev
    <3> QED BY <3>2, <3>3
  <2>8. ASSUME x # n
        PROVE  IsPrev(E, x, fp)
    <3>1. fp # b
      <4> SUFFICES ASSUME fp = b
                   PROVE  IsNext(D, b, x)
        BY <2>1, <2>2, <2>8, NextUnique, <1>1
      <4>1. IsPrev(D, x, b)
        BY <2>2, <2>4
      <4> QED BY <2>1, <4>1, <1>1, NextIsPrev
    <3>2. IsPrev(E, x, fp)
      BY <2>1, <2>2, <2>4, <3>1 DEF IsPrev
    <3> QED BY <3>2
  <2>9. IsNext(E, x, g[x].next)
    BY <2>3, <2>4, <2>5, <2>6
  <2>10. IsPrev(E, x, g[x].prev)
    BY <2>3, <2>4, <2>7, <2>8
  <2> QED BY <2>9, <2>10
<1>9. LinkedByAddress(g)
  <2> HIDE DEF E
  <2> QED BY <1>6, <1>8 DEF LinkedByAddress
<1> QED
  BY <1>0, <1>5, <1>6, <1>7, <1>9 DEF p, n, WithoutIn

LEMMA HeaderAfterRemove ==
  ASSUME NEW D, D \subseteq Nat \ {NULL}, NEW b \in D, NEW h, NEW p, NEW n,
         IsNext(D, NULL, h), IsPrev(D, b, p), IsNext(D, b, n)
  PROVE  IsNext(D \ {b}, NULL, IF p = NULL THEN n ELSE h)
<1>1. \A x \in D : x \in Nat /\ x # NULL /\ NULL < x
  BY DEF NULL
<1>2. CASE p = NULL
  <2>1. \A x \in D : ~(x < b)
    BY <1>2 DEF IsPrev
  <2>2. CASE n = NULL
    BY <1>1, <1>2, <2>1, <2>2 DEF IsNext
  <2>3. CASE n # NULL
    <3>1. n \in D /\ b < n /\ \A x \in D : ~(b < x /\ x < n)
      BY <2>3 DEF IsNext
    <3>2. \A x \in D \ {b} : ~(x < n)
      BY <1>1, <2>1, <3>1
    <3>3. n \in D \ {b} /\ NULL < n
      BY <1>1, <3>1
    <3>4. IsNext(D \ {b}, NULL, n)
      BY <2>3, <3>2, <3>3 DEF IsNext
    <3> QED BY <1>2, <3>4
  <2> QED BY <2>2, <2>3
<1>3. CASE p # NULL
  <2>1. p \in D /\ p < b
    BY <1>3 DEF IsPrev
  <2>2. h # NULL /\ h \in D /\ NULL < h /\ \A x \in D : ~(NULL < x /\ x < h)
    BY <1>1, <2>1 DEF IsNext
  <2>3. h # b
    BY <1>1, <2>1, <2>2
  <2>4. IsNext(D \ {b}, NULL, h)
    BY <1>1, <2>2, <2>3 DEF IsNext
  <2> QED BY <1>3, <2>4
<1> QED BY <1>2, <1>3

-----------------------------------------------------------------------------
(* Merging.                                                                 *)

\* The counters are kept by counting intervals.
LEMMA AddInterval ==
  ASSUME NEW S, IsFiniteSet(S), NEW lo \in Nat, NEW k \in Nat,
         S \intersect (lo..lo + k - 1) = {}
  PROVE  /\ IsFiniteSet(S \union (lo..lo + k - 1))
         /\ Cardinality(S \union (lo..lo + k - 1)) = Cardinality(S) + k
<1> DEFINE I == lo..lo + k - 1
<1>1. IsFiniteSet(I) /\ Cardinality(I) = k
  <2>1. lo \in Int /\ lo + k - 1 \in Int
    OBVIOUS
  <2>2. /\ IsFiniteSet(lo..lo + k - 1)
        /\ Cardinality(lo..lo + k - 1) = IF lo > lo + k - 1 THEN 0 ELSE lo + k - 1 - lo + 1
    BY <2>1, FS_Interval
  <2> QED BY <2>2
<1> HIDE DEF I
<1>2. /\ IsFiniteSet(S \union I)
      /\ Cardinality(S \union I) = Cardinality(S) + Cardinality(I) - Cardinality(S \intersect I)
  BY <1>1, FS_Union
<1>3. S \intersect I = {} /\ Cardinality({}) = 0
  BY FS_EmptySet DEF I
<1>4. Cardinality(S) \in Nat
  BY FS_CardinalityType
<1>5. Cardinality(S \intersect I) = 0
  BY <1>3, Zenon
<1>6. Cardinality(S \union I) = Cardinality(S) + k
  BY <1>1, <1>2, <1>4, <1>5
<1> QED
  BY <1>2, <1>6 DEF I

LEMMA FreeBytesAre ==
  ASSUME NEW f
  PROVE  \A x : x \in FreeBytes(f) <=>
                  \E a \in DOMAIN f : x \in a + Header..a + Header + f[a].size - 1
  BY DEF FreeBytes, Payload

JointSize(f, p, n) == f[p].size + f[n].size + Header

\* p takes the place of itself and of its successor n.
LEMMA AbsorbFact ==
  ASSUME MemoryAssumption, NEW f, FreeList(f), LinkedByAddress(f),
         NEW p \in DOMAIN f, NEW n \in DOMAIN f, IsNext(DOMAIN f, p, n)
  PROVE  /\ FreeList(Absorb(f, p, n)) /\ LinkedByAddress(Absorb(f, p, n))
         /\ DOMAIN Absorb(f, p, n) = DOMAIN f \ {n}
         /\ SizeIs(Absorb(f, p, n), p, JointSize(f, p, n))
         /\ NextIs(Absorb(f, p, n), p, f[n].next)
         /\ \A x \in DOMAIN f \ {n} : x # p => Absorb(f, p, n)[x].size = f[x].size
<1>1. /\ f \in [DOMAIN f -> FreeBlock]
      /\ \A a \in DOMAIN f : /\ a \in Nat /\ a # NULL /\ f[a] \in FreeBlock
                             /\ f[a].size \in Nat /\ f[a].next \in Nat /\ f[a].prev \in Nat
  BY FreeListFact
<1>2. Header \in Nat
  BY PagesAre
<1>3. PICK larger : larger = [f EXCEPT ![p].size = @ + f[n].size + Header]
  OBVIOUS
<1>4. /\ DOMAIN larger = DOMAIN f
      /\ \A x \in DOMAIN f : x # p => larger[x] = f[x]
      /\ larger[p] = [f[p] EXCEPT !.size = @ + f[n].size + Header]
  BY <1>1, <1>3
<1>5. /\ larger[p] \in FreeBlock
      /\ larger[p].size = f[p].size + f[n].size + Header
      /\ larger[p].next = f[p].next /\ larger[p].prev = f[p].prev
  <2>1. PICK r \in FreeBlock : r = f[p]
    BY <1>1
  <2>2. PICK k \in Nat : k = f[p].size + f[n].size + Header
    BY <1>1, <1>2, SMTT(60)
  <2>3. larger[p] = [r EXCEPT !.size = k]
    BY <1>4, <2>1, <2>2
  <2>4. /\ [r EXCEPT !.size = k] \in FreeBlock
        /\ [r EXCEPT !.size = k].size = k
        /\ [r EXCEPT !.size = k].next = r.next
        /\ [r EXCEPT !.size = k].prev = r.prev
    BY DEF FreeBlock
  <2> QED BY <2>1, <2>2, <2>3, <2>4
<1>6. larger \in [DOMAIN f -> FreeBlock]
  <2>1. \A x \in DOMAIN f : larger[x] \in FreeBlock
    BY <1>1, <1>4, <1>5
  <2>2. larger = [x \in DOMAIN f |-> larger[x]]
    BY <1>3, <1>4
  <2> QED BY <2>1, <2>2
<1>7. FreeList(larger)
  BY <1>4, <1>6 DEF FreeList
<1>8. \A x \in DOMAIN f : larger[x].next = f[x].next /\ larger[x].prev = f[x].prev
  BY <1>4, <1>5
<1>9. LinkedByAddress(larger)
  BY <1>4, <1>8 DEF LinkedByAddress
<1>10. f[n].prev = p /\ p # n
  <2>1. IsPrev(DOMAIN f, n, f[n].prev)
    BY DEF LinkedByAddress
  <2>2. IsPrev(DOMAIN f, n, p)
    BY NextIsPrev DEF FreeList
  <2>3. n \in Nat /\ p \in Nat /\ n # NULL
    BY <1>1
  <2>4. f[n].prev = p
    BY <2>1, <2>2, <2>3, PrevUnique DEF FreeList
  <2>5. p < n
    BY <2>3 DEF IsNext
  <2> QED BY <2>3, <2>4, <2>5
<1>11. Absorb(f, p, n) = Removed(larger, n)
  BY <1>3, <1>8, <1>10 DEF Absorb, Removed
<1>12. /\ FreeList(Removed(larger, n)) /\ LinkedByAddress(Removed(larger, n))
       /\ DOMAIN Removed(larger, n) = DOMAIN larger \ {n}
       /\ \A x \in DOMAIN larger \ {n} :
            /\ Removed(larger, n)[x].size = larger[x].size
            /\ Removed(larger, n)[x].next =
                 IF x = larger[n].prev THEN larger[n].next ELSE larger[x].next
  <2>1. n \in DOMAIN larger
    BY <1>4
  <2>2. WithoutIn(larger, Removed(larger, n), n)
    BY <1>7, <1>9, <2>1, RemoveKeepsOrder
  <2> QED BY <2>2 DEF WithoutIn
<1>13. PICK g : g = Absorb(f, p, n)
  OBVIOUS
<1>14. /\ FreeList(g) /\ LinkedByAddress(g) /\ DOMAIN g = DOMAIN f \ {n}
       /\ \A x \in DOMAIN f \ {n} :
            /\ g[x].size = larger[x].size
            /\ g[x].next = IF x = p THEN f[n].next ELSE f[x].next
  BY <1>4, <1>8, <1>10, <1>11, <1>12, <1>13
<1>15. /\ g[p].size = JointSize(f, p, n)
       /\ g[p].next = f[n].next
       /\ \A x \in DOMAIN f \ {n} : x # p => g[x].size = f[x].size
  BY <1>4, <1>5, <1>10, <1>14 DEF JointSize
<1> QED
  BY <1>13, <1>14, <1>15 DEF SizeIs, NextIs

\* A block of size s at p ends where n begins, and gp is the size of the two
\* together, that of n being sn.
EndsAt(p, s, n) == p + s + Header = n
JointIs(gp, sp, sn) == gp = sp + sn + Header

LEMMA JointBeside ==
  ASSUME NEW p \in Nat, NEW n \in Nat, NEW sp \in Nat, NEW sn \in Nat, NEW gp \in Nat,
         NEW b \in Nat, NEW s \in Nat, Header \in Nat, Header > 0, EndsAt(p, sp, n),
         JointIs(gp, sp, sn), Beside(p, sp, b, s), Beside(n, sn, b, s)
  PROVE  Beside(p, gp, b, s)
<1>1. n = p + sp + Header /\ gp = sp + sn + Header
  BY DEF EndsAt, JointIs
<1>2. CASE b + s + Header <= p
  BY <1>2 DEF Beside
<1>3. CASE n + sn + Header <= b
  <2>1. p + gp + Header = n + sn + Header
    BY <1>1
  <2> QED BY <1>3, <2>1 DEF Beside
<1>4. CASE p + sp + Header <= b /\ b + s + Header <= n
  <2>1. FALSE
    BY <1>1, <1>4
  <2> QED BY <2>1
<1> QED
  BY <1>2, <1>3, <1>4 DEF Beside

Within(x, a, s) == a <= x /\ x < a + s + Header

LEMMA JointWithin ==
  ASSUME NEW p \in Nat, NEW n \in Nat, NEW sp \in Nat, NEW sn \in Nat, NEW gp \in Nat,
         NEW x \in Nat, Header \in Nat, EndsAt(p, sp, n), JointIs(gp, sp, sn)
  PROVE  /\ Within(x, p, gp) => Within(x, p, sp) \/ Within(x, n, sn)
         /\ Within(x, p, sp) => Within(x, p, gp)
         /\ Within(x, n, sn) => Within(x, p, gp)
  BY DEF EndsAt, JointIs, Within

LEMMA JointPayload ==
  ASSUME NEW p \in Nat, NEW n \in Nat, NEW sp \in Nat, NEW sn \in Nat, NEW gp \in Nat,
         Header \in Nat, EndsAt(p, sp, n), JointIs(gp, sp, sn)
  PROVE  /\ \A x : x \in Payload(p, gp) <=>
                     x \in Payload(p, sp) \/ x \in n..n + Header - 1 \/ x \in Payload(n, sn)
         /\ \A x \in Payload(p, sp) : x \notin n..n + Header - 1
         /\ \A x \in Payload(n, sn) : x \notin n..n + Header - 1
<1>1. /\ \A x : x \in Payload(p, gp) <=> x \in Int /\ p + Header <= x /\ x <= p + Header + gp - 1
      /\ \A x : x \in Payload(p, sp) <=> x \in Int /\ p + Header <= x /\ x <= p + Header + sp - 1
      /\ \A x : x \in Payload(n, sn) <=> x \in Int /\ n + Header <= x /\ x <= n + Header + sn - 1
      /\ \A x : x \in n..n + Header - 1 <=> x \in Int /\ n <= x /\ x <= n + Header - 1
  BY DEF Payload
<1>2. n = p + sp + Header /\ gp = sp + sn + Header
  BY DEF EndsAt, JointIs
<1> QED
  BY <1>1, <1>2

LEMMA PayloadApart ==
  ASSUME NEW n \in Nat, NEW sn \in Nat, NEW b \in Nat, NEW s \in Nat, Header \in Nat,
         Beside(n, sn, b, s)
  PROVE  \A x \in Payload(b, s) : x \notin n..n + Header - 1
  BY DEF Beside, Payload

LEMMA JointEnd ==
  ASSUME NEW p \in Nat, NEW n \in Nat, NEW sp \in Nat, NEW sn \in Nat, NEW gp \in Nat,
         NEW y \in Nat, Header \in Nat, EndsAt(p, sp, n), JointIs(gp, sp, sn),
         EndsAt(p, gp, y)
  PROVE  EndsAt(n, sn, y)
  BY DEF EndsAt, JointIs

\* g is f after k merges: the same memory, the counters moved by k.
Merged(f, g, k) ==
  /\ FreeList(g) /\ LinkedByAddress(g) /\ Apart(g)
  /\ \A h : IsNext(DOMAIN f, NULL, h) => IsNext(DOMAIN g, NULL, h)
  /\ \A x \in Nat : InFree(g, x) <=> InFree(f, x)
  /\ \A b, s \in Nat : Clear(f, b, s) => Clear(g, b, s)
  /\ Cardinality(DOMAIN g) = Cardinality(DOMAIN f) - k
  /\ IsFiniteSet(FreeBytes(g))
  /\ Cardinality(FreeBytes(g)) = Cardinality(FreeBytes(f)) + k * Header

LEMMA AbsorbMerges ==
  ASSUME MemoryAssumption, NEW f, FreeList(f), LinkedByAddress(f), Apart(f),
         IsFiniteSet(FreeBytes(f)),
         NEW p \in DOMAIN f, NEW n \in DOMAIN f, IsNext(DOMAIN f, p, n), Touch(f, p, n)
  PROVE  /\ Merged(f, Absorb(f, p, n), 1)
         /\ \A x, y \in DOMAIN Absorb(f, p, n) :
              Touch(Absorb(f, p, n), x, y) => IF x = p THEN Touch(f, n, y) ELSE Touch(f, x, y)
<1>0. PICK g : g = Absorb(f, p, n)
  OBVIOUS
<1>1. /\ FreeList(g) /\ LinkedByAddress(g) /\ DOMAIN g = DOMAIN f \ {n}
      /\ g[p].size = JointSize(f, p, n)
      /\ \A x \in DOMAIN f \ {n} : x # p => g[x].size = f[x].size
  <2>1. FreeList(Absorb(f, p, n)) /\ LinkedByAddress(Absorb(f, p, n))
    BY AbsorbFact
  <2>2. DOMAIN Absorb(f, p, n) = DOMAIN f \ {n}
    BY AbsorbFact
  <2>3. SizeIs(Absorb(f, p, n), p, JointSize(f, p, n))
    BY AbsorbFact
  <2>4. \A x \in DOMAIN f \ {n} : x # p => Absorb(f, p, n)[x].size = f[x].size
    BY AbsorbFact
  <2> QED BY <1>0, <2>1, <2>2, <2>3, <2>4 DEF SizeIs
<1> DEFINE D == DOMAIN f
           E == DOMAIN f \ {n}
<1>20. PICK sp \in Nat, sn \in Nat : sp = f[p].size /\ sn = f[n].size
  BY FreeListFact
<1>21. PICK gp \in Nat : gp = sp + sn + Header
  BY PagesAre
<1>2. /\ p \in Nat /\ n \in Nat /\ p # n /\ p < n /\ p # NULL
      /\ sp \in Nat /\ sn \in Nat /\ gp \in Nat /\ Header \in Nat /\ Header > 0
      /\ EndsAt(p, sp, n) /\ JointIs(gp, sp, sn)
  <2>1. p \in Nat /\ n \in Nat /\ p # NULL
    BY FreeListFact
  <2>2. Header \in Nat /\ Header > 0
    BY PagesAre
  <2>3. p + sp + Header = n
    BY <1>20 DEF Touch
  <2>4. p # n /\ p < n
    BY <2>1, <2>2, <2>3
  <2> QED BY <1>20, <1>21, <2>1, <2>2, <2>3, <2>4 DEF EndsAt, JointIs
<1>23. f[p].size = sp /\ f[n].size = sn /\ g[p].size = gp /\ p \in E
  BY <1>1, <1>2, <1>20, <1>21 DEF JointSize
<1>3. ASSUME NEW b \in E, b # p
      PROVE  /\ b \in D /\ b # n /\ b \in Nat /\ f[b].size \in Nat /\ g[b].size = f[b].size
             /\ Beside(p, sp, b, f[b].size) /\ Beside(n, sn, b, f[b].size)
  <2>1. b \in D /\ b # n
    OBVIOUS
  <2>2. b \in Nat /\ f[b].size \in Nat /\ g[b].size = f[b].size
    BY <1>1, <1>3, FreeListFact
  <2>3. Beside(p, f[p].size, b, f[b].size) /\ Beside(n, f[n].size, b, f[b].size)
    BY <1>3, <2>1 DEF Apart
  <2> QED BY <1>23, <2>1, <2>2, <2>3
<1>4. \A b \in D : b = p \/ b = n \/ (b \in E /\ b # p)
  OBVIOUS
<1>41. \A a, b \in E : a # b => Beside(a, f[a].size, b, f[b].size)
  BY DEF Apart
<1>42. p \in D /\ n \in D /\ DOMAIN f = D /\ DOMAIN g = E
  BY <1>1
<1>43. \A a, s, b, t : Beside(a, s, b, t) <=> Beside(b, t, a, s)
  BY DEF Beside
<1> HIDE DEF D, E
<1>5. Apart(g)
  <2> SUFFICES ASSUME NEW a \in E, NEW b \in E, a # b
               PROVE  Beside(a, g[a].size, b, g[b].size)
    BY <1>42 DEF Apart
  <2>0. ASSUME NEW c \in E, c # p
        PROVE  Beside(p, gp, c, g[c].size)
    <3>1. Beside(p, gp, c, f[c].size)
      BY <1>2, <1>3, <2>0, JointBeside
    <3> QED BY <1>3, <2>0, <3>1
  <2>1. CASE a = p
    BY <1>23, <2>0, <2>1
  <2>2. CASE b = p
    BY <1>23, <1>43, <2>0, <2>2
  <2>3. CASE a # p /\ b # p
    BY <1>3, <1>41, <2>3
  <2> QED BY <2>1, <2>2, <2>3
<1>6. ASSUME NEW h, IsNext(DOMAIN f, NULL, h)
      PROVE  IsNext(DOMAIN g, NULL, h)
  <2>1. NULL < p /\ p < n /\ p \in E
    BY <1>2, <1>23 DEF NULL
  <2>2. h # NULL
    BY <1>6, <1>42, <2>1 DEF IsNext
  <2>3. h \in D /\ NULL < h /\ \A b \in D : ~(NULL < b /\ b < h)
    BY <1>6, <1>42, <2>2 DEF IsNext
  <2>4. h # n
    BY <1>42, <2>1, <2>3
  <2>5. h \in E /\ \A b \in E : b \in D
    BY <2>3, <2>4 DEF D, E
  <2> QED BY <1>42, <2>2, <2>3, <2>5 DEF IsNext
<1>7. ASSUME NEW x \in Nat
      PROVE  InFree(g, x) <=> InFree(f, x)
  <2>0. Within(x, p, gp) <=> Within(x, p, sp) \/ Within(x, n, sn)
    <3>1. Within(x, p, gp) => Within(x, p, sp) \/ Within(x, n, sn)
      BY <1>2, JointWithin
    <3>2. Within(x, p, sp) => Within(x, p, gp)
      BY <1>2, JointWithin
    <3>3. Within(x, n, sn) => Within(x, p, gp)
      BY <1>2, JointWithin
    <3> QED BY <3>1, <3>2, <3>3
  <2>1. ASSUME NEW a \in D, Within(x, a, f[a].size)
        PROVE  \E b \in E : Within(x, b, g[b].size)
    <3>1. CASE a = n \/ a = p
      BY <1>23, <2>0, <2>1, <3>1
    <3>2. CASE a # n /\ a # p
      BY <1>3, <1>4, <2>1, <3>2
    <3> QED BY <3>1, <3>2
  <2>2. ASSUME NEW a \in E, Within(x, a, g[a].size)
        PROVE  \E b \in D : Within(x, b, f[b].size)
    <3>1. CASE a = p
      BY <1>23, <1>42, <2>0, <2>2, <3>1
    <3>2. CASE a # p
      BY <1>3, <2>2, <3>2
    <3> QED BY <3>1, <3>2
  <2>3. /\ InFree(g, x) <=> \E b \in E : Within(x, b, g[b].size)
        /\ InFree(f, x) <=> \E b \in D : Within(x, b, f[b].size)
    BY <1>42 DEF InFree, Within
  <2> QED BY <2>1, <2>2, <2>3
<1>8. ASSUME NEW b \in Nat, NEW s \in Nat, Clear(f, b, s)
      PROVE  Clear(g, b, s)
  <2> SUFFICES ASSUME NEW a \in E
               PROVE  Beside(a, g[a].size, b, s)
    BY <1>42 DEF Clear
  <2>1. \A y \in D : Beside(y, f[y].size, b, s)
    BY <1>8, <1>42 DEF Clear
  <2>2. CASE a = p
    <3>1. Beside(p, sp, b, s) /\ Beside(n, sn, b, s)
      BY <1>23, <1>42, <2>1
    <3>2. Beside(p, gp, b, s)
      BY <1>2, <3>1, JointBeside
    <3> QED BY <1>23, <2>2, <3>2
  <2>3. CASE a # p
    BY <1>3, <2>1, <2>3
  <2> QED BY <2>2, <2>3
<1>9. Cardinality(DOMAIN g) = Cardinality(DOMAIN f) - 1
  <2>1. IsFiniteSet(D) /\ n \in D
    BY <1>42 DEF FreeList
  <2>2. Cardinality(D \ {n}) = Cardinality(D) - 1
    BY <2>1, FS_RemoveElement
  <2> QED BY <1>42, <2>2 DEF D, E
<1>10. /\ IsFiniteSet(FreeBytes(g))
       /\ Cardinality(FreeBytes(g)) = Cardinality(FreeBytes(f)) + Header
  <2>0. /\ \A x : x \in Payload(p, gp) <=>
                   x \in Payload(p, sp) \/ x \in n..n + Header - 1 \/ x \in Payload(n, sn)
        /\ \A x \in Payload(p, sp) : x \notin n..n + Header - 1
        /\ \A x \in Payload(n, sn) : x \notin n..n + Header - 1
    BY <1>2, JointPayload, ZenonT(60)
  <2>00. PICK I : I = n..n + Header - 1
    OBVIOUS
  <2>01. /\ \A x : x \in Payload(p, gp) <=>
                   x \in Payload(p, sp) \/ x \in I \/ x \in Payload(n, sn)
         /\ \A x \in Payload(p, sp) : x \notin I
         /\ \A x \in Payload(n, sn) : x \notin I
    BY <2>0, <2>00
  <2>02. /\ \A x : x \in FreeBytes(f) <=> \E a \in D : x \in Payload(a, f[a].size)
         /\ \A x : x \in FreeBytes(g) <=> \E a \in E : x \in Payload(a, g[a].size)
    BY <1>42 DEF FreeBytes
  <2>1. ASSUME NEW x, x \in FreeBytes(f)
        PROVE  x \in FreeBytes(g) /\ x \notin I
    <3>1. PICK a \in D : x \in Payload(a, f[a].size)
      BY <2>1, <2>02
    <3>2. CASE a = n \/ a = p
      BY <1>23, <2>01, <2>02, <3>1, <3>2
    <3>3. CASE a # n /\ a # p
      <4>1. a \in E /\ Beside(n, sn, a, f[a].size) /\ a \in Nat /\ f[a].size \in Nat
        BY <1>3, <1>4, <3>3
      <4>2. x \notin I
        BY <1>2, <2>00, <3>1, <4>1, PayloadApart
      <4>3. g[a].size = f[a].size
        BY <1>3, <3>3, <4>1
      <4> QED BY <2>02, <3>1, <4>1, <4>2, <4>3
    <3> QED BY <3>2, <3>3
  <2>2. ASSUME NEW x \in I
        PROVE  x \in FreeBytes(g)
    BY <1>23, <2>01, <2>02
  <2>3. ASSUME NEW x, x \in FreeBytes(g)
        PROVE  x \in FreeBytes(f) \/ x \in I
    <3>1. PICK a \in E : x \in Payload(a, g[a].size)
      BY <2>3, <2>02
    <3>2. CASE a = p
      BY <1>23, <1>42, <2>01, <2>02, <3>1, <3>2
    <3>3. CASE a # p
      BY <1>3, <2>02, <3>1, <3>3
    <3> QED BY <3>2, <3>3
  <2>4. FreeBytes(f) \intersect I = {}
    BY <2>1
  <2>5. FreeBytes(g) = FreeBytes(f) \union I
    BY <2>1, <2>2, <2>3
  <2>6. /\ FreeBytes(f) \intersect (n..n + Header - 1) = {}
        /\ FreeBytes(g) = FreeBytes(f) \union (n..n + Header - 1)
    BY <2>00, <2>4, <2>5
  <2>7. /\ IsFiniteSet(FreeBytes(f) \union (n..n + Header - 1))
        /\ Cardinality(FreeBytes(f) \union (n..n + Header - 1))
             = Cardinality(FreeBytes(f)) + Header
    BY <1>2, <2>6, AddInterval
  <2> QED BY <2>6, <2>7
<1>11. ASSUME NEW x \in DOMAIN g, NEW y \in DOMAIN g, Touch(g, x, y)
       PROVE  IF x = p THEN Touch(f, n, y) ELSE Touch(f, x, y)
  <2>1. x \in E /\ y \in E /\ y \in D /\ y \in Nat
    BY <1>2, <1>3, <1>42
  <2>2. CASE x = p
    <3>1. EndsAt(p, gp, y)
      BY <1>11, <1>23, <2>2 DEF Touch, EndsAt
    <3>2. EndsAt(n, sn, y)
      BY <1>2, <2>1, <3>1, JointEnd
    <3> QED BY <1>23, <2>2, <3>2 DEF Touch, EndsAt
  <2>3. CASE x # p
    BY <1>3, <1>11, <2>1, <2>3 DEF Touch
  <2> QED BY <2>2, <2>3
<1>12. Merged(f, g, 1)
  <2>1. Cardinality(FreeBytes(g)) = Cardinality(FreeBytes(f)) + 1 * Header
    BY <1>2, <1>10
  <2> QED BY <1>1, <1>5, <1>6, <1>7, <1>8, <1>9, <1>10, <2>1 DEF Merged
<1> QED
  BY <1>0, <1>11, <1>12

LEMMA MergedAgain ==
  ASSUME MemoryAssumption, NEW f, NEW g, NEW h, FreeList(f), IsFiniteSet(FreeBytes(f)),
         Merged(f, g, 1), Merged(g, h, 1)
  PROVE  Merged(f, h, 2)
<1>1. Header \in Nat /\ Cardinality(DOMAIN f) \in Nat /\ Cardinality(FreeBytes(f)) \in Nat
  BY PagesAre, FS_CardinalityType DEF FreeList
<1>2. /\ Cardinality(DOMAIN g) = Cardinality(DOMAIN f) - 1
      /\ Cardinality(DOMAIN h) = Cardinality(DOMAIN g) - 1
      /\ Cardinality(FreeBytes(g)) = Cardinality(FreeBytes(f)) + 1 * Header
      /\ Cardinality(FreeBytes(h)) = Cardinality(FreeBytes(g)) + 1 * Header
  BY DEF Merged
<1>3. /\ Cardinality(DOMAIN h) = Cardinality(DOMAIN f) - 2
      /\ Cardinality(FreeBytes(h)) = Cardinality(FreeBytes(f)) + 2 * Header
  <2>1. Cardinality(DOMAIN h) = Cardinality(DOMAIN f) - 1 - 1
    BY <1>2
  <2>2. Cardinality(DOMAIN f) - 1 - 1 = Cardinality(DOMAIN f) - 2
    BY <1>1
  <2>3. Cardinality(FreeBytes(h)) = Cardinality(FreeBytes(f)) + 1 * Header + 1 * Header
    BY <1>2
  <2>4. Cardinality(FreeBytes(f)) + 1 * Header + 1 * Header = Cardinality(FreeBytes(f)) + 2 * Header
    BY <1>1
  <2> QED BY <2>1, <2>2, <2>3, <2>4, Zenon
<1>4. /\ FreeList(h) /\ LinkedByAddress(h) /\ Apart(h) /\ IsFiniteSet(FreeBytes(h))
      /\ \A x : IsNext(DOMAIN f, NULL, x) => IsNext(DOMAIN h, NULL, x)
      /\ \A x \in Nat : InFree(h, x) <=> InFree(f, x)
      /\ \A b, s \in Nat : Clear(f, b, s) => Clear(h, b, s)
  BY DEF Merged
<1> QED
  BY <1>3, <1>4 DEF Merged

LEMMA MergedNone ==
  ASSUME MemoryAssumption, NEW f, FreeList(f), LinkedByAddress(f), Apart(f),
         IsFiniteSet(FreeBytes(f))
  PROVE  Merged(f, f, 0)
<1>1. Header \in Nat /\ Cardinality(DOMAIN f) \in Nat /\ Cardinality(FreeBytes(f)) \in Nat
  BY PagesAre, FS_CardinalityType DEF FreeList
<1>2. /\ Cardinality(DOMAIN f) = Cardinality(DOMAIN f) - 0
      /\ Cardinality(FreeBytes(f)) = Cardinality(FreeBytes(f)) + 0 * Header
  BY <1>1
<1> QED
  BY <1>2 DEF Merged

\* Blocks that touch are neighbours in the list.
LEMMA TouchIsNext ==
  ASSUME MemoryAssumption, NEW f, FreeList(f), LinkedByAddress(f), Apart(f),
         NEW x \in DOMAIN f, NEW y \in DOMAIN f, Touch(f, x, y)
  PROVE  IsNext(DOMAIN f, x, y) /\ f[x].next = y /\ f[y].prev = x /\ x # y
<1> DEFINE D == DOMAIN f
<1>1. /\ D \subseteq Nat \ {NULL}
      /\ \A b \in D : b \in Nat /\ b # NULL /\ f[b].size \in Nat
  BY FreeListFact DEF FreeList
<1>2. Header \in Nat /\ Header > 0
  BY PagesAre
<1>3. x + f[x].size + Header = y
  BY DEF Touch
<1>4. x < y
  BY <1>1, <1>2, <1>3
<1>5. ASSUME NEW b \in D, x < b, b < y
      PROVE  FALSE
  <2>1. b # x /\ b \in Nat /\ f[b].size \in Nat /\ x \in Nat /\ f[x].size \in Nat
    BY <1>1, <1>5
  <2>2. x + f[x].size + Header <= b \/ b + f[b].size + Header <= x
    BY <2>1 DEF Apart, Beside
  <2> QED BY <1>2, <1>3, <1>5, <2>1, <2>2, SMTT(60)
<1>6. IsNext(D, x, y)
  BY <1>1, <1>4, <1>5 DEF IsNext
<1>7. IsPrev(D, y, x)
  BY <1>1, <1>6, NextIsPrev
<1>8. IsNext(D, x, f[x].next) /\ IsPrev(D, y, f[y].prev)
  BY DEF LinkedByAddress
<1> HIDE DEF D
<1>9. f[x].next = y
  BY <1>1, <1>6, <1>8, NextUnique DEF D
<1>10. f[y].prev = x
  BY <1>1, <1>7, <1>8, PrevUnique DEF D
<1> QED
  BY <1>1, <1>4, <1>6, <1>9, <1>10 DEF D

\* Only a, which was put in, may touch a neighbour.
OnlyAround(f, a) == \A x, y \in DOMAIN f : Touch(f, x, y) => x = a \/ y = a

LEMMA AdjacentIs ==
  ASSUME NEW f, FreeList(f), NEW a \in DOMAIN f, NEW b \in DOMAIN f
  PROVE  Adjacent(f, a, b) <=> Touch(f, a, b)
  BY FreeListFact DEF Adjacent, Touch

\* The merge with the predecessor.
LEMMA CombinePrevFact ==
  ASSUME MemoryAssumption, NEW f, FreeList(f), LinkedByAddress(f), Apart(f),
         IsFiniteSet(FreeBytes(f)), NEW a \in DOMAIN f, OnlyAround(f, a)
  PROVE  \/ /\ CombinePrev(f, a) = f
            /\ \A x \in DOMAIN f : ~Touch(f, x, a)
         \/ /\ CombinePrev(f, a) = Absorb(f, f[a].prev, a)
            /\ f[a].prev \in DOMAIN f /\ IsNext(DOMAIN f, f[a].prev, a)
            /\ Touch(f, f[a].prev, a)
<1>1. IsPrev(DOMAIN f, a, f[a].prev)
  BY DEF LinkedByAddress
<1>2. CASE Adjacent(f, f[a].prev, a)
  <2>1. f[a].prev # NULL
    BY <1>2 DEF Adjacent
  <2>2. f[a].prev \in DOMAIN f
    BY <1>1, <2>1 DEF IsPrev
  <2>3. Touch(f, f[a].prev, a)
    BY <1>2, <2>2, AdjacentIs
  <2>4. IsNext(DOMAIN f, f[a].prev, a)
    BY <2>2, <2>3, TouchIsNext
  <2> QED BY <1>2, <2>2, <2>3, <2>4 DEF CombinePrev
<1>3. CASE ~Adjacent(f, f[a].prev, a)
  <2>1. ASSUME NEW x \in DOMAIN f, Touch(f, x, a)
        PROVE  FALSE
    <3>1. f[a].prev = x
      BY <2>1, TouchIsNext
    <3> QED BY <1>3, <2>1, <3>1, AdjacentIs
  <2> QED BY <1>3, <2>1 DEF CombinePrev
<1> QED
  BY <1>2, <1>3

\* Whatever can be merged around a is merged.
LEMMA CombineFact ==
  ASSUME MemoryAssumption, NEW f, FreeList(f), LinkedByAddress(f), Apart(f),
         IsFiniteSet(FreeBytes(f)), NEW a \in DOMAIN f, OnlyAround(f, a)
  PROVE  \E m \in 0..2 : /\ Merged(f, CombineNeighbor(f, a), m)
                         /\ Coalesced(CombineNeighbor(f, a))
<1>1. \A b \in DOMAIN f : b \in Nat /\ b # NULL
  BY FreeListFact
<1>2. PICK n : n = f[a].next
  OBVIOUS
<1>3. IsNext(DOMAIN f, a, n)
  BY <1>2 DEF LinkedByAddress
<1>4. n \notin DOMAIN f => ~Adjacent(f, a, n)
  BY <1>3 DEF IsNext, Adjacent
<1>5. ASSUME NEW y \in DOMAIN f, Touch(f, a, y)
      PROVE  y = n /\ Adjacent(f, a, n)
  <2>1. f[a].next = y
    BY <1>5, TouchIsNext
  <2> QED BY <1>2, <1>5, <2>1, AdjacentIs
<1>6. CASE /\ CombinePrev(f, a) = f
           /\ \A x \in DOMAIN f : ~Touch(f, x, a)
  <2>1. CombineNeighbor(f, a) = IF Adjacent(f, a, n) THEN Absorb(f, a, n) ELSE f
    BY <1>2, <1>6 DEF CombineNeighbor
  <2>2. CASE ~Adjacent(f, a, n)
    <3>1. CombineNeighbor(f, a) = f
      BY <2>1, <2>2
    <3>2. Merged(f, f, 0)
      BY MergedNone
    <3>3. Coalesced(f)
      BY <1>5, <1>6, <2>2 DEF Coalesced, OnlyAround
    <3> QED BY <3>1, <3>2, <3>3
  <2>3. CASE Adjacent(f, a, n)
    <3>1. n \in DOMAIN f /\ Touch(f, a, n)
      BY <1>4, <2>3, AdjacentIs
    <3>2. Merged(f, Absorb(f, a, n), 1)
      BY <1>3, <3>1, AbsorbMerges
    <3>3. \A x, y \in DOMAIN Absorb(f, a, n) :
            Touch(Absorb(f, a, n), x, y) => IF x = a THEN Touch(f, n, y) ELSE Touch(f, x, y)
      BY <1>3, <3>1, AbsorbMerges
    <3>4. DOMAIN Absorb(f, a, n) = DOMAIN f \ {n}
      BY <1>3, <3>1, AbsorbFact
    <3>5. n # a
      BY <3>1, TouchIsNext
    <3>6. \A x, y \in DOMAIN Absorb(f, a, n) : ~Touch(Absorb(f, a, n), x, y)
      BY <1>6, <3>1, <3>3, <3>4, <3>5 DEF OnlyAround
    <3>7. Coalesced(Absorb(f, a, n))
      BY <3>2, <3>6 DEF Coalesced, Merged
    <3>8. CombineNeighbor(f, a) = Absorb(f, a, n)
      BY <2>1, <2>3
    <3> QED BY <3>2, <3>7, <3>8
  <2> QED BY <2>2, <2>3
<1>7. CASE /\ CombinePrev(f, a) = Absorb(f, f[a].prev, a)
           /\ f[a].prev \in DOMAIN f /\ IsNext(DOMAIN f, f[a].prev, a)
           /\ Touch(f, f[a].prev, a)
  <2>1. PICK p : p = f[a].prev
    OBVIOUS
  <2>2. p \in DOMAIN f /\ IsNext(DOMAIN f, p, a) /\ Touch(f, p, a)
    BY <1>7, <2>1
  <2>3. PICK g : g = Absorb(f, p, a)
    OBVIOUS
  <2>4. DOMAIN g = DOMAIN f \ {a}
    BY <2>2, <2>3, AbsorbFact
  <2>5. Merged(f, g, 1)
    <3>1. Merged(f, Absorb(f, p, a), 1)
      BY <2>2, AbsorbMerges
    <3> QED BY <2>3, <3>1
  <2>6. \A x, y \in DOMAIN g : Touch(g, x, y) => IF x = p THEN Touch(f, a, y) ELSE Touch(f, x, y)
    <3>1. \A x, y \in DOMAIN Absorb(f, p, a) :
            Touch(Absorb(f, p, a), x, y) => IF x = p THEN Touch(f, a, y) ELSE Touch(f, x, y)
      BY <2>2, AbsorbMerges
    <3> QED BY <2>3, <3>1
  <2>7. g[p].next = n /\ g[p].size = JointSize(f, p, a)
    <3>1. NextIs(Absorb(f, p, a), p, f[a].next)
      BY <2>2, AbsorbFact
    <3>2. SizeIs(Absorb(f, p, a), p, JointSize(f, p, a))
      BY <2>2, AbsorbFact
    <3> QED BY <1>2, <2>3, <3>1, <3>2 DEF SizeIs, NextIs
  <2>8. \A x, y \in DOMAIN g : Touch(g, x, y) => x = p /\ y = n /\ Adjacent(f, a, n)
    BY <1>5, <2>4, <2>6 DEF OnlyAround
  <2>9. p # a /\ p \in DOMAIN g
    <3>1. p # a
      BY <2>2, TouchIsNext
    <3> QED BY <2>2, <2>4, <3>1
  <2>10. CombineNeighbor(f, a) = IF Adjacent(f, a, n) THEN Absorb(g, p, n) ELSE g
    BY <1>2, <1>7, <2>1, <2>3, <2>4 DEF CombineNeighbor
  <2>11. CASE ~Adjacent(f, a, n)
    <3>1. CombineNeighbor(f, a) = g
      BY <2>10, <2>11
    <3>2. Coalesced(g)
      BY <2>5, <2>8, <2>11 DEF Coalesced, Merged
    <3> QED BY <2>5, <3>1, <3>2
  <2>12. CASE Adjacent(f, a, n)
    <3>1. n \in DOMAIN f /\ Touch(f, a, n)
      BY <1>4, <2>12, AdjacentIs
    <3>2. n # a /\ n # p
      <4>1. n # a
        BY <3>1, TouchIsNext
      <4>2. p < a /\ a < n
        BY <1>1, <1>3, <2>2, <3>1 DEF IsNext
      <4> QED BY <1>1, <2>2, <3>1, <4>1, <4>2
    <3>3. n \in DOMAIN g /\ FreeList(g) /\ LinkedByAddress(g) /\ Apart(g) /\ IsFiniteSet(FreeBytes(g))
      BY <2>4, <2>5, <3>1, <3>2 DEF Merged
    <3>4. IsNext(DOMAIN g, p, n)
      BY <2>7, <2>9, <3>3 DEF LinkedByAddress
    <3>5. Touch(g, p, n)
      <4>1. PICK sp \in Nat, sa \in Nat : sp = f[p].size /\ sa = f[a].size
        BY <2>2, FreeListFact
      <4>2. Header \in Nat /\ p \in Nat /\ a \in Nat /\ n \in Nat
        BY <1>1, <2>2, <3>1, PagesAre
      <4>3. p + sp + Header = a
        BY <2>2, <4>1 DEF Touch
      <4>4. a + sa + Header = n
        BY <3>1, <4>1 DEF Touch
      <4>5. p + (sp + sa + Header) + Header = n
        BY <4>2, <4>3, <4>4
      <4> QED BY <2>7, <4>1, <4>5 DEF Touch, JointSize
    <3>6. Merged(g, Absorb(g, p, n), 1)
      BY <2>9, <3>3, <3>4, <3>5, AbsorbMerges
    <3>7. \A x, y \in DOMAIN Absorb(g, p, n) :
            Touch(Absorb(g, p, n), x, y) => IF x = p THEN Touch(g, n, y) ELSE Touch(g, x, y)
      BY <2>9, <3>3, <3>4, <3>5, AbsorbMerges
    <3>8. DOMAIN Absorb(g, p, n) = DOMAIN g \ {n}
      BY <2>9, <3>3, <3>4, AbsorbFact
    <3>9. \A x, y \in DOMAIN Absorb(g, p, n) : ~Touch(Absorb(g, p, n), x, y)
      BY <2>8, <3>2, <3>3, <3>7, <3>8
    <3>10. Coalesced(Absorb(g, p, n))
      BY <3>6, <3>9 DEF Coalesced, Merged
    <3>11. Merged(f, Absorb(g, p, n), 2)
      BY <2>5, <3>6, MergedAgain
    <3>12. CombineNeighbor(f, a) = Absorb(g, p, n)
      BY <2>10, <2>12
    <3> QED BY <3>10, <3>11, <3>12
  <2> QED BY <2>11, <2>12
<1> QED
  BY <1>6, <1>7, CombinePrevFact

\* A block that nothing overlaps comes into the list.
Inserted(f, g, a, size) ==
  /\ FreeList(g) /\ LinkedByAddress(g) /\ Apart(g) /\ OnlyAround(g, a)
  /\ DOMAIN g = DOMAIN f \union {a}
  /\ Cardinality(DOMAIN g) = Cardinality(DOMAIN f) + 1
  /\ IsFiniteSet(FreeBytes(g))
  /\ Cardinality(FreeBytes(g)) = Cardinality(FreeBytes(f)) + size
  /\ \A x \in Nat : InFree(g, x) <=> InFree(f, x) \/ Within(x, a, size)
  /\ \A b, s \in Nat : Clear(f, b, s) /\ Beside(a, size, b, s) => Clear(g, b, s)

LEMMA PayloadsApart ==
  ASSUME NEW a \in Nat, NEW s \in Nat, NEW b \in Nat, NEW t \in Nat, Header \in Nat,
         Beside(a, s, b, t)
  PROVE  \A x \in Payload(a, s) : x \notin Payload(b, t)
  BY DEF Beside, Payload

LEMMA InsertFact ==
  ASSUME MemoryAssumption, NEW f, FreeList(f), LinkedByAddress(f), Coalesced(f),
         IsFiniteSet(FreeBytes(f)), NEW a \in Nat \ {NULL}, NEW blk \in FreeBlock,
         IsNext(DOMAIN f, a, blk.next), IsPrev(DOMAIN f, a, blk.prev),
         Clear(f, a, blk.size)
  PROVE  a \notin DOMAIN f /\ Inserted(f, LinkIn(f, a, blk), a, blk.size)
<1> DEFINE D == DOMAIN f
<1>1. /\ \A b \in D : b \in Nat /\ b # NULL /\ f[b].size \in Nat
      /\ Header \in Nat /\ Header > 0 /\ a \in Nat
  BY FreeListFact, PagesAre
<1>2. PICK s \in Nat : s = blk.size
  BY DEF FreeBlock
<1>3. \A b \in D : Beside(b, f[b].size, a, s) /\ Beside(a, s, b, f[b].size)
  BY <1>2 DEF Clear, Beside
<1>4. a \notin D
  <2>1. ASSUME a \in D
        PROVE  FALSE
    <3>1. a + f[a].size + Header <= a \/ a + s + Header <= a
      BY <1>3, <2>1 DEF Beside
    <3> QED BY <1>1, <1>2, <2>1, <3>1, SMTT(60)
  <2> QED BY <2>1
<1>5. PICK g : g = LinkIn(f, a, blk)
  OBVIOUS
<1>6. /\ FreeList(g) /\ DOMAIN g = DOMAIN f \union {a} /\ LinkedByAddress(g)
      /\ g[a].size = blk.size
      /\ \A x \in DOMAIN f : g[x].size = f[x].size
  <2>1. FreeList(LinkIn(f, a, blk)) /\ LinkedByAddress(LinkIn(f, a, blk))
    BY <1>4, InsertKeepsOrder
  <2>2. DOMAIN LinkIn(f, a, blk) = DOMAIN f \union {a}
    BY <1>4, InsertKeepsOrder
  <2>3. SizeIs(LinkIn(f, a, blk), a, blk.size)
    BY <1>4, InsertKeepsOrder
  <2>4. \A x \in DOMAIN f : LinkIn(f, a, blk)[x].size = f[x].size
    BY <1>4, InsertKeepsOrder
  <2> QED BY <1>5, <2>1, <2>2, <2>3, <2>4 DEF SizeIs
<1>7. g[a].size = s /\ \A x \in D : g[x].size = f[x].size
  BY <1>2, <1>6
<1>8. \A x : x \in DOMAIN g <=> x \in D \/ x = a
  BY <1>6
<1>9. Apart(g)
  <2>1. \A x, y \in D : x # y => Beside(x, f[x].size, y, f[y].size)
    BY DEF Coalesced, Apart
  <2> HIDE DEF D
  <2> QED BY <1>3, <1>7, <1>8, <2>1 DEF Apart
<1>10. OnlyAround(g, a)
  <2>1. \A x, y \in D : ~Touch(f, x, y)
    BY DEF Coalesced
  <2>2. ASSUME NEW x \in D, NEW y \in D, Touch(g, x, y)
        PROVE  FALSE
    BY <1>7, <2>1, <2>2 DEF Touch
  <2> HIDE DEF D
  <2> QED BY <1>8, <2>2 DEF OnlyAround
<1>11. Cardinality(DOMAIN g) = Cardinality(DOMAIN f) + 1
  <2>1. IsFiniteSet(D) /\ a \notin D
    BY <1>4 DEF FreeList
  <2>2. Cardinality(D \union {a}) = Cardinality(D) + 1
    BY <2>1, FS_AddElement
  <2> QED BY <1>6, <2>2
<1>12. /\ IsFiniteSet(FreeBytes(g))
       /\ Cardinality(FreeBytes(g)) = Cardinality(FreeBytes(f)) + s
  <2>1. /\ \A x : x \in FreeBytes(f) <=> \E b \in D : x \in Payload(b, f[b].size)
        /\ \A x : x \in FreeBytes(g) <=> \E b \in DOMAIN g : x \in Payload(b, g[b].size)
    BY DEF FreeBytes
  <2>2. \A x : x \in FreeBytes(g) <=> x \in FreeBytes(f) \/ x \in Payload(a, s)
    <3> HIDE DEF D
    <3> QED BY <1>7, <1>8, <2>1
  <2>3. \A b \in D : \A x \in Payload(b, f[b].size) : x \notin Payload(a, s)
    BY <1>1, <1>3, PayloadsApart
  <2>4. FreeBytes(f) \intersect Payload(a, s) = {}
    <3> HIDE DEF D
    <3> QED BY <2>1, <2>3
  <2>5. FreeBytes(g) = FreeBytes(f) \union Payload(a, s)
    BY <2>2
  <2>6. PICK lo \in Nat : lo = a + Header
    BY <1>1
  <2>7. Payload(a, s) = lo..lo + s - 1
    BY <2>6 DEF Payload
  <2>8. FreeBytes(f) \intersect (lo..lo + s - 1) = {}
    BY <2>4, <2>7
  <2>80. FreeBytes(g) = FreeBytes(f) \union (lo..lo + s - 1)
    BY <2>5, <2>7
  <2>9. /\ IsFiniteSet(FreeBytes(f) \union (lo..lo + s - 1))
        /\ Cardinality(FreeBytes(f) \union (lo..lo + s - 1)) = Cardinality(FreeBytes(f)) + s
    BY <2>8, AddInterval
  <2> QED BY <2>80, <2>9
<1>13. ASSUME NEW x \in Nat
       PROVE  InFree(g, x) <=> InFree(f, x) \/ Within(x, a, s)
  <2>1. /\ InFree(g, x) <=> \E b \in DOMAIN g : Within(x, b, g[b].size)
        /\ InFree(f, x) <=> \E b \in D : Within(x, b, f[b].size)
    BY DEF InFree, Within
  <2> HIDE DEF D
  <2> QED BY <1>7, <1>8, <2>1
<1>14. ASSUME NEW b \in Nat, NEW t \in Nat, Clear(f, b, t), Beside(a, s, b, t)
       PROVE  Clear(g, b, t)
  <2>1. \A y \in D : Beside(y, f[y].size, b, t)
    BY <1>14 DEF Clear
  <2> HIDE DEF D
  <2> QED BY <1>7, <1>8, <1>14, <2>1 DEF Clear
<1>15. Inserted(f, g, a, s)
  BY <1>6, <1>9, <1>10, <1>11, <1>12, <1>13, <1>14 DEF Inserted
<1> QED
  BY <1>2, <1>4, <1>5, <1>15

\* The list after a release: m merges were made.
Released(f, g, a, size, m) ==
  /\ FreeList(g) /\ LinkedByAddress(g) /\ Coalesced(g)
  /\ Cardinality(DOMAIN g) = Cardinality(DOMAIN f) + 1 - m
  /\ IsFiniteSet(FreeBytes(g))
  /\ Cardinality(FreeBytes(g)) = Cardinality(FreeBytes(f)) + size + m * Header
  /\ \A x \in Nat : InFree(g, x) <=> InFree(f, x) \/ Within(x, a, size)
  /\ \A b, s \in Nat : Clear(f, b, s) /\ Beside(a, size, b, s) => Clear(g, b, s)

LEMMA ReleaseFact ==
  ASSUME MemoryAssumption, NEW f, FreeList(f), LinkedByAddress(f), Coalesced(f),
         IsFiniteSet(FreeBytes(f)), NEW a \in Nat \ {NULL}, NEW blk \in FreeBlock,
         IsNext(DOMAIN f, a, blk.next), IsPrev(DOMAIN f, a, blk.prev),
         Clear(f, a, blk.size), NEW h, IsNext(DOMAIN f, NULL, h)
  PROVE  \E m \in 0..2 :
           /\ Released(f, CombineNeighbor(LinkIn(f, a, blk), a), a, blk.size, m)
           /\ m = Cardinality(DOMAIN LinkIn(f, a, blk))
                    - Cardinality(DOMAIN CombineNeighbor(LinkIn(f, a, blk), a))
           /\ IsNext(DOMAIN CombineNeighbor(LinkIn(f, a, blk), a), NULL,
                     IF blk.prev = NULL THEN a ELSE h)
<1>1. PICK g : g = LinkIn(f, a, blk)
  OBVIOUS
<1>2. PICK s \in Nat : s = blk.size
  BY DEF FreeBlock
<1>3. Inserted(f, g, a, s)
  <2>1. Inserted(f, LinkIn(f, a, blk), a, blk.size)
    BY InsertFact
  <2> QED BY <1>1, <1>2, <2>1
<1>4. /\ FreeList(g) /\ LinkedByAddress(g) /\ Apart(g) /\ OnlyAround(g, a) /\ a \in DOMAIN g
      /\ IsFiniteSet(FreeBytes(g))
  BY <1>3 DEF Inserted
<1>5. PICK k : k = CombineNeighbor(g, a)
  OBVIOUS
<1>6. PICK m \in 0..2 : Merged(g, k, m) /\ Coalesced(k)
  <2>1. \E m \in 0..2 : /\ Merged(g, CombineNeighbor(g, a), m)
                        /\ Coalesced(CombineNeighbor(g, a))
    BY <1>4, CombineFact
  <2> QED BY <1>5, <2>1
<1>7. /\ Header \in Nat /\ Cardinality(DOMAIN f) \in Nat /\ Cardinality(FreeBytes(f)) \in Nat
      /\ Cardinality(DOMAIN g) \in Nat
  BY <1>4, PagesAre, FS_CardinalityType DEF FreeList
<1>8. /\ Cardinality(DOMAIN k) = Cardinality(DOMAIN f) + 1 - m
      /\ m = Cardinality(DOMAIN g) - Cardinality(DOMAIN k)
  <2>1. Cardinality(DOMAIN k) = Cardinality(DOMAIN g) - m
    BY <1>6 DEF Merged
  <2>2. Cardinality(DOMAIN g) = Cardinality(DOMAIN f) + 1
    BY <1>3 DEF Inserted
  <2>3. m = Cardinality(DOMAIN g) - (Cardinality(DOMAIN g) - m)
    BY <1>7
  <2>4. m = Cardinality(DOMAIN g) - Cardinality(DOMAIN k)
    BY <2>1, <2>3, Zenon
  <2>5. Cardinality(DOMAIN k) = Cardinality(DOMAIN f) + 1 - m
    <3>1. Cardinality(DOMAIN k) = (Cardinality(DOMAIN f) + 1) - m
      BY <2>1, <2>2, Zenon
    <3>2. (Cardinality(DOMAIN f) + 1) - m = Cardinality(DOMAIN f) + 1 - m
      BY <1>7
    <3> QED BY <3>1, <3>2, Zenon
  <2> QED BY <2>4, <2>5, Zenon
<1>9. /\ Cardinality(FreeBytes(k)) = Cardinality(FreeBytes(f)) + s + m * Header
      /\ IsFiniteSet(FreeBytes(k))
  <2>1. Cardinality(FreeBytes(k)) = Cardinality(FreeBytes(g)) + m * Header
    BY <1>6 DEF Merged
  <2>2. Cardinality(FreeBytes(g)) = Cardinality(FreeBytes(f)) + s
    BY <1>3 DEF Inserted
  <2>3. IsFiniteSet(FreeBytes(k))
    BY <1>6 DEF Merged
  <2> QED BY <2>1, <2>2, <2>3, Zenon
<1>10. \A x \in Nat : InFree(k, x) <=> InFree(f, x) \/ Within(x, a, s)
  <2>1. \A x \in Nat : InFree(k, x) <=> InFree(g, x)
    BY <1>6 DEF Merged
  <2>2. \A x \in Nat : InFree(g, x) <=> InFree(f, x) \/ Within(x, a, s)
    BY <1>3 DEF Inserted
  <2> QED BY <2>1, <2>2
<1>11. \A b, t \in Nat : Clear(f, b, t) /\ Beside(a, s, b, t) => Clear(k, b, t)
  <2>1. \A b, t \in Nat : Clear(g, b, t) => Clear(k, b, t)
    BY <1>6 DEF Merged
  <2>2. \A b, t \in Nat : Clear(f, b, t) /\ Beside(a, s, b, t) => Clear(g, b, t)
    BY <1>3 DEF Inserted
  <2> QED BY <2>1, <2>2
<1>12. Released(f, k, a, s, m)
  <2>1. FreeList(k) /\ LinkedByAddress(k) /\ Coalesced(k)
    BY <1>6 DEF Merged
  <2> QED BY <1>8, <1>9, <1>10, <1>11, <2>1 DEF Released
<1>13. IsNext(DOMAIN k, NULL, IF blk.prev = NULL THEN a ELSE h)
  <2>1. DOMAIN f \subseteq Nat \ {NULL}
    BY DEF FreeList
  <2>2. IsNext(DOMAIN f \union {a}, NULL, IF blk.prev = NULL THEN a ELSE h)
    BY <2>1, HeaderAfterInsert
  <2>3. DOMAIN g = DOMAIN f \union {a}
    BY <1>3 DEF Inserted
  <2>4. IsNext(DOMAIN g, NULL, IF blk.prev = NULL THEN a ELSE h)
    BY <2>2, <2>3
  <2>5. \A x : IsNext(DOMAIN g, NULL, x) => IsNext(DOMAIN k, NULL, x)
    BY <1>6 DEF Merged
  <2> QED BY <2>4, <2>5
<1> QED
  BY <1>1, <1>2, <1>5, <1>8, <1>12, <1>13

-----------------------------------------------------------------------------
(* Following the list.                                                      *)

\* The values that Nth[0], ..., Nth[n] must have.
Follows(g, n) ==
  /\ g \in [0..n -> DOMAIN free \union {NULL}]
  /\ g[0] = lpFreeBufferHeader
  /\ \A k \in 1..n : g[k] = IF g[k - 1] = NULL THEN NULL ELSE free[g[k - 1]].next

LEMMA NextIsBlock ==
  ASSUME BufferTypeOK, ListInOrder
  PROVE  /\ lpFreeBufferHeader \in DOMAIN free \union {NULL}
         /\ \A a \in DOMAIN free : free[a].next \in DOMAIN free \union {NULL}
<1>1. lpFreeBufferHeader \in DOMAIN free \union {NULL}
  BY DEF ListInOrder, IsNext
<1>2. ASSUME NEW a \in DOMAIN free
      PROVE  free[a].next \in DOMAIN free \union {NULL}
  <2>1. IsNext(DOMAIN free, a, free[a].next)
    BY DEF ListInOrder, LinkedByAddress
  <2> QED BY <2>1 DEF IsNext
<1> QED
  BY <1>1, <1>2

LEMMA FollowsFurther ==
  ASSUME BufferTypeOK, ListInOrder, NEW n \in Nat, NEW g, Follows(g, n)
  PROVE  \E h : Follows(h, n + 1)
<1> DEFINE V == DOMAIN free \union {NULL}
           last == IF g[n] = NULL THEN NULL ELSE free[g[n]].next
           h == [k \in 0..n + 1 |-> IF k = n + 1 THEN last ELSE g[k]]
<1>1. /\ g \in [0..n -> V] /\ g[0] = lpFreeBufferHeader
      /\ \A k \in 1..n : g[k] = IF g[k - 1] = NULL THEN NULL ELSE free[g[k - 1]].next
  BY DEF Follows
<1>2. last \in V
  <2>1. n \in 0..n
    OBVIOUS
  <2>2. g[n] \in V
    BY <1>1, <2>1
  <2> QED BY <2>2, NextIsBlock
<1> HIDE DEF V
<1>3. h \in [0..n + 1 -> V]
  <2>1. ASSUME NEW k \in 0..n + 1
        PROVE  (IF k = n + 1 THEN last ELSE g[k]) \in V
    <3>1. k # n + 1 => k \in 0..n
      OBVIOUS
    <3> HIDE DEF last
    <3> QED BY <1>1, <1>2, <3>1
  <2> HIDE DEF last
  <2> QED BY <2>1
<1>4. /\ h[n + 1] = last
      /\ \A k \in 0..n : h[k] = g[k]
  <2> HIDE DEF last
  <2>1. \A k \in 0..n : k \in 0..n + 1 /\ k # n + 1
    OBVIOUS
  <2>2. n + 1 \in 0..n + 1
    OBVIOUS
  <2> QED BY <2>1, <2>2
<1> HIDE DEF h
<1>5. h[0] = lpFreeBufferHeader
  BY <1>1, <1>4
<1>6. ASSUME NEW k \in 1..n + 1
      PROVE  h[k] = IF h[k - 1] = NULL THEN NULL ELSE free[h[k - 1]].next
  <2>1. CASE k = n + 1
    <3>1. h[k - 1] = g[n]
      BY <1>4, <2>1
    <3> QED BY <1>4, <2>1, <3>1
  <2>2. CASE k # n + 1
    <3>1. k \in 1..n /\ k \in 0..n /\ k - 1 \in 0..n
      BY <2>2
    <3>2. h[k] = g[k] /\ h[k - 1] = g[k - 1]
      BY <1>4, <3>1
    <3> QED BY <1>1, <3>1, <3>2
  <2> QED BY <2>1, <2>2
<1>7. Follows(h, n + 1)
  BY <1>3, <1>5, <1>6 DEF Follows, V
<1> QED
  BY <1>7

\* Nth is what its equation says: there is a function that satisfies it.
LEMMA NthFollows ==
  ASSUME BufferTypeOK, ListInOrder
  PROVE  Follows(Nth, Cardinality(DOMAIN free))
<1> DEFINE V == DOMAIN free \union {NULL}
           n == Cardinality(DOMAIN free)
           none == {k \in Nat : ~\E g : Follows(g, k)}
<1>1. n \in Nat
  BY FS_CardinalityType DEF BufferTypeOK, FreeList
<1> HIDE DEF n
<1>2. Follows([k \in 0..0 |-> lpFreeBufferHeader], 0)
  BY NextIsBlock DEF Follows
<1>3. ASSUME none # {}
      PROVE  FALSE
  <2>1. PICK m \in none : \A k \in none : m <= k
    BY <1>3, LeastNatural
  <2>2. m # 0
    BY <1>2, <2>1
  <2>3. m - 1 \in Nat /\ m - 1 \notin none
    BY <2>1, <2>2
  <2>4. PICK g : Follows(g, m - 1)
    BY <2>3
  <2>5. \E h : Follows(h, (m - 1) + 1)
    BY <2>3, <2>4, FollowsFurther
  <2>6. (m - 1) + 1 = m
    BY <2>1
  <2> QED BY <2>1, <2>5, <2>6
<1>4. PICK g : Follows(g, n)
  BY <1>1, <1>3
<1>5. g = [k \in 0..n |-> IF k = 0 THEN lpFreeBufferHeader
                          ELSE IF g[k - 1] = NULL THEN NULL ELSE free[g[k - 1]].next]
  <2>1. g \in [0..n -> V] /\ g[0] = lpFreeBufferHeader
    BY <1>4 DEF Follows
  <2>2. ASSUME NEW k \in 0..n
        PROVE  g[k] = IF k = 0 THEN lpFreeBufferHeader
                      ELSE IF g[k - 1] = NULL THEN NULL ELSE free[g[k - 1]].next
    <3>1. CASE k = 0
      BY <2>1, <3>1
    <3>2. CASE k # 0
      <4>1. k \in 1..n
        BY <3>2
      <4> QED BY <1>4, <3>2, <4>1 DEF Follows
    <3> QED BY <3>1, <3>2
  <2> QED BY <2>1, <2>2
<1>6. Nth = [k \in 0..n |-> IF k = 0 THEN lpFreeBufferHeader
                            ELSE IF Nth[k - 1] = NULL THEN NULL ELSE free[Nth[k - 1]].next]
  BY <1>5 DEF Nth, n
<1>7. /\ Nth[0] = lpFreeBufferHeader
      /\ \A k \in 1..n : Nth[k] = IF Nth[k - 1] = NULL THEN NULL ELSE free[Nth[k - 1]].next
  <2>1. 0 \in 0..n
    BY <1>1
  <2>2. \A k \in 1..n : k \in 0..n /\ k # 0
    BY <1>1
  <2> QED BY <1>6, <2>1, <2>2
<1>8. \A k \in 0..n : Nth[k] \in V
  <2> DEFINE bad == {k \in 0..n : Nth[k] \notin V}
  <2> SUFFICES ASSUME bad # {}
               PROVE  FALSE
    OBVIOUS
  <2>1. bad \subseteq Nat
    BY <1>1
  <2>2. PICK k \in bad : \A j \in bad : k <= j
    <3> HIDE DEF bad
    <3> QED BY <2>1, LeastNatural
  <2>3. k # 0
    BY <1>7, <2>2, NextIsBlock
  <2>4. k \in 1..n /\ k - 1 \in 0..n /\ ~(k <= k - 1)
    BY <1>1, <2>2, <2>3
  <2>5. Nth[k - 1] \in V
    BY <2>2, <2>4
  <2>6. Nth[k] \in V
    BY <1>7, <2>4, <2>5, NextIsBlock
  <2> QED BY <2>2, <2>6
<1>9. Nth \in [0..n -> V]
  <2>1. \E e : Nth = [k \in 0..n |-> e[k]]
    <3>1. PICK e : e = [k \in 0..n |-> IF k = 0 THEN lpFreeBufferHeader
                            ELSE IF Nth[k - 1] = NULL THEN NULL ELSE free[Nth[k - 1]].next]
      OBVIOUS
    <3>2. e = [k \in 0..n |-> e[k]]
      BY <3>1
    <3> QED BY <1>6, <3>1, <3>2
  <2> QED BY <1>8, <2>1
<1> QED
  BY <1>7, <1>9 DEF Follows, n

\* The first k elements rise and are all blocks below the one at k.
InOrderTo(k) ==
  /\ \A j \in 0..k - 1 : Nth[k] # NULL => Nth[j] # NULL /\ Nth[j] < Nth[k]
  /\ \A b \in DOMAIN free :
       Nth[k] = NULL \/ b < Nth[k] => \E j \in 0..k - 1 : Nth[j] = b

LEMMA NthInOrder ==
  ASSUME BufferTypeOK, ListInOrder
  PROVE  \A k \in 0..Cardinality(DOMAIN free) : InOrderTo(k)
<1> DEFINE D == DOMAIN free
           n == Cardinality(DOMAIN free)
           bad == {k \in 0..n : ~InOrderTo(k)}
<1>1. /\ n \in Nat /\ D \subseteq Nat \ {NULL}
      /\ \A b \in D : b \in Nat /\ b # NULL /\ NULL < b
  BY FS_CardinalityType DEF BufferTypeOK, FreeList, NULL
<1>2. /\ Nth \in [0..n -> D \union {NULL}]
      /\ Nth[0] = lpFreeBufferHeader
      /\ \A k \in 1..n : Nth[k] = IF Nth[k - 1] = NULL THEN NULL ELSE free[Nth[k - 1]].next
  BY NthFollows DEF Follows
<1>3. \A a \in D : IsNext(D, a, free[a].next)
  BY DEF ListInOrder, LinkedByAddress
<1> HIDE DEF D, n
<1>4. InOrderTo(0)
  <2>1. IsNext(D, NULL, Nth[0])
    BY <1>2 DEF ListInOrder, D
  <2>2. \A b \in D : ~(Nth[0] = NULL \/ b < Nth[0])
    BY <1>1, <2>1 DEF IsNext
  <2>3. 0..0 - 1 = {}
    OBVIOUS
  <2> QED BY <2>2, <2>3 DEF InOrderTo, D
<1>5. ASSUME bad # {}
      PROVE  FALSE
  <2>0. bad \subseteq Nat
    BY <1>1
  <2>1. PICK k \in bad : \A j \in bad : k <= j
    <3> HIDE DEF bad
    <3> QED BY <1>5, <2>0, LeastNatural
  <2>2. k \in 0..n /\ ~InOrderTo(k) /\ k \in Nat
    BY <1>1, <2>1
  <2>3. k # 0
    BY <1>4, <2>2
  <2>4. PICK i \in Nat : k = i + 1
    BY <2>2, <2>3
  <2>5. k \in 1..n /\ i \in 0..n /\ ~(k <= i) /\ k - 1 = i
    BY <1>1, <2>2, <2>4
  <2>6. InOrderTo(i)
    BY <2>1, <2>5
  <2>7. /\ \A j \in 0..i - 1 : Nth[i] # NULL => Nth[j] # NULL /\ Nth[j] < Nth[i]
        /\ \A b \in D :
             Nth[i] = NULL \/ b < Nth[i] => \E j \in 0..i - 1 : Nth[j] = b
    BY <2>6 DEF InOrderTo, D
  <2>8. Nth[k] = IF Nth[i] = NULL THEN NULL ELSE free[Nth[i]].next
    BY <1>2, <2>5
  <2>9. \A j : j \in 0..k - 1 <=> j \in 0..i - 1 \/ j = i
    BY <2>4
  <2>10. \A j \in 0..i : Nth[j] \in D \union {NULL}
    <3>1. \A j \in 0..i : j \in 0..n
      BY <1>1, <2>5
    <3> QED BY <1>2, <3>1
  <2>11. CASE Nth[i] = NULL
    <3>1. Nth[k] = NULL
      BY <2>8, <2>11
    <3>2. \A b \in D : \E j \in 0..k - 1 : Nth[j] = b
      BY <2>7, <2>9, <2>11
    <3> QED BY <2>2, <3>1, <3>2 DEF InOrderTo, D
  <2>12. CASE Nth[i] # NULL
    <3>1. PICK a \in D : a = Nth[i]
      BY <2>10, <2>12
    <3>2. IsNext(D, a, Nth[k])
      BY <1>3, <2>8, <2>12, <3>1
    <3>3. ASSUME NEW j \in 0..k - 1, Nth[k] # NULL
          PROVE  Nth[j] # NULL /\ Nth[j] < Nth[k]
      <4>1. a < Nth[k] /\ Nth[k] \in D
        BY <3>2, <3>3 DEF IsNext
      <4>2. CASE j = i
        BY <2>12, <3>1, <4>1, <4>2
      <4>3. CASE j \in 0..i - 1
        <5>1. Nth[j] # NULL /\ Nth[j] < a /\ Nth[j] \in D
          BY <2>7, <2>10, <2>12, <3>1, <4>3
        <5>2. Nth[j] \in Nat /\ a \in Nat /\ Nth[k] \in Nat
          BY <1>1, <4>1, <5>1
        <5>3. PICK x \in Nat, y \in Nat : x = Nth[j] /\ y = Nth[k]
          BY <5>2
        <5>4. x < a /\ a < y
          BY <4>1, <5>1, <5>3
        <5>5. x < y
          BY <5>2, <5>4
        <5> QED BY <5>1, <5>3, <5>5
      <4> QED BY <2>9, <4>2, <4>3
    <3>4. ASSUME NEW b \in D, Nth[k] = NULL \/ b < Nth[k]
          PROVE  \E j \in 0..k - 1 : Nth[j] = b
      <4>1. ~(a < b)
        BY <3>2, <3>4 DEF IsNext
      <4>2. b = a \/ b < a
        BY <1>1, <4>1
      <4> QED BY <2>7, <2>9, <3>1, <4>2
    <3> QED BY <2>2, <3>3, <3>4 DEF InOrderTo, D
  <2> QED BY <2>11, <2>12
<1> QED
  BY <1>5 DEF n

\* The list ends where it should: it cannot hold more blocks than there are.
LEMMA NthEnds ==
  ASSUME BufferTypeOK, ListInOrder
  PROVE  Nth[Cardinality(DOMAIN free)] = NULL
<1> DEFINE D == DOMAIN free
           n == Cardinality(DOMAIN free)
<1>1. n \in Nat /\ IsFiniteSet(D) /\ D \subseteq Nat
  BY FS_CardinalityType DEF BufferTypeOK, FreeList
<1>2. Nth \in [0..n -> D \union {NULL}]
  BY NthFollows DEF Follows
<1>3. InOrderTo(n) /\ \A k \in 0..n : InOrderTo(k)
  BY <1>1, NthInOrder
<1>4. Cardinality(D) = n
  OBVIOUS
<1> HIDE DEF D, n
<1>5. SUFFICES ASSUME Nth[n] # NULL
               PROVE  FALSE
  BY DEF n
<1>6. \A j \in 0..n : Nth[j] # NULL
  <2>1. \A j \in 0..n - 1 : Nth[j] # NULL
    BY <1>3, <1>5 DEF InOrderTo
  <2>2. \A j \in 0..n : j \in 0..n - 1 \/ j = n
    BY <1>1
  <2> QED BY <1>5, <2>1, <2>2
<1>7. Nth \in [0..n -> D]
  <2>1. \A j \in 0..n : Nth[j] \in D
    BY <1>2, <1>6
  <2> QED BY <1>2, <2>1
<1>8. /\ IsFiniteSet(0..n)
      /\ Cardinality(D) < Cardinality(0..n)
  <2>1. IsFiniteSet(0..n) /\ Cardinality(0..n) = IF 0 > n THEN 0 ELSE n - 0 + 1
    <3>1. 0 \in Int /\ n \in Int
      BY <1>1
    <3> QED BY <3>1, FS_Interval
  <2>2. Cardinality(0..n) = n + 1
    BY <1>1, <2>1
  <2> QED BY <1>1, <1>4, <2>1, <2>2
<1>9. PICK i \in 0..n, j \in 0..n : i # j /\ Nth[i] = Nth[j]
  BY <1>1, <1>7, <1>8, FS_PigeonHole
<1>10. ASSUME NEW x \in 0..n, NEW y \in 0..n, x < y
       PROVE  Nth[x] # Nth[y]
  <2>1. x \in 0..y - 1
    BY <1>1, <1>10
  <2>2. Nth[x] < Nth[y]
    BY <1>3, <1>6, <2>1 DEF InOrderTo
  <2>3. Nth[x] \in Nat /\ Nth[y] \in Nat
    BY <1>1, <1>7
  <2> QED BY <2>2, <2>3
<1>11. i < j \/ j < i
  BY <1>1, <1>9
<1> QED
  BY <1>9, <1>10, <1>11

LEMMA NthReachesAll ==
  ASSUME BufferTypeOK, ListInOrder
  PROVE  {Nth[k] : k \in DOMAIN Nth} \ {NULL} = DOMAIN free
<1> DEFINE D == DOMAIN free
           n == Cardinality(DOMAIN free)
<1>1. n \in Nat /\ \A b \in D : b # NULL
  BY FS_CardinalityType DEF BufferTypeOK, FreeList
<1>2. Nth \in [0..n -> D \union {NULL}]
  BY NthFollows DEF Follows
<1>3. \A b \in D : \E j \in 0..n - 1 : Nth[j] = b
  <2>1. InOrderTo(n)
    BY <1>1, NthInOrder
  <2> QED BY <2>1, NthEnds DEF InOrderTo
<1>4. \A j \in 0..n - 1 : j \in 0..n
  BY <1>1
<1> HIDE DEF n
<1> QED
  BY <1>1, <1>2, <1>3, <1>4

\* The neighbours that ReleaseAndCombine finds are those by address.
LEMMA PositionFact ==
  ASSUME BufferTypeOK, ListInOrder, NEW a \in Nat \ {NULL}, a \notin DOMAIN free
  PROVE  /\ Position(a) \in DOMAIN Nth /\ Position(a) \in Nat
         /\ IsNext(DOMAIN free, a, Nth[Position(a)])
         /\ Position(a) = 0 => IsPrev(DOMAIN free, a, NULL)
         /\ Position(a) # 0 => /\ IsPrev(DOMAIN free, a, Nth[Position(a) - 1])
                               /\ Nth[Position(a) - 1] # NULL
<1> DEFINE D == DOMAIN free
           n == Cardinality(DOMAIN free)
           at == Position(a)
           ends == {k \in DOMAIN Nth : Nth[k] = NULL \/ Nth[k] > a}
<1>1. /\ n \in Nat /\ D \subseteq Nat \ {NULL} /\ a \in Nat
      /\ \A b \in D : b \in Nat /\ b # NULL /\ b # a
  BY FS_CardinalityType DEF BufferTypeOK, FreeList
<1>2. Nth \in [0..n -> D \union {NULL}]
  BY NthFollows DEF Follows
<1>3. at \in ends /\ \A k \in ends : at <= k
  <2>1. n \in ends
    BY <1>1, <1>2, NthEnds
  <2>2. ends \subseteq Nat
    BY <1>2
  <2>3. at = Min(ends)
    BY DEF Position
  <2> HIDE DEF ends, at
  <2> QED BY <2>1, <2>2, <2>3, MinIs
<1>4. /\ at \in 0..n /\ at \in Nat /\ at \in DOMAIN Nth
      /\ Nth[at] = NULL \/ a < Nth[at]
      /\ Nth[at] \in D \union {NULL}
  BY <1>1, <1>2, <1>3
<1>5. ASSUME NEW j \in 0..at - 1
      PROVE  Nth[j] \in D /\ Nth[j] # NULL /\ Nth[j] < a
  <2>1. j \in 0..n /\ ~(at <= j)
    BY <1>1, <1>4
  <2>2. j \notin ends
    BY <1>3, <2>1
  <2>3. Nth[j] # NULL /\ ~(Nth[j] > a)
    BY <1>2, <2>1, <2>2
  <2>4. Nth[j] \in D
    BY <1>2, <2>1, <2>3
  <2> QED BY <1>1, <2>3, <2>4
<1>6. InOrderTo(at)
  BY <1>4, NthInOrder
<1>7. \A b \in D : Nth[at] = NULL \/ b < Nth[at] => \E j \in 0..at - 1 : Nth[j] = b
  BY <1>6 DEF InOrderTo
<1> HIDE DEF D, n, at, ends
<1>8. IsNext(D, a, Nth[at])
  <2>1. ASSUME NEW b \in D, a < b, Nth[at] = NULL \/ b < Nth[at]
        PROVE  FALSE
    <3>1. PICK j \in 0..at - 1 : Nth[j] = b
      BY <1>7, <2>1
    <3> QED BY <1>1, <1>5, <2>1, <3>1
  <2> QED BY <1>4, <2>1 DEF IsNext
<1>9. \A b \in D : b < a => \E j \in 0..at - 1 : Nth[j] = b
  <2>1. ASSUME NEW b \in D, b < a
        PROVE  Nth[at] = NULL \/ b < Nth[at]
    <3>1. CASE Nth[at] # NULL
      <4>1. PICK y \in Nat : y = Nth[at] /\ a < y
        BY <1>1, <1>4, <3>1
      <4>2. b < y
        BY <1>1, <2>1, <4>1
      <4> QED BY <4>1, <4>2
    <3> QED BY <3>1
  <2> QED BY <1>7, <2>1
<1>10. ASSUME at = 0
       PROVE  IsPrev(D, a, NULL)
  <2>1. 0..at - 1 = {}
    BY <1>10
  <2> QED BY <1>9, <2>1 DEF IsPrev
<1>11. ASSUME at # 0
       PROVE  IsPrev(D, a, Nth[at - 1]) /\ Nth[at - 1] # NULL
  <2>1. PICK i \in Nat : at = i + 1
    BY <1>4, <1>11
  <2>2. i \in 0..at - 1 /\ at - 1 = i /\ i \in 0..n
    BY <1>1, <1>4, <2>1
  <2>3. Nth[i] \in D /\ Nth[i] # NULL /\ Nth[i] < a
    BY <1>5, <2>2
  <2>4. InOrderTo(i)
    BY <2>2, NthInOrder DEF n
  <2>5. \A j \in 0..i - 1 : Nth[j] < Nth[i]
    BY <2>3, <2>4 DEF InOrderTo
  <2>6. \A j \in 0..at - 1 : j = i \/ j \in 0..i - 1
    BY <2>1
  <2>7. ASSUME NEW b \in D, b < a, Nth[i] < b
        PROVE  FALSE
    <3>1. PICK j \in 0..at - 1 : Nth[j] = b
      BY <1>9, <2>7
    <3>2. b = Nth[i] \/ b < Nth[i]
      BY <2>5, <2>6, <3>1
    <3>3. PICK p \in Nat : p = Nth[i]
      BY <1>1, <2>3
    <3>4. p < b /\ (b = p \/ b < p)
      BY <2>7, <3>2, <3>3
    <3> QED BY <1>1, <3>3, <3>4
  <2>8. IsPrev(D, a, Nth[i])
    BY <2>3, <2>7 DEF IsPrev
  <2> QED BY <2>2, <2>3, <2>8
<1> QED
  BY <1>4, <1>8, <1>10, <1>11 DEF at, D

LEMMA FirstFitFact ==
  ASSUME BufferTypeOK, ListInOrder, NEW size \in Nat, FirstFit(size) # NULL
  PROVE  FirstFit(size) \in DOMAIN free /\ free[FirstFit(size)].size >= size
<1> DEFINE fit == {k \in DOMAIN Nth : Nth[k] # NULL /\ free[Nth[k]].size >= size}
           n   == Cardinality(DOMAIN free)
<1>1. FirstFit(size) = IF fit = {} THEN NULL ELSE Nth[Min(fit)]
  BY DEF FirstFit
<1>2. Nth \in [0..n -> DOMAIN free \union {NULL}]
  BY NthFollows DEF Follows
<1>3. fit \subseteq Nat
  BY <1>2
<1>4. fit # {}
  BY <1>1
<1>5. Min(fit) \in fit
  <2> HIDE DEF fit
  <2> QED BY <1>3, <1>4, MinIs
<1>6. PICK k \in fit : k = Min(fit)
  BY <1>5
<1>7. FirstFit(size) = Nth[k]
  BY <1>1, <1>4, <1>6
<1>8. Nth[k] \in DOMAIN free /\ free[Nth[k]].size >= size
  BY <1>2
<1> QED
  BY <1>7, <1>8

-----------------------------------------------------------------------------
(* A release, and a region that comes in.                                   *)

LEMMA ClearOutside ==
  ASSUME MemoryAssumption, NEW f, FreeList(f), NEW a \in Nat, NEW s \in Nat, Clear(f, a, s)
  PROVE  a \notin DOMAIN f
<1>1. Header \in Nat /\ Header > 0
  BY PagesAre
<1>2. ASSUME a \in DOMAIN f
      PROVE  FALSE
  <2>1. PICK t \in Nat : t = f[a].size
    BY <1>2, FreeListFact
  <2>2. a + t + Header <= a \/ a + s + Header <= a
    BY <1>2, <2>1 DEF Clear, Beside
  <2> QED BY <1>1, <2>2
<1> QED
  BY <1>2

\* The part of the invariant that a block coming free leads from and to.
ListIInv ==
  /\ lpFreeBufferHeader \in Nat /\ FreeList(free)
  /\ dwFreeSize \in Nat /\ dwFreeBlocks \in Nat
  /\ ListInOrder /\ Coalesced(free) /\ CountsExact

\* All of ReleaseAndCombine: whatever merges were made, the counters and the
\* list are as they should be.
LEMMA ReleasePreserves ==
  ASSUME MemoryAssumption, BufferTypeOK, ListInOrder, Coalesced(free), CountsExact,
         NEW a \in Nat \ {NULL}, NEW size \in Nat, Clear(free, a, size),
         ReleaseAndCombine(a, size)
  PROVE  /\ ListIInv'
         /\ \A x \in Nat : InFree(free', x) <=> InFree(free, x) \/ Within(x, a, size)
         /\ \A b, s \in Nat : Clear(free, b, s) /\ Beside(a, size, b, s) => Clear(free', b, s)
<1> DEFINE at  == Position(a)
           blk == [size |-> size, next |-> Nth[at],
                   prev |-> IF at = 0 THEN NULL ELSE Nth[at - 1]]
           L == LinkIn(free, a, blk)
           merges == Cardinality(DOMAIN L) - Cardinality(DOMAIN CombineNeighbor(L, a))
<1>1. /\ free' = CombineNeighbor(L, a)
      /\ lpFreeBufferHeader' = IF at = 0 THEN a ELSE lpFreeBufferHeader
      /\ dwFreeSize' = dwFreeSize + Gained(size, merges)
      /\ dwFreeBlocks' = dwFreeBlocks + 1 - merges
  BY DEF ReleaseAndCombine
<1>2. /\ FreeList(free) /\ LinkedByAddress(free) /\ IsNext(DOMAIN free, NULL, lpFreeBufferHeader)
      /\ IsFiniteSet(FreeBytes(free)) /\ dwFreeSize = Cardinality(FreeBytes(free))
      /\ dwFreeBlocks = Cardinality(DOMAIN free) /\ lpFreeBufferHeader \in Nat
  BY DEF BufferTypeOK, ListInOrder, CountsExact
<1>3. a \notin DOMAIN free
  BY <1>2, ClearOutside
<1>4. /\ at \in DOMAIN Nth /\ at \in Nat
      /\ IsNext(DOMAIN free, a, Nth[at])
      /\ at = 0 => IsPrev(DOMAIN free, a, NULL)
      /\ at # 0 => IsPrev(DOMAIN free, a, Nth[at - 1]) /\ Nth[at - 1] # NULL
  BY <1>3, PositionFact
<1> HIDE DEF at
<1>5. /\ blk.size = size
      /\ IsNext(DOMAIN free, a, blk.next) /\ IsPrev(DOMAIN free, a, blk.prev)
      /\ blk.prev = NULL <=> at = 0
  BY <1>4
<1>6. blk \in FreeBlock
  <2>1. blk.next \in Nat /\ blk.prev \in Nat
    BY <1>2, <1>5 DEF IsNext, IsPrev, FreeList, NULL
  <2>2. blk = [size |-> size, next |-> blk.next, prev |-> blk.prev]
    OBVIOUS
  <2>3. [size |-> size, next |-> blk.next, prev |-> blk.prev] \in FreeBlock
    <3> HIDE DEF blk
    <3> QED BY <2>1 DEF FreeBlock
  <2> QED BY <2>2, <2>3, Zenon
<1> HIDE DEF blk
<1>7. Clear(free, a, blk.size)
  BY <1>5
<1>8. PICK m \in 0..2 :
           /\ Released(free, CombineNeighbor(LinkIn(free, a, blk), a), a, blk.size, m)
           /\ m = Cardinality(DOMAIN LinkIn(free, a, blk))
                    - Cardinality(DOMAIN CombineNeighbor(LinkIn(free, a, blk), a))
           /\ IsNext(DOMAIN CombineNeighbor(LinkIn(free, a, blk), a), NULL,
                     IF blk.prev = NULL THEN a ELSE lpFreeBufferHeader)
  BY <1>2, <1>5, <1>6, <1>7, ReleaseFact
<1>9. /\ Released(free, free', a, size, m) /\ merges = m
      /\ IsNext(DOMAIN free', NULL, lpFreeBufferHeader')
  <2>1. lpFreeBufferHeader' = IF blk.prev = NULL THEN a ELSE lpFreeBufferHeader
    BY <1>1, <1>5
  <2>2. m = merges
    BY <1>8
  <2>3. Released(free, free', a, size, m)
    BY <1>1, <1>5, <1>8
  <2>4. IsNext(DOMAIN free', NULL, IF blk.prev = NULL THEN a ELSE lpFreeBufferHeader)
    BY <1>1, <1>8
  <2> QED BY <2>1, <2>2, <2>3, <2>4
<1> HIDE DEF merges, L
<1>10. /\ Header \in Nat /\ dwFreeSize \in Nat /\ dwFreeBlocks \in Nat
  BY PagesAre DEF BufferTypeOK
<1>11. /\ dwFreeBlocks' = Cardinality(DOMAIN free')
       /\ dwFreeSize' = Cardinality(FreeBytes(free'))
  <2>1. /\ Cardinality(DOMAIN free') = Cardinality(DOMAIN free) + 1 - m
        /\ Cardinality(FreeBytes(free')) = Cardinality(FreeBytes(free)) + size + m * Header
    BY <1>9 DEF Released
  <2>2. dwFreeBlocks' = Cardinality(DOMAIN free) + 1 - m
    BY <1>1, <1>2, <1>9
  <2>3. dwFreeSize' = dwFreeSize + (size + m * Header)
    BY <1>1, <1>9 DEF Gained
  <2>4. dwFreeSize + (size + m * Header) = dwFreeSize + size + m * Header
    BY <1>10
  <2>5. dwFreeSize' = Cardinality(FreeBytes(free)) + size + m * Header
    BY <1>2, <2>3, <2>4
  <2> QED BY <2>1, <2>2, <2>5, Zenon
<1>12. /\ FreeList(free') /\ LinkedByAddress(free') /\ Coalesced(free')
       /\ IsFiniteSet(FreeBytes(free'))
       /\ \A x \in Nat : InFree(free', x) <=> InFree(free, x) \/ Within(x, a, size)
       /\ \A b, s \in Nat : Clear(free, b, s) /\ Beside(a, size, b, s) => Clear(free', b, s)
  BY <1>9 DEF Released
<1>13. dwFreeBlocks' \in Nat /\ dwFreeSize' \in Nat
  BY <1>11, <1>12, FS_CardinalityType DEF FreeList
<1>14. lpFreeBufferHeader' \in Nat
  BY <1>1, <1>2
<1>15. ListInOrder' /\ CountsExact'
  BY <1>9, <1>11, <1>12 DEF ListInOrder, CountsExact
<1> QED
  BY <1>12, <1>13, <1>14, <1>15 DEF ListIInv

LEMMA KMemFreePreserves ==
  ASSUME MemoryAssumption, BufferIInv, NEW a \in DOMAIN used, KMemFree(a)
  PROVE  BufferIInv'
<1>1. /\ ReleaseAndCombine(a, used[a]) /\ used' = Without(used, a) /\ appended' = appended
  BY DEF KMemFree
<1>2. /\ BufferTypeOK /\ ListInOrder /\ Coalesced(free) /\ CountsExact
      /\ \A b \in DOMAIN used : b \in Nat \ {NULL} /\ b \in Nat /\ used[b] \in Nat
      /\ Clear(free, a, used[a])
  BY DEF BufferIInv, BufferTypeOK, BlocksApart
<1>3. /\ ListIInv'
      /\ \A x \in Nat : InFree(free', x) <=> InFree(free, x) \/ Within(x, a, used[a])
      /\ \A b, s \in Nat : Clear(free, b, s) /\ Beside(a, used[a], b, s) => Clear(free', b, s)
  BY <1>1, <1>2, ReleasePreserves
<1>4. /\ used' \in [DOMAIN used \ {a} -> Nat]
      /\ DOMAIN used' = DOMAIN used \ {a}
      /\ \A b \in DOMAIN used \ {a} : used'[b] = used[b]
  <2>1. used \in [DOMAIN used -> Nat]
    BY <1>2 DEF BufferTypeOK
  <2>2. Without(used, a) \in [DOMAIN used \ {a} -> Nat]
    BY <2>1, WithoutFact
  <2>3. \A b \in DOMAIN used \ {a} : Without(used, a)[b] = used[b]
    BY WithoutValues
  <2> QED BY <1>1, <2>2, <2>3
<1>5. BufferTypeOK'
  BY <1>1, <1>2, <1>3, <1>4 DEF ListIInv, BufferTypeOK
<1>6. BlocksApart'
  <2>1. ASSUME NEW b \in DOMAIN used', NEW c \in DOMAIN used', b # c
        PROVE  Beside(b, used'[b], c, used'[c])
    BY <1>4, <2>1 DEF BufferIInv, BlocksApart
  <2>2. ASSUME NEW b \in DOMAIN used'
        PROVE  Clear(free', b, used'[b])
    <3>1. b \in DOMAIN used /\ b # a /\ used'[b] = used[b] /\ used[b] \in Nat /\ b \in Nat
      BY <1>2, <1>4
    <3>2. Clear(free, b, used[b]) /\ Beside(a, used[a], b, used[b])
      BY <3>1 DEF BufferIInv, BlocksApart
    <3> QED BY <1>3, <3>1, <3>2
  <2> QED BY <1>3, <2>1, <2>2 DEF BlocksApart, ListIInv
<1>7. RegionsCovered'
  <2> SUFFICES ASSUME NEW x \in Nat
               PROVE  InFree(free', x) \/ InUsed(used', x) <=> \E i \in 1..appended' : InRegion(i, x)
    BY DEF RegionsCovered
  <2>1. InFree(free, x) \/ InUsed(used, x) <=> \E i \in 1..appended : InRegion(i, x)
    BY DEF BufferIInv, RegionsCovered
  <2>2. InUsed(used, x) <=> InUsed(used', x) \/ Within(x, a, used[a])
    <3>1. /\ InUsed(used, x) <=> \E b \in DOMAIN used : Within(x, b, used[b])
          /\ InUsed(used', x) <=> \E b \in DOMAIN used' : Within(x, b, used'[b])
      BY DEF InUsed, Within
    <3> QED BY <1>4, <3>1
  <2> QED BY <1>1, <1>3, <2>1, <2>2
<1> QED
  BY <1>3, <1>5, <1>6, <1>7 DEF BufferIInv, ListIInv

\* Two blocks that share no address are beside each other.
LEMMA BesideIf ==
  ASSUME NEW a \in Nat, NEW s \in Nat, NEW b \in Nat, NEW t \in Nat, Header \in Nat, Header > 0,
         ~(Within(a, b, t)), ~(Within(b, a, s))
  PROVE  Beside(a, s, b, t)
  BY DEF Within, Beside

LEMMA AppendPreserves ==
  ASSUME MemoryAssumption, BufferIInv, AppendBuffer
  PROVE  BufferIInv'
<1> DEFINE r == Regions[appended + 1]
<1>1. /\ appended \in 1..Len(Regions) /\ appended < Len(Regions) /\ appended \in Nat
      /\ appended' = appended + 1 /\ used' = used
  BY DEF AppendBuffer, BufferIInv, BufferTypeOK
<1>2. /\ Header \in Nat /\ Header > 0 /\ MinBuffer \in Nat
      /\ \A i \in 1..Len(Regions) : /\ Regions[i].start \in Nat \ {NULL} /\ Regions[i].size \in Nat
                                    /\ i \in DOMAIN Regions
  <2> DEFINE Extents == [start : Nat \ {NULL}, size : Nat]
  <2>1. Regions \in Seq(Extents)
    BY DEF MemoryAssumption
  <2>2. \A i \in 1..Len(Regions) : Regions[i] \in Extents /\ i \in DOMAIN Regions
    <3> HIDE DEF Extents
    <3> QED BY <2>1
  <2>3. \A q \in Extents : q.start \in Nat \ {NULL} /\ q.size \in Nat
    OBVIOUS
  <2> HIDE DEF Extents
  <2> QED BY <2>2, <2>3, PagesAre
<1>3. /\ appended + 1 \in 1..Len(Regions)
      /\ r.start \in Nat \ {NULL} /\ r.start \in Nat /\ r.size \in Nat
  BY <1>1, <1>2
<1>4. /\ BufferTypeOK /\ ListInOrder /\ Coalesced(free) /\ CountsExact
      /\ \A b \in DOMAIN used : b \in Nat /\ used[b] \in Nat
      /\ \A b \in DOMAIN free : b \in Nat /\ free[b].size \in Nat
  BY FreeListFact DEF BufferIInv, BufferTypeOK, BlocksApart
<1>5. \A i : i \in 1..appended + 1 <=> i \in 1..appended \/ i = appended + 1
  BY <1>1
<1>6. CASE r.size < Header + MinBuffer
  <2>1. UNCHANGED <<lpFreeBufferHeader, free, dwFreeSize, dwFreeBlocks>>
    BY <1>6 DEF AppendBuffer
  <2>2. \A x : ~InRegion(appended + 1, x)
    BY <1>1, <1>2, <1>3, <1>6, SMTT(60) DEF InRegion
  <2>3. RegionsCovered'
    <3>1. \A x : (\E i \in 1..appended + 1 : InRegion(i, x)) <=> \E i \in 1..appended : InRegion(i, x)
      BY <1>5, <2>2
    <3> QED BY <1>1, <2>1, <3>1 DEF BufferIInv, RegionsCovered
  <2>4. BufferTypeOK'
    BY <1>1, <1>3, <1>4, <2>1 DEF BufferTypeOK
  <2>5. ListInOrder' /\ BlocksApart' /\ CountsExact'
    BY <1>1, <2>1 DEF BufferIInv, ListInOrder, BlocksApart, CountsExact
  <2> QED BY <2>3, <2>4, <2>5 DEF BufferIInv
<1>7. CASE ~(r.size < Header + MinBuffer)
  <2>1. PICK a \in Nat \ {NULL}, size \in Nat : a = r.start /\ size = r.size - Header
    BY <1>2, <1>3, <1>7
  <2>2. ReleaseAndCombine(a, size)
    BY <1>7, <2>1 DEF AppendBuffer
  <2>3. \A x \in Nat : InRegion(appended + 1, x) <=> Within(x, a, size)
    <3>1. a + size + Header = r.start + r.size
      <4>1. PICK n \in Nat : n = r.size
        BY <1>3
      <4>2. a + (n - Header) + Header = a + n
        BY <1>2
      <4> QED BY <2>1, <4>1, <4>2
    <3>2. Regions[appended + 1].size >= Header + MinBuffer
      BY <1>2, <1>3, <1>7
    <3> QED BY <2>1, <3>1, <3>2 DEF InRegion, Within
  \* No address of the new region belongs to one that is in the list already.
  <2>4. ASSUME NEW x \in Nat, NEW i \in 1..appended, InRegion(i, x), Within(x, a, size)
        PROVE  FALSE
    <3>1. i \in 1..Len(Regions) /\ i # appended + 1
      BY <1>1, SMTT(60)
    <3>2. /\ i \in DOMAIN Regions /\ appended + 1 \in DOMAIN Regions
          /\ Regions[i].start \in Nat /\ Regions[i].size \in Nat
      BY <1>2, <1>3, <3>1
    <3>3. (Regions[i].start..Regions[i].start + Regions[i].size - 1)
            \intersect (r.start..r.start + r.size - 1) = {}
      BY <3>1, <3>2 DEF MemoryAssumption
    <3>4. x \in Regions[i].start..Regions[i].start + Regions[i].size - 1
      <4>1. PICK lo \in Nat, k \in Nat : lo = Regions[i].start /\ k = Regions[i].size
        BY <3>2
      <4>2. lo <= x /\ x < lo + k
        BY <2>4, <4>1 DEF InRegion
      <4>3. x \in lo..lo + k - 1
        BY <4>2
      <4> QED BY <4>1, <4>3
    <3>5. x \in r.start..r.start + r.size - 1
      <4>1. InRegion(appended + 1, x)
        BY <2>3, <2>4
      <4> QED BY <1>3, <4>1, SMTT(30) DEF InRegion
    <3> QED BY <3>3, <3>4, <3>5
  <2>5. ASSUME NEW x \in Nat, InFree(free, x) \/ InUsed(used, x)
        PROVE  ~Within(x, a, size)
    <3>1. \E i \in 1..appended : InRegion(i, x)
      BY <2>5 DEF BufferIInv, RegionsCovered
    <3> QED BY <2>4, <3>1
  <2>6. ASSUME NEW b \in Nat, NEW t \in Nat,
               \A x \in Nat : Within(x, b, t) => InFree(free, x) \/ InUsed(used, x)
        PROVE  Beside(b, t, a, size) /\ Beside(a, size, b, t)
    <3>1. Within(b, b, t)
      BY <1>2 DEF Within
    <3>2. Within(a, a, size)
      BY <1>2 DEF Within
    <3>3. ~Within(b, a, size) /\ ~Within(a, b, t)
      BY <2>5, <2>6, <3>1, <3>2
    <3> QED BY <1>2, <3>3, BesideIf
  <2>7. Clear(free, a, size)
    <3>1. ASSUME NEW b \in DOMAIN free
          PROVE  Beside(b, free[b].size, a, size)
      <4>1. \A x \in Nat : Within(x, b, free[b].size) => InFree(free, x)
        BY DEF Within, InFree
      <4> QED BY <1>4, <2>6, <4>1
    <3> QED BY <3>1 DEF Clear
  <2>8. /\ ListIInv'
        /\ \A x \in Nat : InFree(free', x) <=> InFree(free, x) \/ Within(x, a, size)
        /\ \A b, s \in Nat : Clear(free, b, s) /\ Beside(a, size, b, s) => Clear(free', b, s)
    BY <1>4, <2>2, <2>7, ReleasePreserves
  <2>9. BufferTypeOK'
    BY <1>1, <1>3, <1>4, <2>8 DEF BufferTypeOK, ListIInv
  <2>10. BlocksApart'
    <3>1. ASSUME NEW b \in DOMAIN used
          PROVE  Clear(free', b, used[b])
      <4>1. \A x \in Nat : Within(x, b, used[b]) => InUsed(used, x)
        BY DEF Within, InUsed
      <4>2. Beside(a, size, b, used[b]) /\ Clear(free, b, used[b])
        BY <1>4, <2>6, <4>1 DEF BufferIInv, BlocksApart
      <4> QED BY <1>4, <2>8, <4>2
    <3>2. \A b, c \in DOMAIN used : b # c => Beside(b, used[b], c, used[c])
      BY DEF BufferIInv, BlocksApart
    <3> QED BY <1>1, <2>8, <3>1, <3>2 DEF BlocksApart, ListIInv
  <2>11. RegionsCovered'
    <3> SUFFICES ASSUME NEW x \in Nat
                 PROVE  InFree(free', x) \/ InUsed(used', x) <=> \E i \in 1..appended' : InRegion(i, x)
      BY DEF RegionsCovered
    <3>1. InFree(free, x) \/ InUsed(used, x) <=> \E i \in 1..appended : InRegion(i, x)
      BY DEF BufferIInv, RegionsCovered
    <3>2. (\E i \in 1..appended + 1 : InRegion(i, x))
            <=> Within(x, a, size) \/ \E i \in 1..appended : InRegion(i, x)
      BY <1>5, <2>3
    <3> QED BY <1>1, <2>8, <3>1, <3>2
  <2> QED BY <2>8, <2>9, <2>10, <2>11 DEF BufferIInv, ListIInv
<1> QED
  BY <1>6, <1>7

-----------------------------------------------------------------------------
(* An allocation.                                                           *)

\* The k addresses from lo on are those of S that are not of T.
GoneFrom(S, T, lo, k) ==
  /\ T \subseteq S
  /\ \A x \in S : x \in T \/ x \in lo..lo + k - 1
  /\ \A x \in lo..lo + k - 1 : x \in S /\ x \notin T

\* The bytes of a block that is taken out are counted out.
LEMMA TakeInterval ==
  ASSUME NEW S, NEW T, NEW lo \in Nat, NEW k \in Nat, IsFiniteSet(S), GoneFrom(S, T, lo, k)
  PROVE  IsFiniteSet(T) /\ Cardinality(T) = Cardinality(S) - k
<1>1. IsFiniteSet(T)
  BY FS_Subset DEF GoneFrom
<1>2. T \intersect (lo..lo + k - 1) = {} /\ T \union (lo..lo + k - 1) = S
  BY DEF GoneFrom
<1>3. Cardinality(T \union (lo..lo + k - 1)) = Cardinality(T) + k
  BY <1>1, <1>2, AddInterval
<1>4. PICK t \in Nat : t = Cardinality(T)
  BY <1>1, FS_CardinalityType
<1>5. Cardinality(S) = t + k
  BY <1>2, <1>3, <1>4, Zenon
<1>6. t = (t + k) - k
  OBVIOUS
<1>7. t = Cardinality(S) - k
  BY <1>5, <1>6, Zenon
<1> QED
  BY <1>1, <1>4, <1>7

\* What an allocation of b with the size given leaves behind.
Taken(b, given) ==
  /\ ListIInv'
  /\ used' = Place(used, b, given)
  /\ \A x \in Nat : InFree(free, x) <=> InFree(free', x) \/ Within(x, b, given)
  /\ Clear(free', b, given)
  /\ \A c, t \in Nat : Clear(free, c, t) => Clear(free', c, t)
  /\ \A c, t \in Nat : Clear(free, c, t) => Beside(b, given, c, t)

LEMMA TakenPreserves ==
  ASSUME MemoryAssumption, BufferIInv, NEW b \in DOMAIN free, NEW given \in Nat,
         Taken(b, given), appended' = appended
  PROVE  BufferIInv'
<1>1. /\ BufferTypeOK /\ b \in Nat /\ b # NULL
      /\ \A c \in DOMAIN used : c \in Nat /\ c # NULL /\ used[c] \in Nat
      /\ used \in [DOMAIN used -> Nat]
      /\ \A c \in DOMAIN used : Clear(free, c, used[c])
      /\ FreeList(free)
  BY FreeListFact DEF BufferIInv, BufferTypeOK, BlocksApart
<1>2. b \notin DOMAIN used
  BY <1>1, ClearOutside
<1>3. /\ used' \in [DOMAIN used \union {b} -> Nat]
      /\ used'[b] = given /\ \A c \in DOMAIN used : used'[c] = used[c]
      /\ DOMAIN used' = DOMAIN used \union {b}
  <2>1. Place(used, b, given) \in [DOMAIN used \union {b} -> Nat]
    BY <1>1, PlaceFact
  <2>2. /\ Place(used, b, given)[b] = given
        /\ \A c \in DOMAIN used : c # b => Place(used, b, given)[c] = used[c]
    BY PlaceValues
  <2>3. used' = Place(used, b, given)
    BY DEF Taken
  <2> QED BY <1>2, <2>1, <2>2, <2>3
<1>4. \A c : c \in DOMAIN used' <=> c \in DOMAIN used \/ c = b
  BY <1>3
<1>5. BufferTypeOK'
  <2>1. DOMAIN used' \subseteq Nat \ {NULL}
    BY <1>1, <1>4
  <2>2. used' \in [DOMAIN used' -> Nat]
    BY <1>3
  <2>3. appended' \in 1..Len(Regions)
    BY <1>1 DEF BufferTypeOK
  <2> QED BY <2>1, <2>2, <2>3 DEF BufferTypeOK, Taken, ListIInv
<1>6. BlocksApart'
  <2>1. \A c \in DOMAIN used : Beside(b, given, c, used[c]) /\ Beside(c, used[c], b, given)
    <3>1. \A c \in DOMAIN used : Beside(b, given, c, used[c])
      BY <1>1 DEF Taken
    <3> QED BY <3>1 DEF Beside
  <2>2. \A c, e \in DOMAIN used : c # e => Beside(c, used[c], e, used[e])
    BY DEF BufferIInv, BlocksApart
  <2>3. \A c, e \in DOMAIN used' : c # e => Beside(c, used'[c], e, used'[e])
    BY <1>3, <1>4, <2>1, <2>2
  <2>4. \A c \in DOMAIN used : Clear(free', c, used[c])
    BY <1>1 DEF Taken
  <2>5. \A c \in DOMAIN used' : Clear(free', c, used'[c])
    BY <1>3, <1>4, <2>4 DEF Taken
  <2> QED BY <2>3, <2>5 DEF BlocksApart, Taken, ListIInv
<1>7. RegionsCovered'
  <2> SUFFICES ASSUME NEW x \in Nat
               PROVE  InFree(free', x) \/ InUsed(used', x) <=> \E i \in 1..appended' : InRegion(i, x)
    BY DEF RegionsCovered
  <2>1. InFree(free, x) \/ InUsed(used, x) <=> \E i \in 1..appended : InRegion(i, x)
    BY DEF BufferIInv, RegionsCovered
  <2>2. InUsed(used', x) <=> InUsed(used, x) \/ Within(x, b, given)
    <3>1. /\ InUsed(used, x) <=> \E c \in DOMAIN used : Within(x, c, used[c])
          /\ InUsed(used', x) <=> \E c \in DOMAIN used' : Within(x, c, used'[c])
      BY DEF InUsed, Within
    <3> QED BY <1>3, <1>4, <3>1
  <2>3. InFree(free, x) <=> InFree(free', x) \/ Within(x, b, given)
    BY DEF Taken
  <2> QED BY <2>1, <2>2, <2>3
<1> QED
  BY <1>5, <1>6, <1>7 DEF BufferIInv, Taken, ListIInv

LEMMA AllocateWholeTakes ==
  ASSUME MemoryAssumption, BufferIInv, NEW b \in DOMAIN free, AllocateWhole(b)
  PROVE  Taken(b, free[b].size)
<1> DEFINE D == DOMAIN free
           E == DOMAIN free \ {b}
<1>1. PICK s \in Nat : s = free[b].size
  BY FreeListFact DEF BufferIInv, BufferTypeOK
<1>2. /\ FreeList(free) /\ LinkedByAddress(free) /\ Coalesced(free)
      /\ IsNext(DOMAIN free, NULL, lpFreeBufferHeader)
      /\ IsFiniteSet(FreeBytes(free)) /\ dwFreeSize = Cardinality(FreeBytes(free))
      /\ dwFreeBlocks = Cardinality(DOMAIN free) /\ lpFreeBufferHeader \in Nat
      /\ D \subseteq Nat \ {NULL} /\ IsFiniteSet(D)
  BY DEF BufferIInv, BufferTypeOK, ListInOrder, BlocksApart, CountsExact, FreeList
<1>3. /\ Header \in Nat /\ Header > 0
      /\ \A a \in D : a \in Nat /\ a # NULL /\ free[a].size \in Nat /\ free[a].next \in Nat
  BY <1>2, FreeListFact, PagesAre
<1>4. /\ free' = Removed(free, b)
      /\ lpFreeBufferHeader' = IF free[b].prev = NULL THEN free[b].next ELSE lpFreeBufferHeader
      /\ used' = Place(used, b, free[b].size)
      /\ dwFreeSize' = dwFreeSize - free[b].size
      /\ dwFreeBlocks' = dwFreeBlocks - 1
  BY DEF AllocateWhole, Removed
<1>5. PICK g : g = free'
  OBVIOUS
<1>6. /\ FreeList(g) /\ LinkedByAddress(g) /\ DOMAIN g = E
      /\ \A x \in E : g[x].size = free[x].size
  <2>1. WithoutIn(free, Removed(free, b), b)
    BY <1>2, RemoveKeepsOrder
  <2> QED BY <1>4, <1>5, <2>1 DEF WithoutIn
<1>7. IsNext(DOMAIN free', NULL, lpFreeBufferHeader')
  <2>1. IsPrev(D, b, free[b].prev) /\ IsNext(D, b, free[b].next)
    BY <1>2 DEF LinkedByAddress
  <2>2. IsNext(D \ {b}, NULL, IF free[b].prev = NULL THEN free[b].next ELSE lpFreeBufferHeader)
    BY <1>2, <2>1, HeaderAfterRemove
  <2>3. DOMAIN free' = D \ {b}
    BY <1>5, <1>6
  <2> QED BY <1>4, <2>2, <2>3
<1>8. \A a \in D : a # b => Beside(a, free[a].size, b, s) /\ Beside(b, s, a, free[a].size)
  BY <1>1, <1>2 DEF Coalesced, Apart, Beside
<1>9. \A a : a \in D <=> a \in E \/ a = b
  OBVIOUS
<1> HIDE DEF D, E
<1>10. Coalesced(g)
  <2>1. /\ \A a, c \in D : a # c => Beside(a, free[a].size, c, free[c].size)
        /\ \A a, c \in D : ~Touch(free, a, c)
    BY <1>2 DEF Coalesced, Apart, D
  <2>2. ASSUME NEW a \in E, NEW c \in E
        PROVE  ~Touch(g, a, c)
    <3>1. ~Touch(free, a, c) /\ g[a].size = free[a].size
      BY <1>6, <1>9, <2>1
    <3> QED BY <3>1 DEF Touch
  <2>3. Apart(g)
    BY <1>6, <1>9, <2>1 DEF Apart
  <2> QED BY <1>6, <2>2, <2>3 DEF Coalesced
<1>11. IsFiniteSet(FreeBytes(g)) /\ Cardinality(FreeBytes(g)) = Cardinality(FreeBytes(free)) - s
  <2>1. /\ \A x : x \in FreeBytes(free) <=> \E c \in D : x \in Payload(c, free[c].size)
        /\ \A x : x \in FreeBytes(g) <=> \E c \in E : x \in Payload(c, g[c].size)
    BY <1>6 DEF FreeBytes, D
  <2>2. \A x : x \in FreeBytes(free) <=> x \in FreeBytes(g) \/ x \in Payload(b, s)
    BY <1>1, <1>6, <1>9, <2>1
  <2>3. b \in D /\ b \in Nat
    BY <1>3, <1>9
  <2>4. \A c \in E : \A x \in Payload(c, free[c].size) : x \notin Payload(b, s)
    <3>1. ASSUME NEW c \in E
          PROVE  \A x \in Payload(c, free[c].size) : x \notin Payload(b, s)
      <4>1. c \in D /\ c # b
        BY <1>9 DEF E
      <4>2. Beside(c, free[c].size, b, s) /\ c \in Nat /\ free[c].size \in Nat
        BY <1>3, <1>8, <4>1
      <4> QED BY <1>3, <2>3, <4>2, PayloadsApart
    <3> QED BY <3>1
  <2>5. \A x \in Payload(b, s) : x \notin FreeBytes(g)
    BY <1>6, <2>1, <2>4
  <2>6. PICK lo \in Nat : lo = b + Header
    BY <1>3, <2>3
  <2>7. Payload(b, s) = lo..lo + s - 1
    BY <2>6 DEF Payload
  <2>8. /\ FreeBytes(g) \subseteq FreeBytes(free)
        /\ \A x \in FreeBytes(free) : x \in FreeBytes(g) \/ x \in lo..lo + s - 1
        /\ \A x \in lo..lo + s - 1 : x \in FreeBytes(free) /\ x \notin FreeBytes(g)
    BY <2>2, <2>5, <2>7
  <2>9. GoneFrom(FreeBytes(free), FreeBytes(g), lo, s)
    BY <2>8 DEF GoneFrom
  <2> QED BY <1>2, <2>9, TakeInterval
<1>12. /\ Cardinality(DOMAIN g) = Cardinality(D) - 1
  <2>1. b \in D
    BY <1>9
  <2>2. Cardinality(D \ {b}) = Cardinality(D) - 1
    BY <1>2, <2>1, FS_RemoveElement
  <2> QED BY <1>6, <2>2 DEF E, D
<1>13. /\ dwFreeBlocks' = Cardinality(DOMAIN free') /\ dwFreeSize' = Cardinality(FreeBytes(free'))
  BY <1>1, <1>2, <1>4, <1>5, <1>11, <1>12 DEF D
<1>14. dwFreeBlocks' \in Nat /\ dwFreeSize' \in Nat
  BY <1>5, <1>6, <1>11, <1>13, FS_CardinalityType DEF FreeList
<1>15. lpFreeBufferHeader' \in Nat
  BY <1>2, <1>3, <1>4, <1>9
<1>16. ListIInv'
  BY <1>5, <1>6, <1>7, <1>10, <1>11, <1>13, <1>14, <1>15 DEF ListIInv, ListInOrder, CountsExact
<1>17. \A x \in Nat : InFree(free, x) <=> InFree(g, x) \/ Within(x, b, s)
  <2>1. ASSUME NEW x \in Nat
        PROVE  /\ InFree(free, x) <=> \E c \in D : Within(x, c, free[c].size)
               /\ InFree(g, x) <=> \E c \in E : Within(x, c, g[c].size)
    BY <1>6 DEF InFree, Within, D
  <2> QED BY <1>1, <1>6, <1>9, <2>1
<1>18. Clear(g, b, s)
  BY <1>6, <1>8, <1>9 DEF Clear, E
<1>19. ASSUME NEW c \in Nat, NEW t \in Nat, Clear(free, c, t)
       PROVE  Clear(g, c, t) /\ Beside(b, s, c, t)
  <2>1. \A a \in D : Beside(a, free[a].size, c, t)
    BY <1>19 DEF Clear, D
  <2> QED BY <1>1, <1>6, <1>9, <2>1 DEF Clear
<1> QED
  BY <1>1, <1>4, <1>5, <1>16, <1>17, <1>18, <1>19 DEF Taken

\* r stands where b stands: no other member of D lies between the two.
InPlaceOf(D, b, r) ==
  /\ b < r /\ r \notin D
  /\ \A c \in D : c # b => (c < b /\ c < r) \/ (b < c /\ r < c)

LEMMA NeighboursOfRest ==
  ASSUME NEW D, D \subseteq Nat \ {NULL}, NEW b \in D, NEW r \in Nat, InPlaceOf(D, b, r),
         NEW n, NEW p, IsNext(D, b, n), IsPrev(D, b, p)
  PROVE  IsNext(D \ {b}, r, n) /\ IsPrev(D \ {b}, r, p)
<1>1. \A c \in D : c \in Nat /\ c # NULL
  OBVIOUS
<1>2. IsNext(D \ {b}, r, n)
  <2>1. CASE n = NULL
    <3>1. \A c \in D : ~(b < c)
      BY <2>1 DEF IsNext
    <3>2. \A c \in D \ {b} : ~(r < c)
      BY <1>1, <3>1 DEF InPlaceOf
    <3> QED BY <2>1, <3>2 DEF IsNext
  <2>2. CASE n # NULL
    <3>1. n \in D /\ b < n /\ \A c \in D : ~(b < c /\ c < n)
      BY <2>2 DEF IsNext
    <3>2. n \in D \ {b} /\ r < n
      BY <1>1, <3>1 DEF InPlaceOf
    <3>3. \A c \in D \ {b} : ~(r < c /\ c < n)
      BY <1>1, <3>1 DEF InPlaceOf
    <3> QED BY <2>2, <3>2, <3>3 DEF IsNext
  <2> QED BY <2>1, <2>2
<1>3. IsPrev(D \ {b}, r, p)
  <2>1. CASE p = NULL
    <3>1. \A c \in D : ~(c < b)
      BY <2>1 DEF IsPrev
    <3>2. \A c \in D \ {b} : ~(c < r)
      BY <1>1, <3>1 DEF InPlaceOf
    <3> QED BY <2>1, <3>2 DEF IsPrev
  <2>2. CASE p # NULL
    <3>1. p \in D /\ p < b /\ \A c \in D : ~(p < c /\ c < b)
      BY <2>2 DEF IsPrev
    <3>2. p \in D \ {b} /\ p < r
      BY <1>1, <3>1 DEF InPlaceOf
    <3>3. \A c \in D \ {b} : ~(p < c /\ c < r)
      BY <1>1, <3>1 DEF InPlaceOf
    <3> QED BY <2>2, <3>2, <3>3 DEF IsPrev
  <2> QED BY <2>1, <2>2
<1> QED
  BY <1>2, <1>3

LEMMA OthersOfRest ==
  ASSUME NEW D, D \subseteq Nat \ {NULL}, NEW b \in D, NEW r \in Nat, InPlaceOf(D, b, r),
         NEW x \in D, x # b, NEW y
  PROVE  /\ IsNext(D, x, y) /\ y # b => IsNext((D \ {b}) \union {r}, x, y)
         /\ IsPrev(D, x, y) /\ y # b => IsPrev((D \ {b}) \union {r}, x, y)
<1>1. \A c \in D : c \in Nat /\ c # NULL
  OBVIOUS
<1>2. \A c : c \in (D \ {b}) \union {r} <=> (c \in D /\ c # b) \/ c = r
  OBVIOUS
<1>3. ASSUME IsNext(D, x, y), y # b
      PROVE  IsNext((D \ {b}) \union {r}, x, y)
  <2>1. CASE y = NULL
    <3>1. \A c \in D : ~(x < c)
      BY <1>3, <2>1 DEF IsNext
    <3>2. ~(x < b) /\ ~(x < r)
      BY <1>1, <3>1 DEF InPlaceOf
    <3> QED BY <1>2, <2>1, <3>1, <3>2 DEF IsNext
  <2>2. CASE y # NULL
    <3>1. y \in D /\ x < y /\ \A c \in D : ~(x < c /\ c < y)
      BY <1>3, <2>2 DEF IsNext
    <3>2. ~(x < b /\ b < y)
      BY <3>1
    <3>3. ~(x < r /\ r < y)
      BY <1>1, <1>3, <3>1, <3>2 DEF InPlaceOf
    <3>4. y \in (D \ {b}) \union {r}
      BY <1>3, <3>1
    <3>5. \A c \in (D \ {b}) \union {r} : ~(x < c /\ c < y)
      BY <1>2, <3>1, <3>3
    <3> QED BY <2>2, <3>1, <3>4, <3>5 DEF IsNext
  <2> QED BY <2>1, <2>2
<1>4. ASSUME IsPrev(D, x, y), y # b
      PROVE  IsPrev((D \ {b}) \union {r}, x, y)
  <2>1. CASE y = NULL
    <3>1. \A c \in D : ~(c < x)
      BY <1>4, <2>1 DEF IsPrev
    <3>2. ~(b < x) /\ ~(r < x)
      BY <1>1, <3>1 DEF InPlaceOf
    <3> QED BY <1>2, <2>1, <3>1, <3>2 DEF IsPrev
  <2>2. CASE y # NULL
    <3>1. y \in D /\ y < x /\ \A c \in D : ~(y < c /\ c < x)
      BY <1>4, <2>2 DEF IsPrev
    <3>2. ~(y < b /\ b < x)
      BY <3>1
    <3>3. ~(y < r /\ r < x)
      BY <1>1, <1>4, <3>1, <3>2 DEF InPlaceOf
    <3>4. y \in (D \ {b}) \union {r}
      BY <1>4, <3>1
    <3>5. \A c \in (D \ {b}) \union {r} : ~(y < c /\ c < x)
      BY <1>2, <3>1, <3>3
    <3> QED BY <2>2, <3>1, <3>4, <3>5 DEF IsPrev
  <2> QED BY <2>1, <2>2
<1> QED
  BY <1>3, <1>4

PrevIs(f, b, p) == f[b].prev = p
RestIn(f, g, b, r, size) ==
  /\ FreeList(g) /\ LinkedByAddress(g)
  /\ DOMAIN g = (DOMAIN f \ {b}) \union {r}
  /\ SizeIs(g, r, size)
  /\ \A x \in DOMAIN f \ {b} : g[x].size = f[x].size

\* The rest of a block goes into the list at the place of the block.
LEMMA RestKeepsOrder ==
  ASSUME NEW f, FreeList(f), LinkedByAddress(f), NEW b \in DOMAIN f, NEW r \in Nat,
         InPlaceOf(DOMAIN f, b, r), NEW blk \in FreeBlock,
         NextIs(f, b, blk.next), PrevIs(f, b, blk.prev)
  PROVE  RestIn(f, LinkIn(Without(f, b), r, blk), b, r, blk.size)
<1> DEFINE D == DOMAIN f
<1>1. /\ D \subseteq Nat \ {NULL} /\ f \in [D -> FreeBlock] /\ IsFiniteSet(D)
      /\ \A x \in D : x \in Nat /\ x # NULL
  BY FreeListFact DEF FreeList
<1>2. PICK w : w = Without(f, b)
  OBVIOUS
<1>3. w \in [D \ {b} -> FreeBlock] /\ DOMAIN w = D \ {b} /\ \A x \in D \ {b} : w[x] = f[x]
  <2>1. Without(f, b) \in [D \ {b} -> FreeBlock]
    BY <1>1, WithoutFact
  <2>2. \A x \in D \ {b} : Without(f, b)[x] = f[x]
    BY WithoutValues
  <2> QED BY <1>2, <2>1, <2>2
<1>4. FreeList(w)
  <2>1. IsFiniteSet(D \ {b})
    BY <1>1, FS_RemoveElement
  <2> QED BY <1>1, <1>3, <2>1 DEF FreeList
<1>5. r \in Nat \ {NULL} /\ r \notin DOMAIN w
  <2>1. b < r /\ r \notin D /\ b \in Nat
    BY <1>1 DEF InPlaceOf
  <2> QED BY <1>3, <2>1 DEF NULL
<1>6. IsNext(D, b, blk.next) /\ IsPrev(D, b, blk.prev)
  BY DEF LinkedByAddress, NextIs, PrevIs
<1>7. IsNext(DOMAIN w, r, blk.next) /\ IsPrev(DOMAIN w, r, blk.prev)
  <2>1. IsNext(D \ {b}, r, blk.next) /\ IsPrev(D \ {b}, r, blk.prev)
    BY <1>1, <1>6, NeighboursOfRest
  <2> QED BY <1>3, <2>1
<1>8. ASSUME NEW x \in DOMAIN w
      PROVE  /\ x # blk.prev => IsNext(DOMAIN w \union {r}, x, w[x].next)
             /\ x # blk.next => IsPrev(DOMAIN w \union {r}, x, w[x].prev)
  <2>1. x \in D /\ x # b /\ x \in Nat /\ b \in Nat
    BY <1>1, <1>3
  <2>2. PICK fn, fp : fn = f[x].next /\ fp = f[x].prev
    OBVIOUS
  <2>3. IsNext(D, x, fn) /\ IsPrev(D, x, fp)
    BY <2>1, <2>2 DEF LinkedByAddress
  <2>4. fn = b => x = blk.prev
    <3>1. SUFFICES ASSUME IsNext(D, x, b)
                   PROVE  x = blk.prev
      BY <2>3
    <3>2. IsPrev(D, b, x)
      BY <1>1, <2>1, <3>1, NextIsPrev
    <3> QED BY <1>1, <1>6, <2>1, <3>2, PrevUnique
  <2>5. fp = b => x = blk.next
    <3>1. SUFFICES ASSUME IsPrev(D, x, b)
                   PROVE  x = blk.next
      BY <2>3
    <3>2. IsNext(D, b, x)
      BY <1>1, <2>1, <3>1, NextIsPrev
    <3> QED BY <1>1, <1>6, <2>1, <3>2, NextUnique
  <2>6. fn # b => IsNext((D \ {b}) \union {r}, x, fn)
    BY <1>1, <2>1, <2>3, OthersOfRest
  <2>7. fp # b => IsPrev((D \ {b}) \union {r}, x, fp)
    BY <1>1, <2>1, <2>3, OthersOfRest
  <2>8. w[x].next = fn /\ w[x].prev = fp
    BY <1>3, <2>1, <2>2
  <2> HIDE DEF D
  <2> QED BY <1>3, <2>4, <2>5, <2>6, <2>7, <2>8
<1>9. OthersInOrder(w, r, blk)
  BY <1>8 DEF OthersInOrder
<1>10. FreeList(LinkIn(w, r, blk)) /\ LinkedByAddress(LinkIn(w, r, blk))
  BY <1>4, <1>5, <1>7, <1>9, LinkInKeepsOrder
<1>11. DOMAIN LinkIn(w, r, blk) = DOMAIN w \union {r}
  BY <1>4, <1>5, <1>7, <1>9, LinkInKeepsOrder
<1>12. SizeIs(LinkIn(w, r, blk), r, blk.size)
  BY <1>4, <1>5, <1>7, <1>9, LinkInKeepsOrder
<1>13. \A x \in DOMAIN w : LinkIn(w, r, blk)[x].size = w[x].size
  BY <1>4, <1>5, <1>7, <1>9, LinkInKeepsOrder
<1>14. DOMAIN LinkIn(w, r, blk) = (D \ {b}) \union {r}
  BY <1>3, <1>11
<1>15. \A x \in D \ {b} : LinkIn(w, r, blk)[x].size = f[x].size
  BY <1>3, <1>13
<1> QED
  BY <1>2, <1>10, <1>12, <1>14, <1>15 DEF RestIn

\* A block of size s at b is cut at r, where its rest of size t begins; d bytes
\* are given away with their header.
CutAt(b, s, d, r, t) == EndsAt(b, d, r) /\ JointIs(s, d, t)
CutBytes(b, d) == b + Header..b + Header + d + Header - 1

LEMMA CutBeside ==
  ASSUME NEW b \in Nat, NEW s \in Nat, NEW d \in Nat, NEW r \in Nat, NEW t \in Nat,
         Header \in Nat, Header > 0, CutAt(b, s, d, r, t)
  PROVE  \A c, u \in Nat : Beside(b, s, c, u) =>
           /\ (c < b /\ c < r) \/ (b < c /\ r < c)
           /\ Beside(b, d, c, u) /\ Beside(r, t, c, u)
           /\ ~EndsAt(c, u, r)
<1> SUFFICES ASSUME NEW c \in Nat, NEW u \in Nat, Beside(b, s, c, u)
             PROVE  /\ (c < b /\ c < r) \/ (b < c /\ r < c)
                    /\ Beside(b, d, c, u) /\ Beside(r, t, c, u)
                    /\ ~EndsAt(c, u, r)
  OBVIOUS
<1>1. r = b + d + Header /\ s = d + t + Header
  BY DEF CutAt, EndsAt, JointIs
<1>2. CASE b + s + Header <= c
  <2>1. b < c /\ r < c /\ b + d + Header <= c /\ r + t + Header <= c
    BY <1>1, <1>2
  <2>2. ~(c + u + Header = r)
    BY <2>1
  <2> QED BY <2>1, <2>2 DEF Beside, EndsAt
<1>3. CASE c + u + Header <= b
  <2>1. c < b /\ c < r /\ c + u + Header <= r /\ ~(c + u + Header = r)
    BY <1>1, <1>3
  <2> QED BY <1>3, <2>1 DEF Beside, EndsAt
<1> QED
  BY <1>2, <1>3 DEF Beside

PayloadCut(b, s, d, r, t) ==
  /\ \A x : x \in Payload(b, s) <=> x \in CutBytes(b, d) \/ x \in Payload(r, t)
  /\ \A x \in Payload(r, t) : x \notin CutBytes(b, d)

LEMMA CutPayload ==
  ASSUME NEW b \in Nat, NEW s \in Nat, NEW d \in Nat, NEW r \in Nat, NEW t \in Nat,
         Header \in Nat, CutAt(b, s, d, r, t)
  PROVE  PayloadCut(b, s, d, r, t)
<1>1. /\ \A x : x \in Payload(b, s) <=> x \in Int /\ b + Header <= x /\ x <= b + Header + s - 1
      /\ \A x : x \in Payload(r, t) <=> x \in Int /\ r + Header <= x /\ x <= r + Header + t - 1
      /\ \A x : x \in CutBytes(b, d) <=>
                  x \in Int /\ b + Header <= x /\ x <= b + Header + d + Header - 1
  BY DEF Payload, CutBytes
<1>2. r = b + d + Header /\ s = d + t + Header
  BY DEF CutAt, EndsAt, JointIs
<1>3. \A x \in Payload(r, t) : x \notin CutBytes(b, d)
  BY <1>1, <1>2
<1>4. \A x : x \in Payload(b, s) <=> x \in CutBytes(b, d) \/ x \in Payload(r, t)
  BY <1>1, <1>2
<1> QED
  BY <1>3, <1>4 DEF PayloadCut

LEMMA SeparateTakes ==
  ASSUME MemoryAssumption, BufferIInv, NEW b \in Nat, b \in DOMAIN free, NEW dwSize \in Nat,
         ~TakeWhole(b, dwSize), Separate(b, dwSize)
  PROVE  Taken(b, dwSize)
<1> DEFINE D   == DOMAIN free
           blk == [free[b] EXCEPT !.size = @ - Header - dwSize]
<1>1. /\ FreeList(free) /\ LinkedByAddress(free) /\ Coalesced(free)
      /\ IsNext(DOMAIN free, NULL, lpFreeBufferHeader)
      /\ IsFiniteSet(FreeBytes(free)) /\ dwFreeSize = Cardinality(FreeBytes(free))
      /\ dwFreeBlocks = Cardinality(DOMAIN free) /\ lpFreeBufferHeader \in Nat
      /\ D \subseteq Nat \ {NULL} /\ IsFiniteSet(D) /\ b \in D
  BY DEF BufferIInv, BufferTypeOK, ListInOrder, BlocksApart, CountsExact, FreeList
<1>2. /\ Header \in Nat /\ Header > 0 /\ MinBuffer \in Nat /\ b \in Nat
      /\ \A a \in D : a \in Nat /\ a # NULL /\ free[a].size \in Nat
  BY <1>1, FreeListFact, PagesAre
<1>3. PICK s \in Nat : s = free[b].size
  BY <1>2
<1>4. PICK t \in Nat : t = s - Header - dwSize
  <2>1. s > dwSize + MinBuffer + Header
    BY <1>2, <1>3 DEF TakeWhole
  <2> QED BY <1>2, <2>1
<1>5. PICK r \in Nat : r = b + Header + dwSize
  BY <1>2
<1>6. EndsAt(b, dwSize, r) /\ JointIs(s, dwSize, t) /\ CutAt(b, s, dwSize, r, t)
  <2>1. EndsAt(b, dwSize, r)
    BY <1>2, <1>5 DEF EndsAt
  <2>2. JointIs(s, dwSize, t)
    BY <1>2, <1>4 DEF JointIs
  <2> QED BY <2>1, <2>2 DEF CutAt
<1>29. /\ \A c, u \in Nat : Beside(b, s, c, u) =>
             /\ (c < b /\ c < r) \/ (b < c /\ r < c)
             /\ Beside(b, dwSize, c, u) /\ Beside(r, t, c, u)
             /\ ~EndsAt(c, u, r)
       /\ \A x \in Nat : Within(x, b, s) <=> Within(x, b, dwSize) \/ Within(x, r, t)
       /\ \A x : x \in Payload(b, s) <=> x \in CutBytes(b, dwSize) \/ x \in Payload(r, t)
       /\ \A x \in Payload(r, t) : x \notin CutBytes(b, dwSize)
  <2>1. Header \in Nat /\ Header > 0 /\ CutAt(b, s, dwSize, r, t)
    BY <1>2, <1>6
  <2>2. \A c, u \in Nat : Beside(b, s, c, u) =>
             /\ (c < b /\ c < r) \/ (b < c /\ r < c)
             /\ Beside(b, dwSize, c, u) /\ Beside(r, t, c, u)
             /\ ~EndsAt(c, u, r)
    BY <2>1, CutBeside
  <2>3. \A x \in Nat : Within(x, b, s) <=> Within(x, b, dwSize) \/ Within(x, r, t)
    <3>1. r = b + dwSize + Header /\ s = dwSize + t + Header
      BY <2>1 DEF CutAt, EndsAt, JointIs
    <3> QED BY <2>1, <3>1, SMTT(30) DEF Within
  <2>4. PayloadCut(b, s, dwSize, r, t)
    BY <2>1, CutPayload
  <2> QED BY <2>2, <2>3, <2>4 DEF PayloadCut
<1>7. /\ free' = LinkIn(Without(free, b), r, blk)
      /\ lpFreeBufferHeader' = IF free[b].prev = NULL THEN r ELSE lpFreeBufferHeader
      /\ used' = Place(used, b, dwSize)
      /\ dwFreeSize' = dwFreeSize - dwSize - Header
      /\ dwFreeBlocks' = dwFreeBlocks
  BY <1>5 DEF Separate
<1>8. /\ blk \in FreeBlock /\ blk.size = t
      /\ blk.next = free[b].next /\ blk.prev = free[b].prev
  <2>1. PICK q \in FreeBlock : q = free[b]
    BY <1>1, FreeListFact
  <2>2. blk = [q EXCEPT !.size = t]
    BY <1>3, <1>4, <2>1
  <2>3. /\ [q EXCEPT !.size = t] \in FreeBlock
        /\ [q EXCEPT !.size = t].size = t
        /\ [q EXCEPT !.size = t].next = q.next
        /\ [q EXCEPT !.size = t].prev = q.prev
    BY DEF FreeBlock
  <2> QED BY <2>1, <2>2, <2>3
<1> HIDE DEF blk, D
<1>9. ASSUME NEW c \in D, c # b
      PROVE  Beside(b, s, c, free[c].size) /\ c \in Nat /\ free[c].size \in Nat
  BY <1>1, <1>2, <1>3, <1>9 DEF Coalesced, Apart, D
<1>10. ASSUME NEW c \in D, c # b
       PROVE  /\ (c < b /\ c < r) \/ (b < c /\ r < c)
              /\ Beside(b, dwSize, c, free[c].size) /\ Beside(r, t, c, free[c].size)
              /\ ~EndsAt(c, free[c].size, r)
  <2>1. Beside(b, s, c, free[c].size) /\ c \in Nat /\ free[c].size \in Nat
    BY <1>9, <1>10
  <2>2. PICK u \in Nat : u = free[c].size
    BY <2>1
  <2>3. /\ (c < b /\ c < r) \/ (b < c /\ r < c)
        /\ Beside(b, dwSize, c, u) /\ Beside(r, t, c, u)
        /\ ~EndsAt(c, u, r)
    BY <1>29, <2>1, <2>2
  <2> QED BY <2>2, <2>3
<1>11. InPlaceOf(DOMAIN free, b, r)
  <2>1. b < r
    BY <1>2, <1>5
  <2>2. r \notin D
    <3>1. ASSUME r \in D
          PROVE  FALSE
      <4>1. r # b
        BY <1>2, <2>1
      <4> QED BY <1>10, <3>1, <4>1
    <3> QED BY <3>1
  <2>3. \A c \in D : c # b => (c < b /\ c < r) \/ (b < c /\ r < c)
    BY <1>10
  <2> QED BY <2>1, <2>2, <2>3 DEF InPlaceOf, D
<1>12. PICK g : g = free'
  OBVIOUS
<1> DEFINE E == D \ {b}
<1>13. /\ FreeList(g) /\ LinkedByAddress(g) /\ DOMAIN g = E \union {r}
       /\ g[r].size = t /\ \A x \in E : g[x].size = free[x].size
  <2>1. NextIs(free, b, blk.next) /\ PrevIs(free, b, blk.prev)
    BY <1>8 DEF NextIs, PrevIs
  <2>2. RestIn(free, LinkIn(Without(free, b), r, blk), b, r, blk.size)
    BY <1>1, <1>8, <1>11, <2>1, RestKeepsOrder
  <2>3. LinkIn(Without(free, b), r, blk) = g
    BY <1>7, <1>12
  <2> QED BY <1>8, <2>2, <2>3 DEF RestIn, SizeIs, D
<1>14. IsNext(DOMAIN free', NULL, lpFreeBufferHeader')
  <2>1. IsPrev(D, b, free[b].prev) /\ IsNext(D, b, free[b].next)
    BY <1>1 DEF LinkedByAddress, D
  <2>2. IsNext(E, NULL, IF free[b].prev = NULL THEN free[b].next ELSE lpFreeBufferHeader)
    <3>1. IsNext(D, NULL, lpFreeBufferHeader)
      BY <1>1 DEF D
    <3> QED BY <1>1, <2>1, <3>1, HeaderAfterRemove
  <2>3. IsPrev(E, r, free[b].prev)
    BY <1>1, <1>11, <2>1, NeighboursOfRest DEF D
  <2>4. r \in Nat \ {NULL} /\ E \subseteq Nat \ {NULL}
    <3>1. b < r
      BY <1>11 DEF InPlaceOf
    <3>2. r \in Nat \ {NULL}
      BY <1>2, <3>1 DEF NULL
    <3>3. E \subseteq Nat \ {NULL}
      BY <1>1
    <3> QED BY <3>2, <3>3
  <2>5. PICK h : h = IF free[b].prev = NULL THEN free[b].next ELSE lpFreeBufferHeader
    OBVIOUS
  <2> HIDE DEF E
  <2>6. IsNext(E \union {r}, NULL, IF free[b].prev = NULL THEN r ELSE h)
    BY <2>2, <2>3, <2>4, <2>5, HeaderAfterInsert
  <2>7. lpFreeBufferHeader' = IF free[b].prev = NULL THEN r ELSE h
    BY <1>7, <2>5
  <2>8. DOMAIN free' = E \union {r}
    BY <1>12, <1>13
  <2> QED BY <2>6, <2>7, <2>8
<1>15. /\ \A a : a \in D <=> a \in E \/ a = b
       /\ \A a : a \in DOMAIN g <=> a \in E \/ a = r
       /\ \A a \in E : a # b /\ a # r /\ a \in D
  BY <1>1, <1>11, <1>13 DEF InPlaceOf, D
<1> HIDE DEF E
<1>16. \A a \in E : /\ Beside(b, s, a, free[a].size) /\ Beside(b, dwSize, a, free[a].size)
                    /\ Beside(r, t, a, free[a].size) /\ Beside(a, free[a].size, r, t)
                    /\ Beside(a, free[a].size, b, dwSize) /\ ~EndsAt(a, free[a].size, r)
                    /\ a \in Nat /\ free[a].size \in Nat
  <2>1. \A a, u, c, v : Beside(a, u, c, v) <=> Beside(c, v, a, u)
    BY DEF Beside
  <2> QED BY <1>9, <1>10, <1>15, <2>1
<1>17. Coalesced(g)
  <2>1. /\ \A a, c \in D : a # c => Beside(a, free[a].size, c, free[c].size)
        /\ \A a, c \in D : ~Touch(free, a, c)
    BY <1>1 DEF Coalesced, Apart, D
  <2>2. Apart(g)
    BY <1>13, <1>15, <1>16, <2>1 DEF Apart
  <2>3. ASSUME NEW a \in E, NEW c \in E
        PROVE  ~Touch(g, a, c)
    <3>1. ~Touch(free, a, c) /\ g[a].size = free[a].size
      BY <1>13, <1>15, <2>1
    <3> QED BY <3>1 DEF Touch
  <2>4. ASSUME NEW a \in E
        PROVE  ~Touch(g, a, r) /\ ~Touch(g, r, a)
    <3>1. ~Touch(g, a, r)
      BY <1>13, <1>16 DEF Touch, EndsAt
    <3>2. ASSUME Touch(g, r, a)
          PROVE  FALSE
      <4>1. r + t + Header = a
        BY <1>13, <3>2 DEF Touch
      <4>2. b + s + Header = a
        BY <1>2, <1>6, <4>1, SMTT(30) DEF EndsAt, JointIs
      <4>3. Touch(free, b, a)
        BY <1>3, <4>2 DEF Touch
      <4> QED BY <1>1, <1>15, <2>1, <4>3
    <3> QED BY <3>1, <3>2
  <2>5. ~Touch(g, r, r)
    <3>1. ~(r + t + Header = r)
      BY <1>2
    <3> QED BY <1>13, <3>1 DEF Touch
  <2>6. \A a, c \in DOMAIN g : ~Touch(g, a, c)
    BY <1>15, <2>3, <2>4, <2>5
  <2> QED BY <2>2, <2>6 DEF Coalesced
<1>18. PICK lo \in Nat, k \in Nat : lo = b + Header /\ k = dwSize + Header
  <2>1. b + Header \in Nat /\ dwSize + Header \in Nat
    BY <1>2
  <2> QED BY <2>1, Zenon
<1>19. IsFiniteSet(FreeBytes(g)) /\ Cardinality(FreeBytes(g)) = Cardinality(FreeBytes(free)) - k
  <2>1. /\ \A x : x \in FreeBytes(free) <=> \E c \in D : x \in Payload(c, free[c].size)
        /\ \A x : x \in FreeBytes(g) <=> \E c \in DOMAIN g : x \in Payload(c, g[c].size)
    BY DEF FreeBytes, D
  <2>2. PICK I : I = CutBytes(b, dwSize)
    OBVIOUS
  <2>3. \A x : x \in Payload(b, s) <=> x \in I \/ x \in Payload(r, t)
    BY <1>29, <2>2
  <2>4. \A x \in Payload(r, t) : x \notin I
    BY <1>29, <2>2
  <2>5. \A c \in E : \A x \in Payload(b, s) : x \notin Payload(c, free[c].size)
    BY <1>2, <1>16, PayloadsApart
  <2>6. \A x : x \in FreeBytes(free) <=>
                 x \in Payload(b, s) \/ \E c \in E : x \in Payload(c, free[c].size)
    BY <1>3, <1>15, <2>1
  <2>7. \A x : x \in FreeBytes(g) <=>
                 x \in Payload(r, t) \/ \E c \in E : x \in Payload(c, free[c].size)
    BY <1>13, <1>15, <2>1
  <2>8. /\ FreeBytes(g) \subseteq FreeBytes(free)
        /\ \A x \in FreeBytes(free) : x \in FreeBytes(g) \/ x \in I
        /\ \A x \in I : x \in FreeBytes(free) /\ x \notin FreeBytes(g)
    BY <2>3, <2>4, <2>5, <2>6, <2>7
  <2>9. GoneFrom(FreeBytes(free), FreeBytes(g), lo, k)
    <3>1. lo + k - 1 = b + Header + dwSize + Header - 1 /\ lo = b + Header
      BY <1>2, <1>18
    <3>2. I = lo..lo + k - 1
      BY <2>2, <3>1, Zenon DEF CutBytes
    <3> QED BY <2>8, <3>2 DEF GoneFrom
  <2> QED BY <1>1, <2>9, TakeInterval
<1>20. Cardinality(DOMAIN g) = Cardinality(D)
  <2>1. r \notin E /\ IsFiniteSet(E) /\ Cardinality(E) = Cardinality(D) - 1
    <3>1. IsFiniteSet(D \ {b}) /\ Cardinality(D \ {b}) = Cardinality(D) - 1
      BY <1>1, FS_RemoveElement
    <3> QED BY <1>15, <3>1 DEF E
  <2>2. Cardinality(E \union {r}) = Cardinality(E) + 1
    BY <2>1, FS_AddElement
  <2>3. Cardinality(D) \in Nat
    BY <1>1, FS_CardinalityType
  <2>4. Cardinality(E) + 1 = Cardinality(D)
    BY <2>1, <2>3
  <2> QED BY <1>13, <2>2, <2>4, Zenon
<1>21. dwFreeBlocks' = Cardinality(DOMAIN free')
  BY <1>1, <1>7, <1>12, <1>20 DEF D
<1>22. dwFreeSize' = Cardinality(FreeBytes(free'))
  <2>1. dwFreeSize' = dwFreeSize - dwSize - Header /\ dwFreeSize \in Nat
    BY <1>7 DEF BufferIInv, BufferTypeOK
  <2>2. dwFreeSize' = dwFreeSize - k
    BY <1>2, <1>18, <2>1, SMTT(60)
  <2> QED BY <1>1, <1>12, <1>19, <2>2
<1>23. dwFreeBlocks' \in Nat /\ dwFreeSize' \in Nat
  BY <1>12, <1>13, <1>19, <1>21, <1>22, FS_CardinalityType DEF FreeList
<1>24. lpFreeBufferHeader' \in Nat
  BY <1>1, <1>7
<1>25. ListIInv'
  BY <1>12, <1>13, <1>14, <1>17, <1>19, <1>21, <1>22, <1>23, <1>24
     DEF ListIInv, ListInOrder, CountsExact
<1>26. ASSUME NEW x \in Nat
       PROVE  InFree(free, x) <=> InFree(g, x) \/ Within(x, b, dwSize)
  <2>1. /\ InFree(free, x) <=> \E c \in D : Within(x, c, free[c].size)
        /\ InFree(g, x) <=> \E c \in DOMAIN g : Within(x, c, g[c].size)
    BY DEF InFree, Within, D
  <2>2. Within(x, b, s) <=> Within(x, b, dwSize) \/ Within(x, r, t)
    BY <1>29
  <2> QED BY <1>3, <1>13, <1>15, <2>1, <2>2
<1>27. Clear(g, b, dwSize)
  <2>1. Beside(r, t, b, dwSize)
    BY <1>6 DEF Beside, EndsAt
  <2> QED BY <1>13, <1>15, <1>16, <2>1 DEF Clear
<1>28. ASSUME NEW c \in Nat, NEW u \in Nat, Clear(free, c, u)
       PROVE  Clear(g, c, u) /\ Beside(b, dwSize, c, u)
  <2>1. \A a \in D : Beside(a, free[a].size, c, u)
    BY <1>28 DEF Clear, D
  <2>2. Beside(b, s, c, u)
    BY <1>1, <1>3, <2>1
  <2>3. Beside(b, dwSize, c, u) /\ Beside(r, t, c, u)
    BY <1>28, <1>29, <2>2
  <2> QED BY <1>13, <1>15, <2>1, <2>3 DEF Clear
<1> QED
  BY <1>7, <1>12, <1>25, <1>26, <1>27, <1>28 DEF Taken

LEMMA AllocatePreserves ==
  ASSUME MemoryAssumption, BufferIInv, NEW dwSize \in Sizes, Allocate(dwSize)
  PROVE  BufferIInv'
<1>1. PICK size \in Nat : size = AtLeastMin(dwSize)
  <2>1. dwSize \in Nat /\ MinBuffer \in Nat
    BY PagesAre
  <2> QED BY <2>1 DEF AtLeastMin
<1>2. PICK b : b = FirstFit(size)
  OBVIOUS
<1>3. /\ b # NULL /\ appended' = appended
      /\ IF TakeWhole(b, size) THEN AllocateWhole(b) ELSE Separate(b, size)
  BY <1>1, <1>2 DEF Allocate
<1>4. b \in DOMAIN free /\ b \in Nat /\ free[b].size \in Nat
  <2>1. b \in DOMAIN free
    BY <1>2, <1>3, FirstFitFact DEF BufferIInv
  <2>2. FreeList(free)
    BY DEF BufferIInv, BufferTypeOK
  <2> QED BY <2>1, <2>2, FreeListFact DEF FreeList
<1>5. CASE TakeWhole(b, size)
  <2>1. Taken(b, free[b].size)
    BY <1>3, <1>4, <1>5, AllocateWholeTakes
  <2> QED BY <1>3, <1>4, <2>1, TakenPreserves
<1>6. CASE ~TakeWhole(b, size)
  <2>1. Taken(b, size)
    BY <1>3, <1>4, <1>6, SeparateTakes
  <2> QED BY <1>3, <1>4, <2>1, TakenPreserves
<1> QED
  BY <1>5, <1>6

-----------------------------------------------------------------------------
(* The theorems.                                                            *)

\* The first region is one free block.
LEMMA FirstBlock ==
  ASSUME MemoryAssumption, MemInit
  PROVE  BufferIInv
<1> DEFINE a == Regions[1].start
           s == Regions[1].size - Header
           D == {Regions[1].start}
<1>1. /\ Header \in Nat /\ Header > 0 /\ Regions[1].start \in Nat \ {NULL}
      /\ Regions[1].size \in Nat /\ Regions[1].size >= Header /\ Len(Regions) \in Nat
      /\ 1 <= Len(Regions)
  <2> DEFINE Extents == [start : Nat \ {NULL}, size : Nat]
  <2>1. Regions \in Seq(Extents) /\ Regions # <<>> /\ Regions[1].size >= Header
    BY DEF MemoryAssumption
  <2> HIDE DEF Extents
  <2>2. Len(Regions) \in Nat /\ 1 <= Len(Regions) /\ Regions[1] \in Extents
    BY <2>1
  <2>3. Regions[1].start \in Nat \ {NULL} /\ Regions[1].size \in Nat
    BY <2>2 DEF Extents
  <2> QED BY <2>1, <2>2, <2>3, PagesAre
<1>2. /\ a \in Nat /\ a # NULL /\ s \in Nat /\ D = {a}
      /\ \A x : x \in D <=> x = a
  BY <1>1
<1>3. /\ lpFreeBufferHeader = a /\ used = << >> /\ dwFreeSize = s /\ dwFreeBlocks = 1
      /\ appended = 1 /\ free = [x \in D |-> [size |-> s, next |-> NULL, prev |-> NULL]]
  BY DEF MemInit
<1>4. PICK end \in Nat : end = Regions[1].start + Regions[1].size
  BY <1>1
<1>5. a + s + Header = end
  BY <1>1, <1>4
<1>6. \A x \in Nat : InRegion(1, x) <=> a <= x /\ x < end
  BY <1>4 DEF InRegion
<1> HIDE DEF a, s, D
<1>7. /\ DOMAIN free = D /\ free[a].size = s /\ free[a].next = NULL /\ free[a].prev = NULL
      /\ DOMAIN used = {}
  BY <1>2, <1>3
<1>8. FreeList(free)
  <2>1. [size |-> s, next |-> NULL, prev |-> NULL] \in FreeBlock
    BY <1>2 DEF FreeBlock, NULL
  <2>2. free \in [D -> FreeBlock]
    BY <1>3, <2>1
  <2>3. IsFiniteSet(D)
    BY <1>2, FS_Singleton
  <2>4. D \subseteq Nat \ {NULL}
    BY <1>2
  <2> QED BY <1>7, <2>2, <2>3, <2>4 DEF FreeList
<1>9. BufferTypeOK
  <2>1. used \in [DOMAIN used -> Nat]
    BY <1>3, <1>7
  <2>2. appended \in 1..Len(Regions) /\ dwFreeBlocks \in Nat
    BY <1>1, <1>3
  <2> QED BY <1>2, <1>3, <1>7, <1>8, <2>1, <2>2 DEF BufferTypeOK
<1>10. ListInOrder
  <2>1. IsNext(D, NULL, a)
    BY <1>2 DEF IsNext, NULL
  <2>2. IsNext(D, a, NULL) /\ IsPrev(D, a, NULL)
    BY <1>2 DEF IsNext, IsPrev
  <2> QED BY <1>2, <1>3, <1>7, <2>1, <2>2 DEF ListInOrder, LinkedByAddress
<1>11. BlocksApart
  <2>1. ~(a + s + Header = a)
    BY <1>1, <1>2
  <2> QED BY <1>2, <1>7, <2>1 DEF BlocksApart, Coalesced, Apart, Touch
<1>12. RegionsCovered
  <2> SUFFICES ASSUME NEW x \in Nat
               PROVE  InFree(free, x) \/ InUsed(used, x) <=> \E i \in 1..appended : InRegion(i, x)
    BY DEF RegionsCovered
  <2>1. InFree(free, x) <=> a <= x /\ x < end
    BY <1>2, <1>5, <1>7 DEF InFree
  <2>2. ~InUsed(used, x)
    BY <1>7 DEF InUsed
  <2>3. (\E i \in 1..appended : InRegion(i, x)) <=> InRegion(1, x)
    BY <1>3
  <2> QED BY <1>6, <2>1, <2>2, <2>3
<1>13. CountsExact
  <2>1. Cardinality(D) = 1
    BY <1>2, FS_Singleton
  <2>2. FreeBytes(free) = Payload(a, s)
    BY <1>2, <1>7 DEF FreeBytes
  <2>3. PICK lo \in Nat : lo = a + Header
    BY <1>1, <1>2
  <2>4. Payload(a, s) = lo..lo + s - 1
    BY <2>3 DEF Payload
  <2>5. PICK S : S = {}
    OBVIOUS
  <2>6. IsFiniteSet(S) /\ Cardinality(S) = 0 /\ S \intersect (lo..lo + s - 1) = {}
    BY <2>5, FS_EmptySet
  <2>7. IsFiniteSet(S \union (lo..lo + s - 1))
    BY <1>2, <2>6, AddInterval
  <2>8. Cardinality(S \union (lo..lo + s - 1)) = Cardinality(S) + s
    BY <1>2, <2>6, AddInterval
  <2>10. S \union (lo..lo + s - 1) = FreeBytes(free)
    BY <2>2, <2>4, <2>5
  <2>11. IsFiniteSet(FreeBytes(free)) /\ Cardinality(FreeBytes(free)) = 0 + s
    BY <2>6, <2>7, <2>8, <2>10, Zenon
  <2>12. 0 + s = s
    BY <1>2
  <2>9. IsFiniteSet(FreeBytes(free)) /\ Cardinality(FreeBytes(free)) = s
    BY <2>11, <2>12, Zenon
  <2> QED BY <1>3, <1>7, <2>1, <2>9 DEF CountsExact
<1> QED
  BY <1>9, <1>10, <1>11, <1>12, <1>13 DEF BufferIInv

LEMMA EmptyPools ==
  ASSUME MemoryAssumption, MemInit
  PROVE  PoolIInv
<1>1. LongestFreeRun({}) = PoolPages
  <2> DEFINE lengths == {n \in 0..PoolPages :
                           \E s \in 0..PoolPages - n : Run(s, n) \intersect {} = {}}
  <2>1. PoolPages \in Nat /\ lengths \subseteq 0..PoolPages
    BY PagesAre
  <2>2. PoolPages \in lengths
    <3>1. 0 \in 0..PoolPages - PoolPages /\ Run(0, PoolPages) \intersect {} = {}
      BY <2>1
    <3>2. PoolPages \in 0..PoolPages
      BY <2>1
    <3> QED BY <3>1, <3>2
  <2>3. LongestFreeRun({}) = Max(lengths)
    BY DEF LongestFreeRun
  <2> HIDE DEF lengths
  <2>4. Max(lengths) \in lengths /\ PoolPages <= Max(lengths)
    BY <2>1, <2>2, MaxIs
  <2>5. PICK m \in 0..PoolPages : m = Max(lengths)
    BY <2>1, <2>4
  <2>6. m = PoolPages
    BY <2>1, <2>4, <2>5
  <2> QED BY <2>3, <2>5, <2>6
<1>2. PoolTypeOK
  BY PagesAre DEF MemInit, PoolTypeOK
<1>3. PoolsMatch
  BY <1>1 DEF MemInit, PoolsMatch
<1> QED
  BY <1>2, <1>3 DEF PoolIInv

LEMMA BuffersUntouched ==
  ASSUME BufferIInv, UNCHANGED bufferVars
  PROVE  BufferIInv'
<1>1. /\ lpFreeBufferHeader' = lpFreeBufferHeader /\ free' = free /\ used' = used
      /\ dwFreeSize' = dwFreeSize /\ dwFreeBlocks' = dwFreeBlocks /\ appended' = appended
  BY DEF bufferVars
<1>2. BufferTypeOK'
  BY <1>1 DEF BufferIInv, BufferTypeOK
<1>3. ListInOrder' /\ BlocksApart' /\ CountsExact'
  BY <1>1 DEF BufferIInv, ListInOrder, BlocksApart, CountsExact
<1>4. RegionsCovered'
  BY <1>1 DEF BufferIInv, RegionsCovered
<1> QED
  BY <1>2, <1>3, <1>4 DEF BufferIInv

LEMMA PoolsUntouched ==
  ASSUME PoolIInv, UNCHANGED poolVars
  PROVE  PoolIInv'
  BY DEF PoolIInv, PoolTypeOK, PoolsMatch, poolVars

\* The invariant holds of the buffers and of the pools for any memory map, any
\* sizes that are asked for and any number and size of pools.
THEOREM MemInvariance == MemSpec => []MemIInv
<1>1. MemInit => MemIInv
  BY MemoryAssumption, FirstBlock, EmptyPools DEF MemIInv
<1>2. MemIInv /\ [MemNext]_memVars => MemIInv'
  <2> SUFFICES ASSUME MemIInv, [MemNext]_memVars
               PROVE  MemIInv'
    OBVIOUS
  <2>1. MemoryAssumption /\ BufferIInv /\ PoolIInv
    BY MemoryAssumption DEF MemIInv
  <2>2. CASE AppendBuffer
    <3>1. BufferIInv'
      BY <2>1, <2>2, AppendPreserves
    <3>2. UNCHANGED poolVars
      BY <2>2 DEF AppendBuffer
    <3> QED BY <2>1, <3>1, <3>2, PoolsUntouched DEF MemIInv
  <2>3. CASE \E dwSize \in Sizes : Allocate(dwSize)
    <3>1. BufferIInv'
      BY <2>1, <2>3, AllocatePreserves
    <3>2. UNCHANGED poolVars
      BY <2>3 DEF Allocate
    <3> QED BY <2>1, <3>1, <3>2, PoolsUntouched DEF MemIInv
  <2>4. CASE \E a \in DOMAIN used : KMemFree(a)
    <3>1. BufferIInv'
      BY <2>1, <2>4, KMemFreePreserves
    <3>2. UNCHANGED poolVars
      BY <2>4 DEF KMemFree
    <3> QED BY <2>1, <3>1, <3>2, PoolsUntouched DEF MemIInv
  <2>5. CASE \E num \in 1..PoolPages : _4kAllocate(num)
    <3>1. PoolIInv'
      BY <2>1, <2>5, AllocatePagesPreserves
    <3>2. UNCHANGED bufferVars
      BY <2>5 DEF _4kAllocate
    <3> QED BY <2>1, <3>1, <3>2, BuffersUntouched DEF MemIInv
  <2>6. CASE \E run \in lent : _4kFree(run)
    <3>1. PoolIInv'
      BY <2>1, <2>6, FreePagesPreserves
    <3>2. UNCHANGED bufferVars
      BY <2>6 DEF _4kFree
    <3> QED BY <2>1, <3>1, <3>2, BuffersUntouched DEF MemIInv
  <2>7. CASE UNCHANGED memVars
    <3>1. UNCHANGED bufferVars /\ UNCHANGED poolVars
      BY <2>7 DEF memVars
    <3> QED BY <2>1, <3>1, BuffersUntouched, PoolsUntouched DEF MemIInv
  <2> QED BY <2>2, <2>3, <2>4, <2>5, <2>6, <2>7 DEF MemNext
<1> QED
  BY <1>1, <1>2, PTL DEF MemSpec

\* No page of a pool is lent twice and each cached size is that of the longest
\* free run, for any number of pools of any size, although _4kAllocate and
\* _4kFree (kmemmgr.c) search beyond the end of the map.
THEOREM PoolsStayExact == MemSpec => []PoolsAreExact
<1>1. MemIInv => PoolsAreExact
  <2> SUFFICES ASSUME MemIInv, NEW i \in Pools
               PROVE  LET mine == {r \in lent : r.pool = i} IN
                      /\ dwOccupMap[i] = UNION {Run(r.start, r.num) : r \in mine}
                      /\ dwOccupMap[i] \subseteq Pages
                      /\ \A r, q \in mine :
                           r # q => Run(r.start, r.num) \intersect Run(q.start, q.num) = {}
                      /\ dwMaxBlockSize[i] = LongestFreeRun(dwOccupMap[i])
    BY DEF PoolsAreExact
  <2> DEFINE mine == {r \in lent : r.pool = i}
  <2>1. PoolTypeOK /\ PoolsMatch
    BY DEF MemIInv, PoolIInv
  <2>2. dwOccupMap[i] \subseteq Pages
    BY <2>1 DEF PoolTypeOK
  <2>3. \A x \in Pages :
          x \in dwOccupMap[i] <=> \E r \in lent : r.pool = i /\ x \in Run(r.start, r.num)
    BY <2>1 DEF PoolsMatch
  <2>4. ASSUME NEW r \in lent
        PROVE  Run(r.start, r.num) \subseteq Pages
    <3>1. /\ r.start \in Pages /\ r.num \in 1..PoolPages /\ r.start + r.num <= PoolPages
      BY <2>1 DEF PoolTypeOK
    <3>2. PICK start \in Nat, num \in Nat : start = r.start /\ num = r.num
      BY <3>1, MemoryAssumption, PagesAre, SMTT(60)
    <3>3. start + num <= PoolPages
      BY <3>1, <3>2
    <3>4. \A x \in start..start + num - 1 : x \in Nat /\ x < PoolPages
      BY <3>3, MemoryAssumption, PagesAre
    <3>5. start..start + num - 1 \subseteq Pages
      BY <3>4, MemoryAssumption, PagesAre
    <3> QED BY <3>2, <3>5 DEF Run
  <2>5. dwOccupMap[i] = UNION {Run(r.start, r.num) : r \in mine}
    <3> HIDE DEF Pages
    <3>1. \A x : x \in UNION {Run(r.start, r.num) : r \in mine}
                   <=> \E r \in lent : r.pool = i /\ x \in Run(r.start, r.num)
      OBVIOUS
    <3> QED BY <2>2, <2>3, <2>4, <3>1
  <2>6. /\ \A r, q \in mine :
             r # q => Run(r.start, r.num) \intersect Run(q.start, q.num) = {}
        /\ dwMaxBlockSize[i] = LongestFreeRun(dwOccupMap[i])
    BY <2>1 DEF PoolsMatch
  <2> QED BY <2>2, <2>5, <2>6
<1> QED
  BY <1>1, MemInvariance, PTL

\* Free and allocated blocks never overlap and always make up all the memory
\* that Initialize has taken in; dwFreeSize and dwFreeBlocks of AnySizeBuffer
\* are exact, for any regions and after any allocations and releases.
THEOREM MemoryIsTiled == MemSpec => []BlocksTileRegions
<1>1. MemIInv => BlocksTileRegions
  <2> SUFFICES ASSUME MemIInv
               PROVE  BlocksTileRegions
    OBVIOUS
  <2>1. /\ BufferTypeOK /\ BlocksApart /\ RegionsCovered /\ CountsExact /\ FreeList(free)
    BY DEF MemIInv, BufferIInv, BufferTypeOK
  <2>2. /\ Header \in Nat /\ Header > 0
    BY MemoryAssumption, PagesAre
  <2>3. /\ \A a \in DOMAIN free : a \in Nat /\ free[a].size \in Nat
        /\ \A a \in DOMAIN used : a \in Nat /\ used[a] \in Nat
    BY <2>1, FreeListFact DEF BufferTypeOK
  <2>4. DOMAIN free \intersect DOMAIN used = {}
    <3>1. \A a \in DOMAIN used : a \notin DOMAIN free
      BY <2>1, <2>3, MemoryAssumption, ClearOutside DEF BlocksApart
    <3> QED BY <3>1
  <2>5. /\ \A a \in DOMAIN free : a \in Blocks /\ BlockSize(a) = free[a].size
        /\ \A a \in DOMAIN used : a \in Blocks /\ BlockSize(a) = used[a]
        /\ \A a \in Blocks : a \in DOMAIN free \/ a \in DOMAIN used
    BY <2>4 DEF Blocks, BlockSize
  <2>6. \A a \in Blocks : a \in Nat /\ BlockSize(a) \in Nat
    BY <2>3, <2>5
  <2>7. \A a, b \in Blocks : a # b => Beside(a, BlockSize(a), b, BlockSize(b))
    <3>1. \A a, b \in DOMAIN free : a # b => Beside(a, free[a].size, b, free[b].size)
      BY <2>1 DEF BlocksApart, Coalesced, Apart
    <3>2. \A a, b \in DOMAIN used : a # b => Beside(a, used[a], b, used[b])
      BY <2>1 DEF BlocksApart
    <3>3. \A a \in DOMAIN free, b \in DOMAIN used : Beside(a, free[a].size, b, used[b])
      BY <2>1 DEF BlocksApart, Clear
    <3>4. \A a, s, b, t : Beside(a, s, b, t) <=> Beside(b, t, a, s)
      BY DEF Beside
    <3> QED BY <2>5, <3>1, <3>2, <3>3, <3>4
  <2>8. ASSUME NEW a \in Blocks, NEW b \in Blocks, a < b
        PROVE  a + BlockSize(a) + Header <= b
    <3>1. PICK m \in Nat, n \in Nat, s \in Nat, t \in Nat :
            m = a /\ n = b /\ s = BlockSize(a) /\ t = BlockSize(b)
      BY <2>6
    <3>2. m < n /\ m # n
      BY <2>8, <3>1
    <3>3. m + s + Header <= n \/ n + t + Header <= m
      BY <2>7, <3>1, <3>2 DEF Beside
    <3>4. m + s + Header <= n
      BY <2>2, <3>2, <3>3
    <3> QED BY <3>1, <3>4
  <2>9. \A x : x \in UNION {Extent(a, BlockSize(a)) : a \in Blocks}
                 <=> x \in Nat /\ (InFree(free, x) \/ InUsed(used, x))
    <3>1. \A x : x \in UNION {Extent(a, BlockSize(a)) : a \in Blocks}
                   <=> \E a \in Blocks : x \in Extent(a, BlockSize(a))
      OBVIOUS
    <3>2. ASSUME NEW a \in Nat, NEW s \in Nat
          PROVE  \A x : x \in Extent(a, s) <=> x \in Nat /\ a <= x /\ x < a + s + Header
      BY <2>2 DEF Extent
    <3>3. \A x : \A a \in Blocks :
            x \in Extent(a, BlockSize(a)) <=> x \in Nat /\ Within(x, a, BlockSize(a))
      BY <2>6, <3>2 DEF Within
    <3>4. \A x : /\ InFree(free, x) <=> \E a \in DOMAIN free : Within(x, a, free[a].size)
                 /\ InUsed(used, x) <=> \E a \in DOMAIN used : Within(x, a, used[a])
      BY DEF InFree, InUsed, Within
    <3> QED BY <2>5, <3>1, <3>3, <3>4
  <2>10. \A x : x \in UNION {r.start..r.start + r.size - 1 : r \in Appended}
                  <=> x \in Nat /\ \E i \in 1..appended : InRegion(i, x)
    <3>1. appended \in 1..Len(Regions) /\ appended \in Nat
      BY <2>1 DEF BufferTypeOK
    <3>2. \A i \in 1..appended : Regions[i].start \in Nat /\ Regions[i].size \in Nat
      <4> DEFINE Extents == [start : Nat \ {NULL}, size : Nat]
      <4>1. Regions \in Seq(Extents)
        BY MemoryAssumption DEF MemoryAssumption
      <4>2. \A i \in 1..appended : Regions[i] \in Extents
        <5> HIDE DEF Extents
        <5> QED BY <3>1, <4>1
      <4>3. \A q \in Extents : q.start \in Nat /\ q.size \in Nat
        OBVIOUS
      <4> HIDE DEF Extents
      <4> QED BY <4>2, <4>3
    <3>3. \A x : x \in UNION {r.start..r.start + r.size - 1 : r \in Appended}
                   <=> \E r \in Appended : x \in r.start..r.start + r.size - 1
      OBVIOUS
    <3>4. \A r : r \in Appended <=> \E i \in 1..appended :
                   (i = 1 \/ Regions[i].size >= Header + MinBuffer) /\ r = Regions[i]
      BY DEF Appended
    <3>5. \A x : \A i \in 1..appended :
            x \in Regions[i].start..Regions[i].start + Regions[i].size - 1
              <=> x \in Nat /\ Regions[i].start <= x /\ x < Regions[i].start + Regions[i].size
      <4>1. ASSUME NEW a \in Nat, NEW s \in Nat
            PROVE  \A x : x \in a..a + s - 1 <=> x \in Nat /\ a <= x /\ x < a + s
        OBVIOUS
      <4> QED BY <3>2, <4>1
    <3> QED BY <3>3, <3>4, <3>5 DEF InRegion
  <2>11. UNION {Extent(a, BlockSize(a)) : a \in Blocks}
           = UNION {r.start..r.start + r.size - 1 : r \in Appended}
    <3>1. \A x : x \in UNION {Extent(a, BlockSize(a)) : a \in Blocks}
                   <=> x \in UNION {r.start..r.start + r.size - 1 : r \in Appended}
      BY <2>1, <2>9, <2>10 DEF RegionsCovered
    <3> QED BY <3>1, Zenon
  <2> QED BY <2>1, <2>4, <2>8, <2>11 DEF BlocksTileRegions, CountsExact, FreeBytes
<1> QED
  BY <1>1, MemInvariance, PTL

\* The list reaches every free block, by rising address and back, and no two
\* free blocks touch, whatever ReleaseAndCombine (mem_fbl.c) merged before.
THEOREM FreeListStaysCoalesced == MemSpec => []FreeListIsCoalesced
<1>1. MemIInv => FreeListIsCoalesced
  <2> SUFFICES ASSUME MemIInv
               PROVE  FreeListIsCoalesced
    OBVIOUS
  <2>1. /\ BufferTypeOK /\ ListInOrder /\ LinkedByAddress(free) /\ FreeList(free)
        /\ IsNext(DOMAIN free, NULL, lpFreeBufferHeader) /\ Coalesced(free)
    BY DEF MemIInv, BufferIInv, BufferTypeOK, ListInOrder, BlocksApart
  <2>2. /\ Nth[Cardinality(DOMAIN free)] = NULL
        /\ {Nth[k] : k \in DOMAIN Nth} \ {NULL} = DOMAIN free
    BY <2>1, NthEnds, NthReachesAll
  <2>3. /\ Header \in Nat /\ Header > 0
        /\ \A a \in DOMAIN free : a \in Nat /\ a # NULL /\ free[a].size \in Nat
    BY <2>1, MemoryAssumption, PagesAre, FreeListFact
  <2>4. ASSUME NEW a \in DOMAIN free
        PROVE  /\ free[a].prev = NULL <=> a = lpFreeBufferHeader
               /\ free[a].next # NULL => /\ a + free[a].size + Header < free[a].next
                                         /\ free[free[a].next].prev = a
    <3>1. IsNext(DOMAIN free, a, free[a].next) /\ IsPrev(DOMAIN free, a, free[a].prev)
      BY <2>1 DEF LinkedByAddress
    <3>2. free[a].prev = NULL <=> a = lpFreeBufferHeader
      <4>1. lpFreeBufferHeader \in DOMAIN free /\ \A b \in DOMAIN free : ~(b < lpFreeBufferHeader)
        BY <2>1, <2>3 DEF IsNext, NULL
      <4>2. ASSUME free[a].prev = NULL
            PROVE  a = lpFreeBufferHeader
        BY <2>3, <3>1, <4>1, <4>2 DEF IsPrev
      <4>3. ASSUME a = lpFreeBufferHeader
            PROVE  free[a].prev = NULL
        BY <3>1, <4>1, <4>3 DEF IsPrev
      <4> QED BY <4>2, <4>3
    <3>3. ASSUME free[a].next # NULL
          PROVE  /\ a + free[a].size + Header < free[a].next
                 /\ free[free[a].next].prev = a
      <4>1. PICK n : n = free[a].next
        OBVIOUS
      <4>2. n \in DOMAIN free /\ a < n /\ n # NULL
        BY <3>1, <3>3, <4>1 DEF IsNext
      <4>3. IsPrev(DOMAIN free, n, free[n].prev)
        BY <2>1, <4>2 DEF LinkedByAddress
      <4>4. IsPrev(DOMAIN free, n, a)
        BY <2>1, <2>3, <3>1, <4>1, <4>2, NextIsPrev DEF FreeList
      <4>5. free[n].prev = a
        BY <2>1, <2>3, <4>2, <4>3, <4>4, PrevUnique DEF FreeList
      <4>6. PICK x \in Nat, y \in Nat, s \in Nat, t \in Nat :
              x = a /\ y = n /\ s = free[a].size /\ t = free[n].size
        BY <2>3, <4>2
      <4>7. a # n
        BY <2>3, <4>2
      <4>8. x + s + Header <= y \/ y + t + Header <= x
        BY <2>1, <4>2, <4>6, <4>7 DEF Coalesced, Apart, Beside
      <4>9. x + s + Header # y
        BY <2>1, <4>2, <4>6 DEF Coalesced, Touch
      <4>10. x < y
        BY <4>2, <4>6
      <4>11. x + s + Header < y
        BY <2>3, <4>8, <4>9, <4>10
      <4> QED BY <4>1, <4>5, <4>6, <4>11
    <3> QED BY <3>2, <3>3
  <2> QED BY <2>2, <2>4 DEF FreeListIsCoalesced
<1> QED
  BY <1>1, MemInvariance, PTL
=============================================================================

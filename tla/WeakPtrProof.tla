---------------------------- MODULE WeakPtrProof ----------------------------
(***************************************************************************)
(* Proofs about WeakPtr: its heap invariant and that it implements WeakRef, *)
(* for any number of pointers, objects and handles.                         *)
(*                                                                          *)
(* HeapInv is shown to be kept by each of the heap operators, and what each *)
(* of them does to Get is stated as a lemma of its own; set() is then the   *)
(* composition of two of them.                                              *)
(***************************************************************************)
EXTENDS WeakPtr, FiniteSetTheorems, TLAPS

\* The pointers on a handle are finitely many.
LEMMA HoldersFinite == \A s, h : IsFiniteSet(Holders(s, h))
<1> SUFFICES ASSUME NEW s, NEW h PROVE IsFiniteSet(Holders(s, h))
  OBVIOUS
<1>1. Holders(s, h) \in SUBSET Ptrs
  BY DEF Holders
<1> QED BY <1>1, FS_Subset, WeakAssumption

\* One pointer less, and one pointer more, on a handle.
LEMMA OneLess ==
    ASSUME NEW A, IsFiniteSet(A), NEW x \in A
    PROVE  Cardinality(A \ {x}) = Cardinality(A) - 1
BY FS_RemoveElement

LEMMA OneMore ==
    ASSUME NEW A, IsFiniteSet(A), NEW x, x \notin A
    PROVE  Cardinality(A \union {x}) = Cardinality(A) + 1
BY FS_AddElement

\* A handle with a count of one is on one pointer only.
LEMMA OnlyHolder ==
    ASSUME NEW s, NEW h, NEW p \in Ptrs, s.handle[p] = h,
           Cardinality(Holders(s, h)) = 1
    PROVE  \A q \in Ptrs : s.handle[q] = h => q = p
<1>1. PICK x : Holders(s, h) = {x}
  BY HoldersFinite, FS_Singleton
<1> QED BY <1>1 DEF Holders

-----------------------------------------------------------------------------
(***************************************************************************)
(* The first half of set().                                                *)
(***************************************************************************)

\* Freeing a handle whose only pointer lets go.
LEMMA FreeKeeps ==
    ASSUME NEW s, NEW live, HeapInv(s, live), NEW p \in Ptrs, NEW h,
           h = s.handle[p], h # Nil, s.count[h] = 1
    PROVE  HeapInv(Free(s, p, h), live)
<1> DEFINE t == Free(s, p, h)
<1> USE WeakAssumption DEF HeapInv, HeapType
<1>1. h \in Handles /\ h \in s.allocated /\ \A q \in Ptrs : s.handle[q] = h => q = p
  <2>1. h \in s.allocated
    BY DEF Counted
  <2> QED BY <2>1, OnlyHolder DEF Counted
<1>2. t \in HeapType
  BY <1>1 DEF Free
<1>3. OwnHandle(t, live)
  <2> SUFFICES ASSUME NEW o \in Objs, t.own[o] # Nil
               PROVE  o \in live /\ t.own[o] \in t.allocated /\ t.target[t.own[o]] = o
    BY DEF OwnHandle
  <2>1. o # s.target[h] /\ t.own[o] = s.own[o]
    BY DEF Free
  <2>2. o \in live /\ s.own[o] \in s.allocated /\ s.target[s.own[o]] = o
    BY <2>1 DEF OwnHandle
  <2>3. s.own[o] # h
    BY <2>1, <2>2
  <2> QED BY <2>1, <2>2, <2>3, <1>1 DEF Free
<1>4. OwnTarget(t)
  <2> SUFFICES ASSUME NEW g \in t.allocated, t.target[g] # Nil
               PROVE  t.own[t.target[g]] = g
    BY DEF OwnTarget
  <2>1. g \in s.allocated /\ g # h /\ t.target[g] = s.target[g] /\ g \in Handles
    BY <1>1 DEF Free
  <2>2. s.own[s.target[g]] = g /\ s.target[g] \in Objs
    BY <2>1 DEF OwnTarget
  <2>3. s.target[g] # s.target[h]
    BY <1>1, <2>1, <2>2 DEF OwnTarget
  <2> QED BY <2>1, <2>2, <2>3 DEF Free
<1>5. Counted(t)
  <2>1. ASSUME NEW g \in t.allocated
        PROVE  t.count[g] = Cardinality(Holders(t, g)) /\ t.count[g] > 0
    <3>1. g \in s.allocated /\ g # h /\ t.count[g] = s.count[g]
      BY <1>1 DEF Free
    <3>2. Holders(t, g) = Holders(s, g)
      BY <3>1, <1>1 DEF Holders, Free
    <3> QED BY <3>1, <3>2 DEF Counted
  <2>2. ASSUME NEW q \in Ptrs, t.handle[q] # Nil
        PROVE  t.handle[q] \in t.allocated
    BY <2>2, <1>1 DEF Counted, Free
  <2> QED BY <2>1, <2>2 DEF Counted
<1> QED BY <1>2, <1>3, <1>4, <1>5

\* Dropping a handle that other pointers keep.
LEMMA DropKeeps ==
    ASSUME NEW s, NEW live, HeapInv(s, live), NEW p \in Ptrs, NEW h,
           h = s.handle[p], h # Nil, s.count[h] # 1
    PROVE  HeapInv(Drop(s, p, h), live)
<1> DEFINE t == Drop(s, p, h)
<1> USE WeakAssumption DEF HeapInv, HeapType
<1>1. h \in Handles /\ h \in s.allocated /\ s.count[h] > 1
  BY DEF Counted
<1>2. /\ t.handle = [s.handle EXCEPT ![p] = Nil]
      /\ t.count = [s.count EXCEPT ![h] = s.count[h] - 1]
      /\ t.own = s.own /\ t.target = s.target /\ t.allocated = s.allocated
  BY DEF Drop
<1>3. t \in HeapType
  BY <1>1 DEF Drop
<1>4. OwnHandle(t, live) /\ OwnTarget(t)
  BY <1>2 DEF OwnHandle, OwnTarget
<1>5. Counted(t)
  <2>1. ASSUME NEW g \in s.allocated
        PROVE  t.count[g] = Cardinality(Holders(t, g)) /\ t.count[g] > 0
    <3>1. CASE g = h
      <4>1. Holders(t, h) = Holders(s, h) \ {p} /\ p \in Holders(s, h)
        BY <1>2 DEF Holders
      <4>2. Cardinality(Holders(t, h)) = Cardinality(Holders(s, h)) - 1
        BY <4>1, HoldersFinite, OneLess
      <4>3. s.count[h] = Cardinality(Holders(s, h)) /\ t.count[h] = s.count[h] - 1
        BY <1>1, <1>2 DEF Counted
      <4> QED BY <3>1, <4>2, <4>3, <1>1
    <3>2. CASE g # h
      <4>1. Holders(t, g) = Holders(s, g) /\ t.count[g] = s.count[g]
        BY <1>2, <3>2 DEF Holders
      <4> QED BY <4>1 DEF Counted
    <3> QED BY <3>1, <3>2
  <2> QED BY <2>1, <1>2 DEF Counted
<1> QED BY <1>3, <1>4, <1>5

\* Either way the pointer is left without a handle, and returns nothing, while
\* the others return what they did.
LEMMA ReleaseKeeps ==
    ASSUME NEW s, NEW live, HeapInv(s, live), NEW p \in Ptrs
    PROVE  /\ HeapInv(Release(s, p), live)
           /\ Release(s, p).handle[p] = Nil
           /\ \A q \in Ptrs : Get(Release(s, p), q) = IF q = p THEN Nil ELSE Get(s, q)
<1> DEFINE h == s.handle[p]
<1> USE WeakAssumption DEF HeapInv, HeapType
<1>1. CASE h = Nil
  BY <1>1 DEF Release, Get
<1>2. CASE h # Nil /\ s.count[h] = 1
  <2>1. Release(s, p) = Free(s, p, h)
    BY <1>2 DEF Release
  <2>2. \A q \in Ptrs : s.handle[q] = h => q = p
    BY <1>2, OnlyHolder DEF Counted
  <2> QED BY <1>2, <2>1, <2>2, FreeKeeps DEF Free, Get
<1>3. CASE h # Nil /\ s.count[h] # 1
  <2>1. Release(s, p) = Drop(s, p, h)
    BY <1>3 DEF Release
  <2> QED BY <1>3, <2>1, DropKeeps DEF Drop, Get
<1> QED BY <1>1, <1>2, <1>3

-----------------------------------------------------------------------------
(***************************************************************************)
(* The second half, for a pointer without a handle and an object that lives. *)
(***************************************************************************)

\* Joining the pointers of an object.
LEMMA ShareKeeps ==
    ASSUME NEW s, NEW live, HeapInv(s, live), NEW p \in Ptrs, s.handle[p] = Nil,
           NEW o \in Objs, s.own[o] # Nil
    PROVE  /\ HeapInv(Share(s, p, o), live)
           /\ \A q \in Ptrs : Get(Share(s, p, o), q) = IF q = p THEN o ELSE Get(s, q)
<1> DEFINE t == Share(s, p, o)
           h == s.own[o]
<1> USE WeakAssumption DEF HeapInv, HeapType
<1>1. h \in Handles /\ h \in s.allocated /\ s.target[h] = o /\ s.count[h] \in Nat
  BY DEF OwnHandle
<1>2. /\ t.handle = [s.handle EXCEPT ![p] = h]
      /\ t.count = [s.count EXCEPT ![h] = s.count[h] + 1]
      /\ t.own = s.own /\ t.target = s.target /\ t.allocated = s.allocated
  BY DEF Share
<1>3. t \in HeapType
  BY <1>1 DEF Share
<1>4. OwnHandle(t, live) /\ OwnTarget(t)
  BY <1>2 DEF OwnHandle, OwnTarget
<1>5. Counted(t)
  <2>1. ASSUME NEW g \in s.allocated
        PROVE  t.count[g] = Cardinality(Holders(t, g)) /\ t.count[g] > 0
    <3>1. CASE g = h
      <4>1. Holders(t, h) = Holders(s, h) \union {p} /\ p \notin Holders(s, h)
        BY <1>1, <1>2 DEF Holders
      <4>2. Cardinality(Holders(t, h)) = Cardinality(Holders(s, h)) + 1
        BY <4>1, HoldersFinite, OneMore
      <4>3. s.count[h] = Cardinality(Holders(s, h)) /\ t.count[h] = s.count[h] + 1
        BY <1>1, <1>2 DEF Counted
      <4> QED BY <3>1, <4>2, <4>3, <1>1
    <3>2. CASE g # h
      <4>1. Holders(t, g) = Holders(s, g) /\ t.count[g] = s.count[g]
        BY <1>2, <3>2 DEF Holders
      <4> QED BY <4>1 DEF Counted
    <3> QED BY <3>1, <3>2
  <2>2. ASSUME NEW q \in Ptrs, t.handle[q] # Nil
        PROVE  t.handle[q] \in t.allocated
    BY <2>2, <1>1, <1>2 DEF Counted
  <2> QED BY <2>1, <2>2, <1>2 DEF Counted
<1>6. \A q \in Ptrs : Get(t, q) = IF q = p THEN o ELSE Get(s, q)
  BY <1>1, <1>2 DEF Get
<1> QED BY <1>3, <1>4, <1>5, <1>6

\* Making a handle at an address that is free.
LEMMA CreateKeeps ==
    ASSUME NEW s, NEW live, HeapInv(s, live), NEW p \in Ptrs, s.handle[p] = Nil,
           NEW o \in Objs, o \in live, s.own[o] = Nil, NEW h \in Handles \ s.allocated
    PROVE  /\ HeapInv(Create(s, p, o, h), live)
           /\ \A q \in Ptrs : Get(Create(s, p, o, h), q) = IF q = p THEN o ELSE Get(s, q)
<1> DEFINE t == Create(s, p, o, h)
<1> USE WeakAssumption DEF HeapInv, HeapType
<1>1. /\ t.handle = [s.handle EXCEPT ![p] = h] /\ t.own = [s.own EXCEPT ![o] = h]
      /\ t.target = [s.target EXCEPT ![h] = o] /\ t.count = [s.count EXCEPT ![h] = 1]
      /\ t.allocated = s.allocated \union {h}
  BY DEF Create
<1>2. t \in HeapType
  BY DEF Create
<1>3. OwnHandle(t, live)
  BY <1>1 DEF OwnHandle
<1>4. OwnTarget(t)
  BY <1>1 DEF OwnTarget
<1>5. Counted(t)
  <2>1. Holders(t, h) = {p}
    BY <1>1 DEF Holders, Counted
  <2>2. Cardinality({p}) = 1
    BY FS_Singleton
  <2>3. ASSUME NEW g \in s.allocated
        PROVE  t.count[g] = Cardinality(Holders(t, g)) /\ t.count[g] > 0
    <3>1. Holders(t, g) = Holders(s, g) /\ t.count[g] = s.count[g]
      BY <1>1 DEF Holders
    <3> QED BY <3>1 DEF Counted
  <2>4. \A q \in Ptrs : t.handle[q] # Nil => t.handle[q] \in t.allocated
    BY <1>1 DEF Counted
  <2>5. t.count[h] = Cardinality(Holders(t, h)) /\ t.count[h] > 0
    <3>1. t.count[h] = 1
      BY <1>1
    <3> HIDE DEF t
    <3> QED BY <3>1, <2>1, <2>2
  <2>6. \A g \in t.allocated : g = h \/ g \in s.allocated
    BY <1>1
  <2> HIDE DEF t
  <2> QED BY <2>3, <2>4, <2>5, <2>6 DEF Counted
<1>6. \A q \in Ptrs : Get(t, q) = IF q = p THEN o ELSE Get(s, q)
  BY <1>1 DEF Get, Counted
<1> QED BY <1>2, <1>3, <1>4, <1>5, <1>6

-----------------------------------------------------------------------------
(***************************************************************************)
(* The steps.                                                              *)
(***************************************************************************)

\* set() as a whole: the heap stays in order, and the pointer refers to o.
LEMMA SetKeeps ==
    ASSUME IInv, NEW p \in Ptrs, NEW o \in alive \union {Nil}, Set(p, o)
    PROVE  /\ IInv'
           /\ \A q \in Ptrs : Get(heap, q)' = IF q = p THEN o ELSE Get(heap, q)
<1> DEFINE s == Release(heap, p)
<1>1. /\ HeapInv(s, alive) /\ s.handle[p] = Nil
      /\ \A q \in Ptrs : Get(s, q) = IF q = p THEN Nil ELSE Get(heap, q)
  BY ReleaseKeeps DEF IInv
<1>2. o # Nil => o \in Objs /\ o \in alive
  BY DEF IInv
<1>3. UNCHANGED alive
  BY DEF Set
<1>4. /\ HeapInv(heap', alive)
      /\ \A q \in Ptrs : Get(heap', q) = IF q = p THEN o ELSE Get(heap, q)
  <2> HIDE DEF s
  <2>1. \/ o = Nil /\ heap' = s
        \/ o # Nil /\ s.own[o] # Nil /\ heap' = Share(s, p, o)
        \/ /\ o # Nil /\ s.own[o] = Nil
           /\ \E h \in Handles \ s.allocated : heap' = Create(s, p, o, h)
    BY DEF Set, s
  <2>2. CASE o = Nil /\ heap' = s
    BY <2>2, <1>1
  <2>3. CASE o # Nil /\ s.own[o] # Nil /\ heap' = Share(s, p, o)
    BY <2>3, <1>1, <1>2, ShareKeeps
  <2>4. ASSUME o # Nil, s.own[o] = Nil, NEW h \in Handles \ s.allocated,
               heap' = Create(s, p, o, h)
        PROVE  /\ HeapInv(heap', alive)
               /\ \A q \in Ptrs : Get(heap', q) = IF q = p THEN o ELSE Get(heap, q)
    BY <2>4, <1>1, <1>2, CreateKeeps
  <2> QED BY <2>1, <2>2, <2>3, <2>4
<1> QED BY <1>3, <1>4 DEF IInv, Get

\* What a pointer returns is an object that exists, or nullptr.
LEMMA GetAlive ==
    ASSUME IInv, NEW p \in Ptrs
    PROVE  Get(heap, p) \in alive \union {Nil}
BY WeakAssumption DEF IInv, HeapInv, HeapType, OwnTarget, OwnHandle, Counted, Get

\* A new object disturbs no pointer.
LEMMA NewObjectKeeps ==
    ASSUME IInv, NEW o \in Objs, NewObject(o)
    PROVE  IInv' /\ \A q \in Ptrs : Get(heap, q)' = Get(heap, q)
<1>1. heap.own[o] = Nil
  BY WeakAssumption DEF IInv, HeapInv, HeapType, OwnHandle, NewObject
<1>2. heap' = heap
  BY <1>1 DEF IInv, HeapInv, HeapType, NewObject
<1>3. HeapInv(heap, alive')
  BY DEF IInv, HeapInv, OwnHandle, NewObject
<1> QED BY <1>2, <1>3 DEF IInv, Get, NewObject

\* An object that goes is forgotten by all the pointers that returned it.
LEMMA DeleteObjectKeeps ==
    ASSUME IInv, NEW o \in Objs, DeleteObject(o)
    PROVE  /\ IInv'
           /\ \A q \in Ptrs : Get(heap, q)' = IF Get(heap, q) = o THEN Nil ELSE Get(heap, q)
<1> DEFINE h == heap.own[o]
           t == heap'
<1> USE WeakAssumption DEF IInv, HeapInv, HeapType
<1>1. /\ t.handle = heap.handle /\ t.count = heap.count /\ t.allocated = heap.allocated
      /\ t.own = [heap.own EXCEPT ![o] = Nil]
      /\ t.target = IF h = Nil THEN heap.target ELSE [heap.target EXCEPT ![h] = Nil]
  BY DEF DeleteObject
<1>2. t \in HeapType
  BY DEF DeleteObject
<1>3. h # Nil => h \in heap.allocated /\ heap.target[h] = o
  BY DEF OwnHandle
<1>4. OwnHandle(t, alive')
  BY <1>1, <1>3 DEF OwnHandle, DeleteObject
<1>5. OwnTarget(t)
  BY <1>1, <1>3 DEF OwnTarget, OwnHandle
<1>6. Counted(t)
  BY <1>1 DEF Counted, Holders
<1>7. \A q \in Ptrs : Get(t, q) = IF Get(heap, q) = o THEN Nil ELSE Get(heap, q)
  BY <1>1, <1>3 DEF Get, OwnTarget, Counted
<1>8. alive' \subseteq Objs
  BY DEF DeleteObject
<1> QED BY <1>2, <1>4, <1>5, <1>6, <1>7, <1>8 DEF Get

\* A program just started.
LEMMA InitIInv == Init => IInv /\ Refs!Init
<1> SUFFICES ASSUME Init PROVE IInv /\ Refs!Init
  OBVIOUS
<1> USE WeakAssumption DEF Init
<1>1. heap \in HeapType
  BY DEF HeapType
<1>2. IInv
  BY <1>1 DEF IInv, HeapInv, OwnHandle, OwnTarget, Counted
<1> QED BY <1>2 DEF Refs!Init, Get

\* Every step keeps the invariant and is a step of WeakRef.
LEMMA StepKeeps == IInv /\ [Next]_vars => IInv' /\ [Refs!Next]_(Refs!wvars)
<1> DEFINE R == [p \in Ptrs |-> Get(heap, p)]
<1> SUFFICES ASSUME IInv, [Next]_vars PROVE IInv' /\ [Refs!Next]_(Refs!wvars)
  OBVIOUS
<1>1. ASSUME NEW p \in Ptrs, NEW o \in alive \union {Nil}, Set(p, o)
      PROVE  IInv' /\ Refs!Next
  <2>1. IInv' /\ \A q \in Ptrs : Get(heap, q)' = IF q = p THEN o ELSE Get(heap, q)
    BY <1>1, SetKeeps
  <2>2. R' = [R EXCEPT ![p] = o]
    BY <2>1
  <2>3. Refs!Assign(p, o)
    BY <1>1, <2>2 DEF Refs!Assign, Set
  <2>4. o \in Objs \union {Nil}
    BY DEF IInv
  <2> QED BY <2>1, <2>3, <2>4 DEF Refs!Next
<1>2. ASSUME NEW p \in Ptrs, NEW o \in Objs \union {Nil}, SetPtr(p, o)
      PROVE  IInv' /\ Refs!Next
  BY <1>1, <1>2 DEF SetPtr
<1>3. ASSUME NEW p \in Ptrs, NEW other \in Ptrs, CopyPtr(p, other)
      PROVE  IInv' /\ Refs!Next
  BY <1>1, <1>3, GetAlive DEF CopyPtr
<1>4. ASSUME NEW o \in Objs, NewObject(o)
      PROVE  IInv' /\ Refs!Next
  <2>1. IInv' /\ R' = R
    BY <1>4, NewObjectKeeps
  <2>2. Refs!New(o)
    BY <1>4, <2>1 DEF Refs!New, NewObject
  <2> QED BY <2>1, <2>2 DEF Refs!Next
<1>5. ASSUME NEW o \in Objs, DeleteObject(o)
      PROVE  IInv' /\ Refs!Next
  <2>1. IInv' /\ \A q \in Ptrs : Get(heap, q)' = IF Get(heap, q) = o THEN Nil ELSE Get(heap, q)
    BY <1>5, DeleteObjectKeeps
  <2>2. Refs!Delete(o)
    BY <1>5, <2>1 DEF Refs!Delete, DeleteObject
  <2> QED BY <2>1, <2>2 DEF Refs!Next
<1>6. CASE UNCHANGED vars
  BY <1>6 DEF vars, IInv, Refs!wvars, Get
<1> QED BY <1>2, <1>3, <1>4, <1>5, <1>6 DEF Next

-----------------------------------------------------------------------------
\* No call of WeakPtr ever touches a freed handle, every handle is freed by the
\* last pointer on it, and getWeakCount() counts the pointers that return the
\* object.
THEOREM Safety == Spec => [](TypeOK /\ NoDanglingHandle /\ NoLeak /\ WeakCountExact)
<1>1. ASSUME IInv PROVE TypeOK /\ NoDanglingHandle
  BY <1>1, WeakAssumption
     DEF IInv, TypeOK, HeapInv, NoDanglingHandle, Counted, OwnHandle
<1>2. ASSUME IInv PROVE NoLeak
  <2> SUFFICES ASSUME NEW h \in heap.allocated PROVE \E p \in Ptrs : heap.handle[p] = h
    BY DEF NoLeak
  <2>1. Cardinality(Holders(heap, h)) > 0
    BY <1>2 DEF IInv, HeapInv, Counted
  <2>2. Holders(heap, h) # {}
    BY <2>1, FS_EmptySet
  <2> QED BY <2>2 DEF Holders
<1>3. ASSUME IInv PROVE WeakCountExact
  <2> SUFFICES ASSUME NEW o \in alive
               PROVE  WeakCount(heap, o) = Cardinality({p \in Ptrs : Get(heap, p) = o})
    BY DEF WeakCountExact
  <2> USE WeakAssumption DEF IInv, HeapInv, HeapType
  <2> DEFINE h == heap.own[o]
             G == {p \in Ptrs : Get(heap, p) = o}
  <2>1. o \in Objs /\ o # Nil
    BY <1>3
  <2>2. CASE h = Nil
    <3>1. G = {}
      BY <1>3, <2>1, <2>2 DEF Get, OwnTarget, Counted
    <3> QED BY <2>2, <3>1, FS_EmptySet DEF WeakCount
  <2>3. CASE h # Nil
    <3>1. G = Holders(heap, h)
      BY <1>3, <2>1, <2>3 DEF Get, OwnTarget, OwnHandle, Counted, Holders
    <3>2. heap.count[h] = Cardinality(Holders(heap, h))
      BY <1>3, <2>1, <2>3 DEF OwnHandle, Counted
    <3> QED BY <2>3, <3>1, <3>2 DEF WeakCount
  <2> QED BY <2>2, <2>3
<1> QED BY <1>1, <1>2, <1>3, InitIInv, StepKeeps, PTL DEF Spec

\* Weak pointers refer to what they were last set to, until that object is
\* deleted, and never to one that is made at its address later.
THEOREM Refinement == Spec => ImplementsWeakRef
BY InitIInv, StepKeeps, PTL DEF Spec, ImplementsWeakRef, Refs!Spec
=============================================================================

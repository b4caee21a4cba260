------------------------------ MODULE WeakPtr ------------------------------
(***************************************************************************)
(* rack::WeakPtr and WeakBase (weakptr.hpp): weak pointers that share, per  *)
(* object, one WeakHandle on the heap.  The handle holds the address of the *)
(* object, nullptr once it is gone, and the number of weak pointers on it;  *)
(* the last of them frees it.                                               *)
(*                                                                          *)
(* The class is documented as not thread safe: a call is one step.  The     *)
(* constructors of a WeakPtr are set() on a pointer that has no handle and  *)
(* its destructor is set(nullptr), so a pointer outside its lifetime is one *)
(* without a handle.                                                        *)
(***************************************************************************)
EXTENDS Integers, FiniteSets

CONSTANTS Ptrs,     \* the weak pointers
          Objs,     \* the addresses at which objects derived from WeakBase are made
          Handles,  \* the addresses at which WeakHandles are made
          Nil       \* nullptr

ASSUME WeakAssumption ==
    /\ IsFiniteSet(Ptrs)
    /\ Nil \notin Objs \union Handles

VARIABLES alive,    \* the objects that exist
          heap      \* the fields: see HeapType

vars == <<alive, heap>>

HeapType ==
    [handle    : [Ptrs -> Handles \union {Nil}],   \* WeakPtr::weakHandle
     own       : [Objs -> Handles \union {Nil}],   \* WeakBase::weakHandle
     target    : [Handles -> Objs \union {Nil}],   \* WeakHandle::ptr
     count     : [Handles -> Nat],                 \* WeakHandle::count
     allocated : SUBSET Handles]                   \* the handles not freed

Init ==
    /\ alive = {}
    /\ heap = [handle |-> [p \in Ptrs |-> Nil], own |-> [o \in Objs |-> Nil],
               target |-> [h \in Handles |-> Nil], count |-> [h \in Handles |-> 0],
               allocated |-> {}]

-----------------------------------------------------------------------------
\* WeakPtr::get on heap s.
Get(s, p) == IF s.handle[p] = Nil THEN Nil ELSE s.target[s.handle[p]]

\* WeakBase::getWeakCount.
WeakCount(s, o) == IF s.own[o] = Nil THEN 0 ELSE s.count[s.own[o]]

\* Mutated Free: the object is not told that its handle is gone.
FreeSilently(s, p, h) ==
    [handle |-> [s.handle EXCEPT ![p] = Nil], own |-> s.own,
     target |-> [s.target EXCEPT ![h] = Nil],
     count |-> [s.count EXCEPT ![h] = 0], allocated |-> s.allocated \ {h}]

\* Mutated Free: the handle is not deleted.
FreeNothing(s, p, h) ==
    [handle |-> [s.handle EXCEPT ![p] = Nil],
     own |-> [o \in Objs |-> IF o = s.target[h] THEN Nil ELSE s.own[o]],
     target |-> s.target,
     count |-> [s.count EXCEPT ![h] = 0], allocated |-> s.allocated]

\* The last pointer lets go of handle h: its object, if it still exists, loses
\* it, and h is freed.  Nothing reads a freed handle: its fields are reset.
Free(s, p, h) ==
    [handle |-> [s.handle EXCEPT ![p] = Nil],
     own |-> [o \in Objs |-> IF o = s.target[h] THEN Nil ELSE s.own[o]],
     target |-> [s.target EXCEPT ![h] = Nil],
     count |-> [s.count EXCEPT ![h] = 0], allocated |-> s.allocated \ {h}]

\* One of several lets go.
Drop(s, p, h) ==
    [handle |-> [s.handle EXCEPT ![p] = Nil], own |-> s.own, target |-> s.target,
     count |-> [s.count EXCEPT ![h] = @ - 1], allocated |-> s.allocated]

\* The first half of set(): if (--weakHandle->count == 0) ...
Release(s, p) ==
    LET h == s.handle[p] IN
    IF h = Nil THEN s ELSE IF s.count[h] = 1 THEN Free(s, p, h) ELSE Drop(s, p, h)

\* Mutated Share: one more pointer on the handle, not counted.
ShareUncounted(s, p, o) == [s EXCEPT !.handle = [s.handle EXCEPT ![p] = s.own[o]]]

\* The second half of set(), for an object that has a handle ...
Share(s, p, o) ==
    [handle |-> [s.handle EXCEPT ![p] = s.own[o]], own |-> s.own, target |-> s.target,
     count |-> [s.count EXCEPT ![s.own[o]] = @ + 1], allocated |-> s.allocated]

\* Mutated Create: the pointer that makes the handle is not counted.
CreateUncounted(s, p, o, h) ==
    [handle |-> [s.handle EXCEPT ![p] = h], own |-> [s.own EXCEPT ![o] = h],
     target |-> [s.target EXCEPT ![h] = o], count |-> [s.count EXCEPT ![h] = 0],
     allocated |-> s.allocated \union {h}]

\* ... and for one that gets a new handle, at h.
Create(s, p, o, h) ==
    [handle |-> [s.handle EXCEPT ![p] = h], own |-> [s.own EXCEPT ![o] = h],
     target |-> [s.target EXCEPT ![h] = o], count |-> [s.count EXCEPT ![h] = 1],
     allocated |-> s.allocated \union {h}]

-----------------------------------------------------------------------------
\* WeakPtr::set(o); the heap may give a new handle the address of a freed one.
Set(p, o) ==
    LET s == Release(heap, p) IN
    /\ \/ o = Nil /\ heap' = s
       \/ o # Nil /\ s.own[o] # Nil /\ heap' = Share(s, p, o)
       \/ /\ o # Nil /\ s.own[o] = Nil
          /\ \E h \in Handles \ s.allocated : heap' = Create(s, p, o, h)
    /\ UNCHANGED alive

\* WeakPtr(ptr), ~WeakPtr(), or set() of an object that exists or of nullptr.
SetPtr(p, o) == o \in alive \union {Nil} /\ Set(p, o)

\* WeakPtr(other) or operator=: set(other.get()); `other` may be the same one.
CopyPtr(p, other) == Set(p, Get(heap, other))

NewObject(o) ==
    /\ o \notin alive
    /\ alive' = alive \union {o}
    /\ heap' = [heap EXCEPT !.own = [heap.own EXCEPT ![o] = Nil]]

\* Mutated DeleteObject: the handle keeps the address of the object.
DeleteObjectSilently(o) ==
    /\ o \in alive
    /\ alive' = alive \ {o}
    /\ heap' = [heap EXCEPT !.own = [heap.own EXCEPT ![o] = Nil]]

\* ~WeakBase(), and the memory of the object is gone.
DeleteObject(o) ==
    /\ o \in alive
    /\ alive' = alive \ {o}
    /\ heap' = [heap EXCEPT
         !.target = IF heap.own[o] = Nil THEN @ ELSE [@ EXCEPT ![heap.own[o]] = Nil],
         !.own = [heap.own EXCEPT ![o] = Nil]]

Next ==
    \/ \E p \in Ptrs, o \in Objs \union {Nil} : SetPtr(p, o)
    \/ \E p, other \in Ptrs : CopyPtr(p, other)
    \/ \E o \in Objs : NewObject(o) \/ DeleteObject(o)

Spec == Init /\ [][Next]_vars

\* The copy constructor the compiler makes for WeakBase: the member is copied.
CopyObject(o, other) ==
    /\ o \notin alive /\ other \in alive
    /\ alive' = alive \union {o}
    /\ heap' = [heap EXCEPT !.own = [heap.own EXCEPT ![o] = heap.own[other]]]

\* A program that copies objects, base class and all.
CopyingSpec == Init /\ [][Next \/ \E o, other \in Objs : CopyObject(o, other)]_vars

-----------------------------------------------------------------------------
(***************************************************************************)
(* Properties.                                                             *)
(***************************************************************************)
TypeOK == alive \subseteq Objs /\ heap \in HeapType

\* Whoever has a handle has one that is not freed, so set(), get(), the
\* destructors and getWeakCount never read or write freed memory.
NoDanglingHandle ==
    /\ \A p \in Ptrs  : heap.handle[p] \in heap.allocated \union {Nil}
    /\ \A o \in alive : heap.own[o] \in heap.allocated \union {Nil}

\* A handle not yet freed is on some pointer that will free it.
NoLeak == \A h \in heap.allocated : \E p \in Ptrs : heap.handle[p] = h

\* getWeakCount() is the number of weak pointers that return the object.
WeakCountExact ==
    \A o \in alive :
        WeakCount(heap, o) = Cardinality({p \in Ptrs : Get(heap, p) = o})

\* The shared handles implement weak references.
Refs == INSTANCE WeakRef WITH refers <- [p \in Ptrs |-> Get(heap, p)]
ImplementsWeakRef == Refs!Spec

-----------------------------------------------------------------------------
(***************************************************************************)
(* The inductive invariant: an object and its handle know each other, a     *)
(* handle knows how many pointers are on it, and is freed when none is.      *)
(***************************************************************************)
Holders(s, h) == {p \in Ptrs : s.handle[p] = h}

OwnHandle(s, live) ==
    \A o \in Objs : s.own[o] # Nil =>
        o \in live /\ s.own[o] \in s.allocated /\ s.target[s.own[o]] = o

OwnTarget(s) ==
    \A h \in s.allocated : s.target[h] # Nil => s.own[s.target[h]] = h

Counted(s) ==
    /\ \A p \in Ptrs : s.handle[p] # Nil => s.handle[p] \in s.allocated
    /\ \A h \in s.allocated : s.count[h] = Cardinality(Holders(s, h)) /\ s.count[h] > 0

HeapInv(s, live) == s \in HeapType /\ OwnHandle(s, live) /\ OwnTarget(s) /\ Counted(s)

IInv == alive \subseteq Objs /\ HeapInv(heap, alive)
=============================================================================

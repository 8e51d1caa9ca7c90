--------------------------- MODULE CharsetAliases ---------------------------
(* Charset::GetAliases (src/src/libcore/src/ccm/io/charset/Charset.cpp):  *)
(* threads ask one charset object for its aliases.  The first call builds *)
(* the unmodifiable set and stores it in the AutoPtr mAliasSet; later     *)
(* calls return it.  No lock is taken.  The caller receives the set with  *)
(* one reference (REFCOUNT_ADD) and releases it when done.                *)
(*                                                                         *)
(* An alias set object is a number; refs counts its references and freed *)
(* holds the objects whose count reached zero.  The reference counting    *)
(* is that of AutoPtr, whose header is not in the repository: assigning   *)
(* to an AutoPtr adds a reference to the new object and releases the old  *)
(* one, a temporary AutoPtr releases its object when it is destroyed.     *)
(* The assignment to mAliasSet is taken as one step, the most favourable  *)
(* outcome of the unsynchronized writes.                                  *)
EXTENDS Naturals, Sequences

CONSTANTS
    Threads,   \* the threads calling GetAliases
    MaxCalls   \* the calls each thread makes

VARIABLES
    aliasSet,  \* mAliasSet: the alias set object, 0 for nullptr
    refs,      \* the reference count of each alias set object created
    freed,     \* the objects released to a count of zero
    pc,        \* each thread's control location
    out,       \* the set a call handles: the temporary's new set, then
               \* *aliases, which the caller then holds
    calls      \* the calls each thread has made

vars == <<aliasSet, refs, freed, pc, out, calls>>

Created == DOMAIN refs

Init ==
    /\ aliasSet = 0
    /\ refs = <<>>
    /\ freed = {}
    /\ pc = [t \in Threads |-> "Idle"]
    /\ out = [t \in Threads |-> 0]
    /\ calls = [t \in Threads |-> 0]

\* A caller calls GetAliases.
Call(t) ==
    /\ pc[t] = "Idle" /\ calls[t] < MaxCalls
    /\ pc' = [pc EXCEPT ![t] = "Check"]
    /\ calls' = [calls EXCEPT ![t] = @ + 1]
    /\ UNCHANGED <<aliasSet, refs, freed, out>>

\* if (mAliasSet != nullptr): the cached set is returned, else one is built.
Check(t) ==
    /\ pc[t] = "Check"
    /\ pc' = [pc EXCEPT ![t] = IF aliasSet # 0 THEN "ReadOut" ELSE "Build"]
    /\ UNCHANGED <<aliasSet, refs, freed, out, calls>>

\* A new HashSet of mAliases and CreateUnmodifiableSet: a new object held
\* by the temporary AutoPtr the call returns.
Build(t) ==
    /\ pc[t] = "Build"
    /\ refs' = Append(refs, 1)
    /\ out' = [out EXCEPT ![t] = Len(refs) + 1]
    /\ pc' = [pc EXCEPT ![t] = "Assign"]
    /\ UNCHANGED <<aliasSet, freed, calls>>

\* The count of object o after one Release, and whether it was freed.
Released(r, o) == [r EXCEPT ![o] = @ - 1]
FreedBy(r, o) == IF r[o] = 1 THEN {o} ELSE {}

\* mAliasSet = the new set: mAliasSet adds a reference to it and releases
\* the set it held; then the temporary releases the new set.
Assign(t) ==
    /\ pc[t] = "Assign"
    /\ aliasSet' = out[t]
    /\ refs' = IF aliasSet = 0 THEN refs ELSE Released(refs, aliasSet)
    /\ freed' = IF aliasSet = 0 THEN freed ELSE freed \cup FreedBy(refs, aliasSet)
    /\ pc' = [pc EXCEPT ![t] = "ReadOut"]
    /\ UNCHANGED <<out, calls>>

\* *aliases = mAliasSet: the set stored now, whoever stored it.
ReadOut(t) ==
    /\ pc[t] = "ReadOut"
    /\ out' = [out EXCEPT ![t] = aliasSet]
    /\ pc' = [pc EXCEPT ![t] = "AddRef"]
    /\ UNCHANGED <<aliasSet, refs, freed, calls>>

\* REFCOUNT_ADD(*aliases): the caller's reference.
AddRef(t) ==
    /\ pc[t] = "AddRef"
    /\ refs' = [refs EXCEPT ![out[t]] = @ + 1]
    /\ pc' = [pc EXCEPT ![t] = "Hold"]
    /\ UNCHANGED <<aliasSet, freed, out, calls>>

\* The caller releases the set it was given.
Drop(t) ==
    /\ pc[t] = "Hold"
    /\ refs' = Released(refs, out[t])
    /\ freed' = freed \cup FreedBy(refs, out[t])
    /\ out' = [out EXCEPT ![t] = 0]
    /\ pc' = [pc EXCEPT ![t] = "Idle"]
    /\ UNCHANGED <<aliasSet, calls>>

\* Every thread has made its calls.
Finished ==
    /\ \A t \in Threads : pc[t] = "Idle" /\ calls[t] = MaxCalls
    /\ UNCHANGED vars

Next ==
    \/ \E t \in Threads : Call(t) \/ Check(t) \/ Build(t) \/ Assign(t)
                          \/ ReadOut(t) \/ AddRef(t) \/ Drop(t)
    \/ Finished

Spec == Init /\ [][Next]_vars

\* Every alias set GetAliases hands out is alive: between reading
\* mAliasSet into *aliases and taking its reference, and while the caller
\* holds it, no other call's assignment to mAliasSet has released it.
ReturnedSetAlive ==
    \A t \in Threads : pc[t] \in {"AddRef", "Hold"} => out[t] \notin freed

=============================================================================

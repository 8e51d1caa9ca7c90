--------------------------- MODULE MetaComponent ---------------------------
(* The lazily built reflection objects of a loaded component:             *)
(* src/src/runtime/reflection/CMetaComponent.cpp and CMetaCoclass.cpp.    *)
(* A CMetaComponent holds, for its coclasses, enumerations and interfaces, *)
(* an array of reflection objects (one slot per entry that is not          *)
(* external) and a map from full name to object.  Both are filled on      *)
(* demand: Get* builds every object, Build<Kind>(index) builds one.  A     *)
(* CMetaCoclass keeps its own array of the interfaces it implements,       *)
(* copied from the component's map the first time it is asked.             *)
(*                                                                         *)
(* The metadata is read-only after loading; the model chooses it in the    *)
(* initial state.  An entry's full name is its index in the metadata (the *)
(* compiler gives every entry of a component its own name).  Objects are  *)
(* numbers; Null is 0.  One public call is one step: the class has no      *)
(* locks, and callers are not expected to share it across threads.        *)
EXTENDS Integers, Sequences, FiniteSets, TLC

CONSTANTS
    Kinds,          \* {"coclass", "enum", "intf"}
    MetaData,       \* the metadata a component may load
    MaxCalls        \* public calls made on the component

Null == 0

VARIABLES
    meta,      \* the MetaComponent: per kind, the external flag of each entry;
               \* kidx[k] the interface indexes of coclass k
    slots,     \* per kind: mMetaCoclasses / mMetaEnumerations / mMetaInterfaces
    map,       \* per kind: full name -> object (mMeta<Kind>Map)
    kintfs,    \* per coclass index: CMetaCoclass::mMetaInterfaces
    next,      \* objects created so far
    crashed,   \* a null reflection object was dereferenced
    found,     \* what the last CMetaCoclass::GetInterface returned
    answer,    \* what the last CMetaComponent getter returned: the call, the
               \* kind, the name asked for, the number and the objects
    calls

vars == <<meta, slots, map, kintfs, next, crashed, found, answer, calls>>

Count(kind) == Len(meta[kind])
External(kind, i) == meta[kind][i]
\* Entries that are not external: the length of the slot array.
Own(kind) == Cardinality({i \in 1..Count(kind) : ~External(kind, i)})

\* realIndex: index less the external entries up to and including it.
RealIndex(kind, index) ==
    index - Cardinality({i \in 1..index : External(kind, i)})

TypeOK ==
    /\ \A kind \in Kinds : slots[kind] \in [1..Own(kind) -> 0..next]
    /\ \A kind \in Kinds : \A n \in DOMAIN map[kind] :
          n \in 1..Count(kind) /\ ~External(kind, n) /\ map[kind][n] \in 1..next
    /\ crashed \in BOOLEAN
    /\ found \in 0..next
    /\ answer.call \in {"none", "number", "all", "named"}
    /\ answer.objects \in Seq(0..next)
    /\ calls \in Nat

-----------------------------------------------------------------------------
(* Building.  The loops of BuildAll<Kind> run over the metadata in order,  *)
(* counting only entries that are not external; an entry already in the   *)
(* map is skipped (its slot is left as it is).                            *)
\* A plausible fault: the loop ends at the first entry already in the map
\* (a break where the code skips it).
RECURSIVE BuildLoopStopAtBuilt(_, _, _, _, _, _)
BuildLoopStopAtBuilt(kind, i, index, s, m, n) ==
    IF i > Count(kind) THEN [slots |-> s, map |-> m, next |-> n]
    ELSE IF External(kind, i) THEN BuildLoopStopAtBuilt(kind, i + 1, index, s, m, n)
    ELSE IF i \in DOMAIN m THEN [slots |-> s, map |-> m, next |-> n]
    ELSE BuildLoopStopAtBuilt(kind, i + 1, index + 1, [s EXCEPT ![index] = n + 1],
                              (i :> n + 1) @@ m, n + 1)

RECURSIVE BuildLoop(_, _, _, _, _, _)
BuildLoop(kind, i, index, s, m, n) ==
    IF i > Count(kind) THEN [slots |-> s, map |-> m, next |-> n]
    ELSE IF External(kind, i) THEN BuildLoop(kind, i + 1, index, s, m, n)
    ELSE IF i \in DOMAIN m THEN BuildLoop(kind, i + 1, index + 1, s, m, n)
    ELSE BuildLoop(kind, i + 1, index + 1, [s EXCEPT ![index] = n + 1],
                   (i :> n + 1) @@ m, n + 1)

\* The state after BuildAll<Kind>, as a record of slots, map and next.
BuildAllOf(kind, sl, mp, nx) ==
    IF Count(kind) = 0 THEN [slots |-> sl[kind], map |-> mp[kind], next |-> nx]
    ELSE BuildLoop(kind, 1, 1, sl[kind], mp[kind], nx)

BuildAllCoclasses(sl, mp, nx) == BuildAllOf("coclass", sl, mp, nx)
BuildAllEnumerations(sl, mp, nx) == BuildAllOf("enum", sl, mp, nx)
BuildAllInterfaces(sl, mp, nx) == BuildAllOf("intf", sl, mp, nx)

\* Apply the result r of building kind to the variables.
Built(kind, r) ==
    /\ slots' = [slots EXCEPT ![kind] = r.slots]
    /\ map' = [map EXCEPT ![kind] = r.map]
    /\ next' = r.next

\* A plausible fault: the slot index not corrected for external entries.
BuildOneAtIndex(kind, index) ==
    IF index < 1 \/ index > Count(kind) \/ External(kind, index)
       \/ index \in DOMAIN map[kind]
    THEN [slots |-> slots[kind], map |-> map[kind], next |-> next]
    ELSE [slots |-> [slots[kind] EXCEPT ![index] = next + 1],
          map |-> (index :> next + 1) @@ map[kind], next |-> next + 1]

\* A plausible fault: the external check dropped (if (mi->mExternal) return;).
BuildOneExternal(kind, index) ==
    IF index < 1 \/ index > Count(kind) \/ index \in DOMAIN map[kind]
    THEN [slots |-> slots[kind], map |-> map[kind], next |-> next]
    ELSE [slots |-> [slots[kind] EXCEPT ![RealIndex(kind, index)] = next + 1],
          map |-> (index :> next + 1) @@ map[kind], next |-> next + 1]

\* A plausible fault: an object built whether or not the map has one.
BuildOneUnchecked(kind, index) ==
    IF index < 1 \/ index > Count(kind) \/ External(kind, index)
    THEN [slots |-> slots[kind], map |-> map[kind], next |-> next]
    ELSE [slots |-> [slots[kind] EXCEPT ![RealIndex(kind, index)] = next + 1],
          map |-> (index :> next + 1) @@ map[kind], next |-> next + 1]

\* Build<Kind>(index): out of range and external entries are ignored; an
\* entry not yet in the map gets its object at realIndex.
BuildOne(kind, index) ==
    IF index < 1 \/ index > Count(kind) \/ External(kind, index)
       \/ index \in DOMAIN map[kind]
    THEN [slots |-> slots[kind], map |-> map[kind], next |-> next]
    ELSE [slots |-> [slots[kind] EXCEPT ![RealIndex(kind, index)] = next + 1],
          map |-> (index :> next + 1) @@ map[kind], next |-> next + 1]

BuildCoclass(index) == BuildOne("coclass", index)
BuildEnumeration(index) == BuildOne("enum", index)
BuildInterface(index) == BuildOne("intf", index)

\* CMetaCoclass::BuildAllInterfaces for coclass k, after the component's
\* interfaces r were built: each slot is the map's object for the
\* interface at mInterfaceIndexes[j], Null when the map has none.
CoclassSlots(k, r) ==
    [j \in 1..Len(meta.kidx[k]) |->
        IF meta.kidx[k][j] \in DOMAIN r.map THEN r.map[meta.kidx[k][j]] ELSE Null]

-----------------------------------------------------------------------------
(* Public calls.                                                           *)
Call == calls < MaxCalls /\ calls' = calls + 1 /\ UNCHANGED meta

\* The answer of a getter.
Answer(c, kind, name, number, objects) ==
    [call |-> c, kind |-> kind, name |-> name, number |-> number, objects |-> objects]

\* GetCoclassNumber / GetEnumerationNumber / GetInterfaceNumber: the
\* metadata's count, less the external entries for enumerations and
\* interfaces (mCoclassNumber as it is for coclasses).
NumberOf(kind) == IF kind = "coclass" THEN Count(kind) ELSE Own(kind)

GetNumber(kind) ==
    /\ Call
    /\ answer' = Answer("number", kind, 0, NumberOf(kind), <<>>)
    /\ UNCHANGED <<slots, map, next, kintfs, crashed, found>>

GetCoclassNumber == GetNumber("coclass")
GetEnumerationNumber == GetNumber("enum")
GetInterfaceNumber == GetNumber("intf")

\* GetAll<Kind>(array): nothing when the slot array is empty; otherwise
\* BuildAll<Kind>, then every slot is copied into the caller's array.
GetAll(kind) ==
    /\ Call
    /\ \/ /\ Own(kind) = 0
          /\ UNCHANGED <<slots, map, next>>
       \/ /\ Own(kind) > 0
          /\ Built(kind, BuildAllOf(kind, slots, map, next))
    /\ answer' = Answer("all", kind, 0, 0, slots'[kind])
    /\ UNCHANGED <<kintfs, crashed, found>>

GetAllCoclasses == GetAll("coclass")
GetAllEnumerations == GetAll("enum")
GetAllInterfaces == GetAll("intf")

\* Get<Kind>(fullName): Null for an empty name (name 0) or an empty slot
\* array; otherwise BuildAll<Kind> and the map's object for the name, Null
\* when it has none (an external entry or a name of no entry).
GetNamed(kind, name) ==
    /\ Call
    /\ \/ /\ name = 0 \/ Own(kind) = 0
          /\ answer' = Answer("named", kind, name, 0, <<Null>>)
          /\ UNCHANGED <<slots, map, next>>
       \/ /\ name # 0 /\ Own(kind) > 0
          /\ Built(kind, BuildAllOf(kind, slots, map, next))
          /\ answer' = Answer("named", kind, name, 0,
                 <<IF name \in DOMAIN map'[kind] THEN map'[kind][name] ELSE Null>>)
    /\ UNCHANGED <<kintfs, crashed, found>>

GetCoclass(name) == GetNamed("coclass", name)
GetEnumeration(name) == GetNamed("enum", name)
GetInterface(name) == GetNamed("intf", name)

\* Build<Kind>(index) called by another reflection class.
Build(kind, index) ==
    /\ Call
    /\ Built(kind, BuildOne(kind, index))
    /\ UNCHANGED <<kintfs, crashed, found, answer>>

\* CMetaCoclass::GetAllInterfaces / GetInterface on coclass k (whose object
\* exists): BuildAllInterfaces runs when slot 0 is still Null.  GetInterface
\* then calls GetName on every slot up to the one that matches fullName.
CoclassBuild(k) ==
    LET r == BuildAllInterfaces(slots, map, next) IN
    \/ /\ kintfs[k][1] = Null
       /\ Built("intf", r)
       /\ kintfs' = [kintfs EXCEPT ![k] = CoclassSlots(k, r)]
    \/ /\ kintfs[k][1] # Null
       /\ UNCHANGED <<slots, map, next, kintfs>>

CoclassGetAllInterfaces(k) ==
    /\ Call
    /\ k \in DOMAIN map["coclass"] /\ Len(meta.kidx[k]) > 0
    /\ CoclassBuild(k)
    /\ UNCHANGED <<crashed, found, answer>>

CoclassGetInterface(k, name) ==
    /\ Call
    /\ k \in DOMAIN map["coclass"] /\ Len(meta.kidx[k]) > 0
    /\ CoclassBuild(k)
    /\ LET s == kintfs'[k]
           hit == {j \in 1..Len(s) : s[j] # Null /\ meta.kidx[k][j] = name}
           upto == IF hit = {} THEN Len(s) ELSE CHOOSE j \in hit : \A h \in hit : j <= h
       IN /\ crashed' = (crashed \/ \E j \in 1..upto : s[j] = Null)
          /\ found' = IF hit = {} THEN Null ELSE s[upto]
    /\ UNCHANGED answer

\* new CMetaCoclass(k): mMetaInterfaces sized mInterfaceNumber, all Null.
CoclassInterfaces(k) == [j \in 1..Len(meta.kidx[k]) |-> Null]

Init ==
    /\ meta \in MetaData
    /\ slots = [kind \in Kinds |-> [i \in 1..Own(kind) |-> Null]]
    /\ map = [kind \in Kinds |-> <<>>]
    /\ kintfs = [k \in 1..Len(meta.kidx) |-> CoclassInterfaces(k)]
    /\ next = 0
    /\ crashed = FALSE
    /\ found = Null
    /\ answer = Answer("none", "coclass", 0, 0, <<>>)
    /\ calls = 0

Done == calls = MaxCalls /\ UNCHANGED vars

Next ==
    \/ GetCoclassNumber \/ GetEnumerationNumber \/ GetInterfaceNumber
    \/ GetAllCoclasses \/ GetAllEnumerations \/ GetAllInterfaces
    \/ \E name \in 0..Count("coclass") + 1 : GetCoclass(name)
    \/ \E name \in 0..Count("enum") + 1 : GetEnumeration(name)
    \/ \E name \in 0..Count("intf") + 1 : GetInterface(name)
    \/ \E kind \in Kinds : \E index \in 0..Count(kind) + 1 : Build(kind, index)
    \/ \E k \in 1..Len(meta.kidx) : CoclassGetAllInterfaces(k)
    \/ \E k \in 1..Len(meta.kidx), name \in 1..Count("intf") :
          CoclassGetInterface(k, name)
    \/ Done

Spec == Init /\ [][Next]_vars


-----------------------------------------------------------------------------
(* Properties.                                                             *)

\* Whatever mix of GetAll<Kind> and Build<Kind>(index) calls filled them,
\* the slot array and the map agree: the object the map holds for an entry
\* sits at the entry's realIndex, and every filled slot is in the map.
SlotsMatchMaps ==
    \A kind \in Kinds :
        /\ \A n \in DOMAIN map[kind] : slots[kind][RealIndex(kind, n)] = map[kind][n]
        /\ \A r \in DOMAIN slots[kind] :
              slots[kind][r] # Null =>
                  \E n \in DOMAIN map[kind] : map[kind][n] = slots[kind][r]

\* A CMetaCoclass's copied interface array never goes stale: each object
\* it holds is the one the component's map holds for that interface.
CoclassSlotsCurrent ==
    \A k \in DOMAIN kintfs : \A j \in DOMAIN kintfs[k] :
        kintfs[k][j] # Null => kintfs[k][j] = map["intf"][meta.kidx[k][j]]

\* Whatever Build<Kind>(index) calls came before, a getter hands out every
\* object: GetAll<Kind> fills as many non-null entries as Get<Kind>Number
\* reports, and Get<Kind>(fullName) returns an object exactly for the names
\* of the component's own entries.
AnswersComplete ==
    /\ answer.call = "all" /\ Own(answer.kind) > 0 =>
          /\ Len(answer.objects) = NumberOf(answer.kind)
          /\ \A i \in DOMAIN answer.objects : answer.objects[i] # Null
    /\ answer.call = "named" =>
          (answer.objects[1] # Null <=>
              answer.name \in 1..Count(answer.kind) /\ ~External(answer.kind, answer.name))
=============================================================================

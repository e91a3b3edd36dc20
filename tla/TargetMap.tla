----------------------------- MODULE TargetMap -----------------------------
(***************************************************************************)
(* The data environment of one device (libomptarget/src/omptarget.cpp):    *)
(* the list of mappings with their reference counts, the shadow pointers,  *)
(* and the calls that map, unmap, update and launch, which threads make    *)
(* at once.  DataMapMtx and ShadowMtx make each operation on the list or   *)
(* the shadows atomic; transfers happen outside of both.                   *)
(*                                                                         *)
(* Addresses count cells; a scalar or a pointer fills one.  A block of     *)
(* device memory is never allocated twice, so that an address kept for too *)
(* long shows.  The plugin and the region's code are external.  Private    *)
(* structs with pointers and use_device_ptr are left out.                  *)
(***************************************************************************)
EXTENDS Integers, Sequences, FiniteSets

CONSTANTS Threads,
          Cases,       \* what the threads do: records of
                       \*   calls: thread -> sequence of [call, args, body]
                       \*   memory: the host's cells -> their first values
                       \*   failures: how many transfers may fail
                       \*   calm: no two threads touch the same data
          Alignment,   \* of the begin of a struct, in cells
          MaxBlocks,   \* bound: blocks of device memory allocated in all
          Infinity     \* INF_REF_CNT

VARIABLES case,
          hst, dev,            \* host memory; device memory that is allocated
          blocks,              \* number of device blocks allocated so far
          HostDataToTargetMap, \* the mappings, the newest first
          ShadowPtrMap,        \* host address of a pointer -> its two values
          failures,            \* transfers that have failed
          done, my,            \* per thread: calls completed; locals of the call
          holds,               \* per thread: references to each block it is owed
          as_if,               \* the host's memory, had all regions run there
          fault                \* a failed assertion or an access to dead memory

vars == <<case, hst, dev, blocks, HostDataToTargetMap, ShadowPtrMap, failures, done, my,
          holds, as_if, fault>>

Null == 0
Undefined == -1
BlockSize == 100
BlockOf(addr) == addr \div BlockSize
Cells(addr, size) == addr .. addr + size - 1

Idle == [at |-> "idle", i |-> 0, tgt |-> Null, ptr |-> Null, base |-> Null,
         del |-> FALSE, ok |-> TRUE, params |-> <<>>, privates |-> {}, ran |-> FALSE, own |-> Null]

Init == /\ case \in Cases
        /\ hst = case.memory /\ as_if = case.memory
        /\ dev = <<>>
        /\ blocks = 0
        /\ HostDataToTargetMap = <<>> /\ ShadowPtrMap = <<>>
        /\ failures = 0
        /\ done = [t \in Threads |-> 0]
        /\ my = [t \in Threads |-> Idle]
        /\ holds = [t \in Threads |-> [b \in 1 .. MaxBlocks |-> 0]]
        /\ fault = FALSE

-----------------------------------------------------------------------------
\* Functions and sequences.
Override(f, g) == [x \in DOMAIN f \cup DOMAIN g |-> IF x \in DOMAIN g THEN g[x] ELSE f[x]]
Without(f, S) == [x \in DOMAIN f \ S |-> f[x]]
Dropped(s, k) == SubSeq(s, 1, k - 1) \o SubSeq(s, k + 1, Len(s))

\* lookupMapping: the first entry that the section touches, or 0.
IsContained(e, hp, size) == e.begin <= hp /\ hp < e.end /\ hp + size <= e.end
ExtendsBefore(e, hp, size) == hp < e.begin /\ hp + size > e.begin
ExtendsAfter(e, hp, size) == hp < e.end /\ hp + size > e.end
Touches(e, hp, size) ==
  IsContained(e, hp, size) \/ ExtendsBefore(e, hp, size) \/ ExtendsAfter(e, hp, size)
lookupMapping(hp, size) ==
  LET hits == {k \in DOMAIN HostDataToTargetMap : Touches(HostDataToTargetMap[k], hp, size)}
  IN  IF hits = {} THEN 0 ELSE CHOOSE k \in hits : \A j \in hits : k <= j

Entry(k) == HostDataToTargetMap[k]
TgtAddr(k, hp) == Entry(k).tgt + hp - Entry(k).begin
ConsideredInf(refs) == refs > Infinity \div 2

\* getMapEntryRefCnt
getMapEntryRefCnt(hp) ==
  LET hits == {k \in DOMAIN HostDataToTargetMap : Entry(k).begin <= hp /\ hp < Entry(k).end}
  IN  IF hits = {} THEN -1 ELSE Entry(CHOOSE k \in hits : \A j \in hits : k <= j).refs

-----------------------------------------------------------------------------
Call(t) == case.calls[t][done[t]]
Args(t) == Call(t).args
Arg(t) == Args(t)[my[t].i]
Is(t, flag) == flag \in Arg(t).type
Member(t) == Arg(t).parent # 0
Mapped(t) == ~Is(t, "literal") /\ ~Is(t, "private")
PlainMember(t) == Member(t) /\ ~Is(t, "ptr_and_obj")

\* A combined entry, the struct of the members that follow, is aligned.
Padding(t) == IF /\ ~Member(t)
                 /\ my[t].i < Len(Args(t)) /\ Args(t)[my[t].i + 1].parent = my[t].i
                THEN Arg(t).begin % Alignment ELSE 0
Begin(t) == Arg(t).begin - Padding(t)
Size(t) == Arg(t).size + Padding(t)
Section(t) == Cells(Begin(t), Size(t))

At(t, label) == my[t].at = label
Mine(t, new) == my' = [my EXCEPT ![t] = Override(@, new)]
Goto(t, label) == Mine(t, [at |-> label])

\* The loops over the arguments. A region whose data did not all get there is
\* unmapped at once.
Forth(t, loop, after) == IF my[t].i < Len(Args(t)) THEN [at |-> loop, i |-> my[t].i + 1]
                                                   ELSE after
Leave == [at |-> "return", i |-> 0]
UnmapAll(t) == [at |-> "end", i |-> Len(Args(t))]
\* Mutant of BeginNext: the region that failed just returns.
BeginGivesUp(t, ok) ==
  Forth(t, "begin", IF Call(t).call = "target" /\ ok THEN [at |-> "param", i |-> 1] ELSE Leave)
BeginNext(t, ok) ==
  Forth(t, "begin", IF Call(t).call # "target" THEN Leave
                    ELSE IF ok THEN [at |-> "param", i |-> 1] ELSE UnmapAll(t))
ParamNext(t) == Forth(t, "param", [at |-> "launch", i |-> 0])
EndNext(t) == IF my[t].i > 1 THEN [at |-> "end", i |-> my[t].i - 1] ELSE Leave
UpdateNext(t) == Forth(t, "update", Leave)

Unmoved == UNCHANGED <<hst, dev, blocks, failures, fault>>
Unmapped == UNCHANGED <<blocks, HostDataToTargetMap, ShadowPtrMap, holds>>
SameProgram == UNCHANGED <<case, done, as_if>>

-----------------------------------------------------------------------------
\* getOrAllocTgtPtr, under DataMapMtx: the entry of the section, or a new one. Owed
\* is TRUE when the caller gets a reference; IsNew is not set when the result is Null.
HitOf(hp, size, implicit) ==
  LET k == lookupMapping(hp, size)
  IN  IF k # 0 /\ (IsContained(Entry(k), hp, size) \/ implicit) THEN k ELSE 0

getOrAllocTgtPtr(t, hp, base, size, implicit, update, Then(_, _)) ==
  LET k == HitOf(hp, size, implicit)
  IN  \/ /\ k # 0
         /\ HostDataToTargetMap' =
              IF update THEN [HostDataToTargetMap EXCEPT ![k].refs = @ + 1]
                        ELSE HostDataToTargetMap
         /\ holds' = IF update /\ ~ConsideredInf(Entry(k).refs)
                       THEN [holds EXCEPT ![t][BlockOf(Entry(k).tgt)] = @ + 1] ELSE holds
         /\ Then(TgtAddr(k, hp), FALSE)
         /\ UNCHANGED <<dev, blocks>>
      \/ /\ lookupMapping(hp, size) = 0 /\ size > 0
         /\ blocks < MaxBlocks
         /\ LET b == blocks + 1
                tp == b * BlockSize
            IN  /\ blocks' = b
                /\ dev' = Override(dev, [a \in Cells(tp, size) |-> Undefined])
                /\ HostDataToTargetMap' =
                     <<[base |-> base, begin |-> hp, end |-> hp + size, tgt |-> tp, refs |-> 1]>>
                       \o HostDataToTargetMap
                /\ holds' = [holds EXCEPT ![t][b] = 1]
                /\ Then(tp, TRUE)
      \/ /\ k = 0 /\ (lookupMapping(hp, size) # 0 \/ size = 0)
         /\ \E IsNew \in BOOLEAN : Then(Null, IsNew)
         /\ UNCHANGED <<dev, blocks, HostDataToTargetMap, holds>>

\* getTgtPtrBegin, with or without an update of the count.
IsLast(hp, size) == LET k == lookupMapping(hp, size) IN k # 0 /\ ~(Entry(k).refs > 1)
TgtPtrBegin(hp, size) ==
  LET k == lookupMapping(hp, size) IN IF k = 0 THEN Null ELSE TgtAddr(k, hp)
Decremented(hp, size) ==
  LET k == lookupMapping(hp, size)
  IN  IF k # 0 /\ Entry(k).refs > 1 THEN [HostDataToTargetMap EXCEPT ![k].refs = @ - 1]
                                     ELSE HostDataToTargetMap

\* The thread is through with the reference it was owed to the section.
Released(t, hp, size) ==
  LET k == lookupMapping(hp, size)
  IN  IF k = 0 \/ ConsideredInf(Entry(k).refs) THEN holds
      ELSE [holds EXCEPT ![t][BlockOf(Entry(k).tgt)] = @ - 1]
ReleasedByAll(b) == [u \in Threads |-> [holds[u] EXCEPT ![b] = 0]]

\* Mutant of deallocTgtPtr: what IsLast said earlier is not looked at again.
DeallocAsDecided(t, hp, size, force) ==
  LET k == lookupMapping(hp, size)
      b == BlockOf(Entry(k).tgt)
  IN  IF k = 0 THEN UNCHANGED <<dev, HostDataToTargetMap, holds>>
      ELSE /\ dev' = Without(dev, {a \in DOMAIN dev : BlockOf(a) = b})
           /\ HostDataToTargetMap' = Dropped(HostDataToTargetMap, k)
           /\ holds' = Released(t, hp, size)

\* deallocTgtPtr, under DataMapMtx.
deallocTgtPtr(t, hp, size, force) ==
  LET k == lookupMapping(hp, size)
      refs == (IF force THEN 1 ELSE Entry(k).refs) - 1
      b == BlockOf(Entry(k).tgt)
  IN  IF k = 0 THEN UNCHANGED <<dev, HostDataToTargetMap, holds>>
      ELSE IF refs > 0
        THEN /\ HostDataToTargetMap' = [HostDataToTargetMap EXCEPT ![k].refs = refs]
             /\ holds' = Released(t, hp, size)
             /\ UNCHANGED dev
        ELSE /\ dev' = Without(dev, {a \in DOMAIN dev : BlockOf(a) = b})
             /\ HostDataToTargetMap' = Dropped(HostDataToTargetMap, k)
             /\ holds' = IF force THEN ReleasedByAll(b) ELSE Released(t, hp, size)

\* data_submit and data_retrieve: the plugin copies, or reports a failure. What is
\* not allocated cannot be accessed.
Fails == failures < case.failures /\ failures' = failures + 1 /\ UNCHANGED <<hst, dev, fault>>
Submit(values) ==
  /\ dev' = IF DOMAIN values \subseteq DOMAIN dev THEN Override(dev, values) ELSE dev
  /\ fault' = (fault \/ ~(DOMAIN values \subseteq DOMAIN dev))
  /\ UNCHANGED <<hst, failures>>
HostImage(tp, hp, size) == [a \in Cells(tp, size) |-> hst[hp + a - tp]]
Retrieve(hp, tp, size) ==
  /\ IF Cells(tp, size) \subseteq DOMAIN dev
       THEN /\ hst' = Override(hst, [a \in Cells(hp, size) |-> dev[tp + a - hp]])
            /\ UNCHANGED fault
       ELSE fault' = TRUE /\ UNCHANGED hst
  /\ UNCHANGED <<dev, failures>>

-----------------------------------------------------------------------------
\* The entry of a call.
FirstOf(c) == CASE c.call = "data_end" -> [at |-> "end", i |-> Len(c.args)]
                [] c.call = "data_update" -> [at |-> "update", i |-> 1]
                [] c.call \in {"data_begin", "target"} -> [at |-> "begin", i |-> 1]
                [] OTHER -> [at |-> c.call, i |-> 1]
Enter(t) ==
  /\ At(t, "idle")
  /\ done[t] < Len(case.calls[t])
  /\ done' = [done EXCEPT ![t] = @ + 1]
  /\ my' = [my EXCEPT ![t] = Override([Idle EXCEPT !.own = my[t].own],
                                      FirstOf(case.calls[t][done[t] + 1]))]
  /\ UNCHANGED <<case, as_if>> /\ Unmoved /\ Unmapped

\* LITERAL and PRIVATE arguments are not mapped.
Skip(t) ==
  /\ At(t, "begin") \/ At(t, "end") \/ At(t, "update")
  /\ ~Mapped(t)
  /\ Mine(t, CASE At(t, "begin") -> BeginNext(t, my[t].ok)
               [] At(t, "end") -> EndNext(t)
               [] At(t, "update") -> UpdateNext(t))
  /\ SameProgram /\ Unmoved /\ Unmapped

-----------------------------------------------------------------------------
\* target_data_begin, one argument.
MapPointer(t) ==
  /\ At(t, "begin") /\ Mapped(t) /\ Is(t, "ptr_and_obj")
  /\ getOrAllocTgtPtr(t, Arg(t).base, Arg(t).base, 1, Is(t, "implicit"), ~Member(t),
       LAMBDA tp, IsNew : Mine(t, [at |-> "object", ptr |-> tp, base |-> hst[Arg(t).base]]))
  /\ UNCHANGED <<hst, ShadowPtrMap, failures, fault>> /\ SameProgram

AfterCopy(t, ptr, ok) == IF ptr # Null THEN [at |-> "pointer"] ELSE BeginNext(t, ok)
MapObject(t) ==
  /\ \/ At(t, "begin") /\ Mapped(t) /\ ~Is(t, "ptr_and_obj")
     \/ At(t, "object")
  /\ LET ptr == IF At(t, "object") THEN my[t].ptr ELSE Null
         base == IF At(t, "object") THEN my[t].base ELSE Arg(t).base
     IN  getOrAllocTgtPtr(t, Begin(t), base, Size(t), Is(t, "implicit"), ~PlainMember(t),
           LAMBDA tp, IsNew :
             Mine(t, Override([tgt |-> tp, ptr |-> ptr, base |-> base],
               IF Is(t, "to") /\ (IsNew \/ Is(t, "always")) THEN [at |-> "copy"]
               ELSE IF Is(t, "to") /\ Member(t) THEN [at |-> "parent"]
               ELSE AfterCopy(t, ptr, my[t].ok))))
  /\ UNCHANGED <<hst, ShadowPtrMap, failures, fault>> /\ SameProgram

\* A member of a struct is copied while the struct has one reference.
CheckParent(t) ==
  /\ At(t, "parent")
  /\ Mine(t, IF getMapEntryRefCnt(Args(t)[Arg(t).parent].begin) = 1
               THEN [at |-> "copy"] ELSE AfterCopy(t, my[t].ptr, my[t].ok))
  /\ SameProgram /\ Unmoved /\ Unmapped

CopyTo(t) ==
  /\ At(t, "copy")
  /\ \/ /\ Submit(HostImage(my[t].tgt, Begin(t), Size(t)))
        /\ Mine(t, AfterCopy(t, my[t].ptr, my[t].ok))
     \/ Fails /\ Mine(t, Override([ok |-> FALSE], AfterCopy(t, my[t].ptr, FALSE)))
  /\ SameProgram /\ Unmapped

\* The pointer on the device is set to the object there, whose base it holds.
TgtPtrBase(t) == my[t].tgt - (Begin(t) - my[t].base)
CopyPointer(t) ==
  /\ At(t, "pointer")
  /\ \/ /\ Submit([a \in {my[t].ptr} |-> TgtPtrBase(t)])
        /\ Goto(t, "shadow")
     \/ Fails /\ Mine(t, [at |-> "shadow", ok |-> FALSE])
  /\ SameProgram /\ Unmapped

SetShadow(t) ==
  /\ At(t, "shadow")
  /\ ShadowPtrMap' = Override(ShadowPtrMap, [a \in {Arg(t).base} |->
       [hst |-> my[t].base, addr |-> my[t].ptr, tgt |-> TgtPtrBase(t)]])
  /\ Mine(t, Override([ptr |-> Null], BeginNext(t, my[t].ok)))
  /\ UNCHANGED <<blocks, HostDataToTargetMap, holds>> /\ SameProgram /\ Unmoved

-----------------------------------------------------------------------------
\* target: what the region is passed, one argument at a time.
Passed(t) == Is(t, "target_param")
PassArg(t) ==
  /\ At(t, "param") /\ ~(Passed(t) /\ Is(t, "private"))
  /\ Mine(t, Override(ParamNext(t),
       IF ~Passed(t) \/ Is(t, "literal") THEN [ptr |-> Null]
       ELSE [params |-> Override(my[t].params, [k \in {my[t].i} |->
              IF Is(t, "ptr_and_obj") THEN TgtPtrBegin(Arg(t).base, 1)
                                      ELSE TgtPtrBegin(Arg(t).begin, Arg(t).size)])]))
  /\ SameProgram /\ Unmoved /\ Unmapped

AllocatePrivate(t) ==
  /\ At(t, "param") /\ Passed(t) /\ Is(t, "private")
  /\ getOrAllocTgtPtr(t, Arg(t).begin, Arg(t).base, Arg(t).size, TRUE, TRUE,
       LAMBDA tp, IsNew :
         /\ fault' = (fault \/ ~IsNew)     \* assert(IsNew)
         /\ Mine(t, IF tp = Null THEN [at |-> "launch", ok |-> FALSE]
                    ELSE Override([tgt |-> tp, privates |-> my[t].privates \cup {my[t].i},
                                   params |-> Override(my[t].params, [k \in {my[t].i} |-> tp])],
                                  IF Is(t, "to") THEN [at |-> "first"] ELSE ParamNext(t))))
  /\ UNCHANGED <<hst, ShadowPtrMap, failures>> /\ SameProgram

\* A first-private array that cannot be copied ends the loop, and the region is not run.
CopyPrivate(t) ==
  /\ At(t, "first")
  /\ \/ /\ Submit(HostImage(my[t].tgt, Arg(t).begin, Arg(t).size))
        /\ Mine(t, ParamNext(t))
     \/ Fails /\ Mine(t, [at |-> "launch", ok |-> FALSE])
  /\ SameProgram /\ Unmapped

\* The region adds one to each cell it names: an argument's, or one behind a pointer
\* in an argument.
CellOf(a, start, memory) ==
  LET cell == start[a.arg] + a.offset IN IF a.deref THEN memory[cell] ELSE cell
Reached(body, start, memory) ==
  {CellOf(body[n], start, memory) : n \in DOMAIN body}
Incremented(memory, cells) ==
  [a \in DOMAIN memory |-> IF a \in cells /\ memory[a] # Undefined THEN memory[a] + 1
                                                                   ELSE memory[a]]
OnHost(t) == [k \in DOMAIN Args(t) |-> Args(t)[k].begin]
Private(t) == UNION {Cells(Args(t)[k].begin, Args(t)[k].size) :
                       k \in {n \in DOMAIN Args(t) : "private" \in Args(t)[n].type}}
Ran(t, memory) == Incremented(memory, Reached(Call(t).body, OnHost(t), memory) \ Private(t))

Launch(t) ==
  /\ At(t, "launch")
  /\ \/ /\ my[t].ok
        /\ LET pointers == {my[t].params[a.arg] + a.offset :
                              a \in {x \in {Call(t).body[n] : n \in DOMAIN Call(t).body} : x.deref}}
           IN  IF pointers \subseteq DOMAIN dev
                 THEN LET cells == Reached(Call(t).body, my[t].params, dev)
                      IN  /\ dev' = Incremented(dev, cells)
                          /\ fault' = (fault \/ ~(cells \subseteq DOMAIN dev))
                 ELSE fault' = TRUE /\ UNCHANGED dev
        /\ as_if' = Ran(t, as_if)
     \/ ~my[t].ok /\ UNCHANGED <<dev, fault, as_if>>
  /\ Mine(t, [at |-> "privates", ran |-> my[t].ok])
  /\ UNCHANGED <<case, done, hst, failures>> /\ Unmapped

FreePrivate(t) ==
  /\ At(t, "privates")
  /\ \/ /\ my[t].privates # {}
        /\ LET k == CHOOSE n \in my[t].privates : \A j \in my[t].privates : n <= j
           IN  /\ deallocTgtPtr(t, Args(t)[k].begin, Args(t)[k].size, TRUE)
               /\ Mine(t, [privates |-> my[t].privates \ {k}])
     \/ /\ my[t].privates = {}
        /\ Mine(t, UnmapAll(t))
        /\ UNCHANGED <<dev, HostDataToTargetMap, holds>>
  /\ UNCHANGED <<hst, blocks, failures, fault, ShadowPtrMap>> /\ SameProgram

-----------------------------------------------------------------------------
\* target_data_end, one argument.
AfterBack(t, del) == IF Is(t, "from") \/ del THEN [at |-> "unshadow"] ELSE EndNext(t)
Unmap(t) ==
  /\ At(t, "end") /\ Mapped(t)
  /\ LET del == (IsLast(Begin(t), Size(t)) \/ Is(t, "delete")) /\ ~PlainMember(t)
     IN  /\ Mine(t, Override([del |-> del, tgt |-> TgtPtrBegin(Begin(t), Size(t))],
              IF Is(t, "from") /\ PlainMember(t) THEN [at |-> "end_parent"]
              ELSE IF Is(t, "from") /\ (del \/ Is(t, "always")) THEN [at |-> "back"]
              ELSE AfterBack(t, del)))
         /\ HostDataToTargetMap' = IF PlainMember(t) THEN HostDataToTargetMap
                                                     ELSE Decremented(Begin(t), Size(t))
         /\ holds' = IF PlainMember(t) \/ del THEN holds ELSE Released(t, Begin(t), Size(t))
  /\ UNCHANGED <<blocks, ShadowPtrMap>> /\ SameProgram /\ Unmoved

CheckEndParent(t) ==
  /\ At(t, "end_parent")
  /\ LET refs == getMapEntryRefCnt(Args(t)[Arg(t).parent].begin)
     IN  /\ Goto(t, IF refs = 1 \/ Is(t, "always") THEN "back" ELSE "unshadow")
         /\ fault' = (fault \/ refs <= 0)      \* assert(parent_rc > 0)
  /\ UNCHANGED <<hst, dev, failures>> /\ SameProgram /\ Unmapped

CopyBack(t) ==
  /\ At(t, "back")
  /\ \/ /\ Retrieve(Begin(t), my[t].tgt, Size(t))
        /\ Goto(t, "unshadow")
     \/ Fails /\ Mine(t, [at |-> "unshadow", ok |-> FALSE])
  /\ SameProgram /\ Unmapped

\* Under ShadowMtx, the host's pointers in the section get their values back, and go
\* from the shadows with the mapping. erase(it) is followed by ++it, which is
\* undefined: the loop goes on, or ends there.
Lowest(S) == {a \in S : \A b \in S : a <= b}
RestorePointers(t) ==
  /\ At(t, "unshadow")
  /\ LET here == Section(t) \cap DOMAIN ShadowPtrMap
     IN  \E seen \in IF my[t].del THEN {here, Lowest(here)} ELSE {here} :
           /\ hst' = IF Is(t, "from")
                       THEN Override(hst, [a \in seen |-> ShadowPtrMap[a].hst]) ELSE hst
           /\ ShadowPtrMap' = IF my[t].del THEN Without(ShadowPtrMap, seen) ELSE ShadowPtrMap
  /\ Mine(t, IF my[t].del THEN [at |-> "delete"] ELSE EndNext(t))
  /\ UNCHANGED <<dev, blocks, failures, fault, HostDataToTargetMap, holds>> /\ SameProgram

Deallocate(t) ==
  /\ At(t, "delete")
  /\ deallocTgtPtr(t, Begin(t), Size(t), Is(t, "delete"))
  /\ Mine(t, Override([ok |-> my[t].ok /\ lookupMapping(Begin(t), Size(t)) # 0], EndNext(t)))
  /\ UNCHANGED <<hst, blocks, failures, fault, ShadowPtrMap>> /\ SameProgram

\* The caller of __tgt_target runs a region on the host that did not run on the device.
Return(t) ==
  /\ At(t, "return")
  /\ IF Call(t).call = "target" /\ ~my[t].ok
       THEN /\ hst' = Ran(t, hst)
            /\ as_if' = IF my[t].ran THEN as_if ELSE Ran(t, as_if)
       ELSE UNCHANGED <<hst, as_if>>
  /\ Goto(t, "idle")
  /\ UNCHANGED <<case, done, dev, failures, fault>> /\ Unmapped

-----------------------------------------------------------------------------
\* __tgt_target_data_update, one argument.
Update(t) ==
  /\ At(t, "update") /\ Mapped(t)
  /\ Mine(t, Override([tgt |-> TgtPtrBegin(Arg(t).begin, Arg(t).size)],
       IF Is(t, "from") THEN [at |-> "update_from"]
       ELSE IF Is(t, "to") THEN [at |-> "update_to"] ELSE UpdateNext(t)))
  /\ SameProgram /\ Unmoved /\ Unmapped

\* The copy, and the pointers in it, which must not be the device's.
Here(t) == Cells(Arg(t).begin, Arg(t).size) \cap DOMAIN ShadowPtrMap
UpdateFrom(t) ==
  /\ At(t, "update_from")
  /\ Retrieve(Arg(t).begin, my[t].tgt, Arg(t).size) \/ Fails
  /\ Goto(t, "update_host")
  /\ SameProgram /\ Unmapped

\* Mutant of RestoreHost: the pointers stay the device's.
RestoreNothing(t) ==
  /\ At(t, "update_host")
  /\ Mine(t, IF Is(t, "to") THEN [at |-> "update_to"] ELSE UpdateNext(t))
  /\ UNCHANGED <<hst, dev, failures, fault>> /\ SameProgram /\ Unmapped

RestoreHost(t) ==
  /\ At(t, "update_host")
  /\ hst' = Override(hst, [a \in Here(t) |-> ShadowPtrMap[a].hst])
  /\ Mine(t, IF Is(t, "to") THEN [at |-> "update_to"] ELSE UpdateNext(t))
  /\ UNCHANGED <<dev, failures, fault>> /\ SameProgram /\ Unmapped

UpdateTo(t) ==
  /\ At(t, "update_to")
  /\ Submit(HostImage(my[t].tgt, Arg(t).begin, Arg(t).size)) \/ Fails
  /\ Goto(t, "update_device")
  /\ SameProgram /\ Unmapped

RestoreDevice(t) ==
  /\ At(t, "update_device")
  /\ Submit([a \in {ShadowPtrMap[p].addr : p \in Here(t)} |->
              ShadowPtrMap[CHOOSE p \in Here(t) : ShadowPtrMap[p].addr = a].tgt])
  /\ Mine(t, UpdateNext(t))
  /\ SameProgram /\ Unmapped

-----------------------------------------------------------------------------
\* omp_target_alloc, omp_target_free, and the association of a host address with
\* device memory of the program's own, which the count never unmaps.
Allocate(t) ==
  /\ At(t, "alloc")
  /\ blocks < MaxBlocks
  /\ blocks' = blocks + 1
  /\ dev' = Override(dev, [a \in Cells((blocks + 1) * BlockSize, Arg(t).size) |-> Undefined])
  /\ Mine(t, [at |-> "idle", own |-> (blocks + 1) * BlockSize])
  /\ UNCHANGED <<hst, HostDataToTargetMap, ShadowPtrMap, failures, fault, holds>> /\ SameProgram

Free(t) ==
  /\ At(t, "free")
  /\ dev' = Without(dev, {a \in DOMAIN dev : BlockOf(a) = BlockOf(my[t].own)})
  /\ Goto(t, "idle")
  /\ UNCHANGED <<hst, failures, fault>> /\ SameProgram /\ Unmapped

Associate(t) ==
  /\ At(t, "associate")
  /\ HostDataToTargetMap' =
       IF \E k \in DOMAIN HostDataToTargetMap : Entry(k).begin = Arg(t).begin
         THEN HostDataToTargetMap
         ELSE <<[base |-> Arg(t).begin, begin |-> Arg(t).begin, end |-> Arg(t).begin + Arg(t).size,
                 tgt |-> my[t].own, refs |-> Infinity]>> \o HostDataToTargetMap
  /\ Goto(t, "idle")
  /\ UNCHANGED <<blocks, ShadowPtrMap, holds>> /\ SameProgram /\ Unmoved

Disassociate(t) ==
  /\ At(t, "disassociate")
  /\ LET hits == {k \in DOMAIN HostDataToTargetMap : Entry(k).begin = Arg(t).begin}
         k == CHOOSE n \in hits : \A j \in hits : n <= j
     IN  HostDataToTargetMap' = IF hits # {} /\ ConsideredInf(Entry(k).refs)
                                  THEN Dropped(HostDataToTargetMap, k) ELSE HostDataToTargetMap
  /\ Goto(t, "idle")
  /\ UNCHANGED <<blocks, ShadowPtrMap, holds>> /\ SameProgram /\ Unmoved

Step(t) == \/ Enter(t) \/ Skip(t) \/ Return(t)
           \/ MapPointer(t) \/ MapObject(t) \/ CheckParent(t)
           \/ CopyTo(t) \/ CopyPointer(t) \/ SetShadow(t)
           \/ PassArg(t) \/ AllocatePrivate(t) \/ CopyPrivate(t) \/ Launch(t) \/ FreePrivate(t)
           \/ Unmap(t) \/ CheckEndParent(t) \/ CopyBack(t) \/ RestorePointers(t) \/ Deallocate(t)
           \/ Update(t) \/ UpdateFrom(t) \/ RestoreHost(t) \/ UpdateTo(t) \/ RestoreDevice(t)
           \/ Allocate(t) \/ Free(t) \/ Associate(t) \/ Disassociate(t)

Next == \E t \in Threads : Step(t)
Spec == Init /\ [][Next]_vars

-----------------------------------------------------------------------------
Mappings == DOMAIN HostDataToTargetMap
Counted == {k \in Mappings : ~ConsideredInf(Entry(k).refs)}
OwedTo(b) == UNION {{t} \X (1 .. holds[t][b]) : t \in Threads}

TypeOK == /\ case \in Cases
          /\ DOMAIN hst = DOMAIN case.memory /\ DOMAIN as_if = DOMAIN case.memory
          /\ blocks \in 0 .. MaxBlocks /\ failures \in 0 .. case.failures
          /\ \A t \in Threads : /\ done[t] \in 0 .. Len(case.calls[t])
                                /\ DOMAIN my[t] = DOMAIN Idle
                                /\ \A b \in 1 .. MaxBlocks : holds[t][b] >= 0
          /\ fault \in BOOLEAN

\* The variables keep their types, and, however threads share data and transfers
\* fail: the count of a mapping is the number of references its users are owed, no
\* mapping they use is gone, no two overlap, and nothing touches dead memory.
RefsExact ==
  /\ TypeOK /\ ~fault
  /\ \A k \in Counted : /\ Entry(k).refs = Cardinality(OwedTo(BlockOf(Entry(k).tgt)))
                        /\ Entry(k).tgt \in DOMAIN dev
  /\ \A b \in 1 .. MaxBlocks :
       OwedTo(b) # {} => \E k \in Counted : BlockOf(Entry(k).tgt) = b
  /\ \A j, k \in Mappings : j # k => Entry(j).end <= Entry(k).begin \/ Entry(k).end <= Entry(j).begin

Quiet == \A t \in Threads : At(t, "idle") /\ done[t] = Len(case.calls[t])

\* When all that was mapped has been unmapped, failed regions included, the list is
\* empty and the device's memory free; no shadow is left of data not shared.
NothingLeft ==
  Quiet => /\ HostDataToTargetMap = <<>> /\ DOMAIN dev = {}
           /\ case.calm => DOMAIN ShadowPtrMap = {}

\* A program that maps what its regions touch, and shares no data between threads,
\* ends with the host's memory, pointers included, as if all had run on the host.
AsOnHost == Quiet /\ case.calm /\ failures = 0 => hst = as_if

\* omptarget.cpp:1977, of target: "This function returns 0 if it was able to transfer
\* the execution to a target and an integer different from zero otherwise."
ZeroMeansTransferred ==
  \A t \in Threads : At(t, "return") /\ Call(t).call = "target" => my[t].ok = my[t].ran
=============================================================================

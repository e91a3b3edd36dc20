------------------------------- MODULE Memory -------------------------------
(***************************************************************************)
(* The memory of the runtime (kmp_alloc.cpp).  Every thread has pools of   *)
(* its own, cut into buffers by BGET; a buffer another thread frees is put *)
(* on a list of the owner without a lock and released when the owner comes *)
(* by.  On top of that are the lists of blocks of a few sizes from which   *)
(* tasks are made (__kmp_fast_allocate): the thread's own list, a list it  *)
(* gathers of another's blocks, and a list the others hand blocks back on. *)
(*                                                                         *)
(* The unit of size is SizeQuant.  A buffer has the address                *)
(* <<owner, pool, offset of its header>>, which stands for the block in it *)
(* too.  What a thread does to its own pools and lists nobody else looks   *)
(* at: a call is one step up to the shared lists, and one for each compare *)
(* and exchange on them.  Buffers larger than a pool, which are malloc's   *)
(* and free's own, the statistics and the dumps are left out.              *)
(***************************************************************************)
EXTENDS Integers, Sequences, FiniteSets, SequencesExt, FiniteSetsExt

CONSTANTS
  Header,       \* sizeof(bhead_t)
  PoolSize,     \* __kmp_malloc_pool_incr
  SizeQ,        \* the room the links of a free buffer need
  BinSizes,     \* bget_bin_size
  FastSizes,    \* what __kmp_fast_allocate asks of bget for its lists, by index
  ListLimit,    \* KMP_FREE_LIST_LIMIT
  Scenarios     \* see Init

ASSUME MemoryAssumption ==
  /\ {Header, SizeQ, ListLimit, PoolSize} \subseteq Nat \ {0}
  /\ Len(BinSizes) > 0 /\ BinSizes[1] = 0
  /\ \A i \in 2 .. Len(BinSizes) : BinSizes[i - 1] < BinSizes[i]

VARIABLES
  scenario,   \* what the program does, and the bounds
  heap,       \* th_local.bget_data of each thread: see NewHeap
  bget_list,  \* th_local.bget_list: the first buffer others have freed
  lists,      \* th_free_lists: th_free_list_self, _sync and _other, per thread and index
  link,       \* the next of each block that is on a list
  length,     \* size_allocated: how long the list is that a block of _other is the head of
  use,        \* the allocated buffers: the index of the list a block is for, or Plain
  held,       \* the blocks the program has
  pc, my,     \* where each thread is in a call, and its locals
  reaped      \* the threads that are gone, and whether memory was read after its release

vars == <<scenario, heap, bget_list, lists, link, length, use, held, pc, my, reaped>>

Threads == scenario.threads
Plain == 0
Indices == 1 .. Len(FastSizes)
Bins == 0 .. Len(BinSizes) - 1
Null == <<0, 0, 0>>
ESent == -1000000     \* the size in the header at the end of a pool

Plus(a, n) == <<a[1], a[2], a[3] + n>>
Without(f, S) == << >> @@ [x \in DOMAIN f \ S |-> f[x]]

\* Headers by address, with bsize (negative if allocated) and prevfree; the free lists; numpblk and
\* last_pool.
NewHeap == [hdr |-> << >>, free |-> [b \in Bins |-> << >>], numpblk |-> 0, last |-> Null]

\* A scenario says which threads there are, which are roots that may end before the others, who
\* allocates, the sizes of plain requests and the lists asked for, the mode of the search, and
\* bounds: the pools a thread has and the blocks the program holds at a time.
Init ==
  /\ scenario \in Scenarios
  /\ heap = [t \in Threads |-> NewHeap]
  /\ bget_list = [t \in Threads |-> Null]
  /\ lists = [t \in Threads |-> [i \in Indices |-> [self |-> Null, sync |-> Null, other |-> Null]]]
  /\ link = << >> /\ length = << >> /\ use = << >> /\ held = {}
  /\ pc = [t \in Threads |-> "idle"] /\ my = [t \in Threads |-> << >>]
  /\ reaped = [threads |-> {}, stale |-> FALSE]

-----------------------------------------------------------------------------
(* One thread's pools. *)

\* bget_get_bin, a binary chop that may stop a bin early.
Bin == [size \in 1 .. PoolSize |->
  LET chop[lo, hi \in Bins] ==
        LET mid == (lo + hi) \div 2
        IN  IF hi - lo <= 1 THEN lo
            ELSE IF size < BinSizes[mid + 1] THEN chop[lo, mid - 1] ELSE chop[mid, hi]
  IN  chop[0, Len(BinSizes) - 1]]

Enlist(h, a) == [h EXCEPT !.free[Bin[h.hdr[a].size]] = Append(@, a)]
Unlist(h, a) ==
  LET bin == CHOOSE b \in Bins : a \in Range(h.free[b]) IN [h EXCEPT !.free[bin] = Remove(@, a)]

\* The pool goes back to malloc.
DropPool(h, p) == [h EXCEPT !.hdr = Without(@, {a \in DOMAIN @ : a[2] = p}), !.numpblk = @ - 1]

\* The buffer n that follows b becomes part of it.
Join(h, b, n) ==
  LET size == IF h.hdr[n].size < 0 THEN -h.hdr[n].size ELSE h.hdr[n].size
  IN  [h EXCEPT !.hdr = (b :> [size |-> @[b].size + size, prev |-> @[b].prev]) @@ Without(@, {n})]

\* Mutant of Told: the next buffer is not told.
ToldNothing(h, b) == h

\* The buffer that follows the free buffer b is told its size.
Told(h, b) == [h EXCEPT !.hdr[Plus(b, h.hdr[b].size)].prev = h.hdr[b].size]

\* brel of a buffer of the thread's own: it becomes one with its free neighbours, and a pool that
\* is free altogether is released unless it is the only one.
Release(h, a) ==
  LET prev == h.hdr[a].prev
      b == Plus(a, -prev)
      freed == IF prev = 0 THEN [h EXCEPT !.hdr[a].size = -@] ELSE Unlist(Join(h, b, a), b)
      listed == Enlist(freed, b)
      n == Plus(b, listed.hdr[b].size)
      joined == IF listed.hdr[n].size > 0
                THEN Enlist(Unlist(Join(Unlist(listed, n), b, n), b), b) ELSE listed
      done == Told(joined, b)
  IN  IF done.hdr[b].size # PoolSize - Header THEN done
      ELSE IF done.numpblk = 1 THEN [done EXCEPT !.last = b]
      ELSE DropPool(Unlist([done EXCEPT !.last = IF @ = b THEN Null ELSE @], b), b[2])

\* Mutant of Found: the search begins with the bin after that of the size.
FoundAbove(h, size) ==
  LET Candidates(b) == SelectSeq(h.free[b], LAMBDA a : h.hdr[a].size >= size)
      bins == {b \in Bin[size] + 1 .. Len(BinSizes) - 1 : Candidates(b) # << >>}
  IN  IF bins = {} THEN Null ELSE Head(Candidates(Min(bins)))

\* The buffer the search comes to: of the first bin from that of the size on that has one large
\* enough, the oldest, the latest or the smallest.
Found(h, size) ==
  LET Fits(a) == h.hdr[a].size >= size
      Candidates(b) == SelectSeq(h.free[b], Fits)
      bins == {b \in Bin[size] .. Len(BinSizes) - 1 : Candidates(b) # << >>}
      c == Candidates(Min(bins))
      least == Min({h.hdr[c[i]].size : i \in DOMAIN c})
  IN  CASE bins = {} -> Null
        [] bins # {} /\ scenario.mode = "fifo" -> Head(c)
        [] bins # {} /\ scenario.mode = "lifo" -> Last(c)
        [] bins # {} /\ scenario.mode = "best" -> c[SelectInSeq(c, LAMBDA a : h.hdr[a].size = least)]

\* It is given away whole, or the end of it if enough is left.
Splits(h, a, size) == h.hdr[a].size - size > SizeQ + Header
Taken(h, a, size) == IF Splits(h, a, size) THEN Plus(a, h.hdr[a].size - size) ELSE a
Take(h, a, size) ==
  LET left == h.hdr[a].size - size
      b == Taken(h, a, size)
      cut == [h EXCEPT !.hdr = (b :> [size |-> -size, prev |-> left]) @@ [@ EXCEPT ![a].size = left]]
      whole == [h EXCEPT !.hdr[a].size = -@]
      n == Plus(a, h.hdr[a].size)
  IN  [IF Splits(h, a, size) THEN Enlist(Unlist(cut, a), a) ELSE Unlist(whole, a) EXCEPT !.hdr[n].prev = 0]

\* bpool: a new pool, one free buffer and the header that ends it.
AddPool(t, h) ==
  LET p == Min({q \in 1 .. scenario.pools : \A a \in DOMAIN h.hdr : a[2] # q})
      size == PoolSize - Header
      first == <<t, p, 0>>
  IN  Enlist([h EXCEPT !.hdr = (first :> [size |-> size, prev |-> 0])
                                 @@ (<<t, p, size>> :> [size |-> ESent, prev |-> size]) @@ @,
                       !.numpblk = @ + 1], first)

\* The size of the buffer for a request.
Needed(n) == (IF n < SizeQ THEN SizeQ ELSE n) + Header

-----------------------------------------------------------------------------
(* Lists through the blocks. *)

RECURSIVE Chain(_)
Chain(a) == IF a \in DOMAIN link THEN <<a>> \o Chain(link[a]) ELSE << >>

\* __kmp_bget_dequeue: all that others have freed is taken at once, and released.
RECURSIVE Emptied(_, _)
Emptied(h, a) == IF a \in DOMAIN link THEN Emptied(Release(h, a), link[a]) ELSE h
Queued(t) == Chain(bget_list[t])
Dequeued(t) == Emptied(heap[t], bget_list[t])
Dequeue(t) == bget_list' = [bget_list EXCEPT ![t] = Null]

Running(t) == pc[t] = "idle" /\ t \notin reaped.threads /\ reaped.threads \subseteq scenario.roots
Goto(t, label, locals) == pc' = [pc EXCEPT ![t] = label] /\ my' = [my EXCEPT ![t] = locals]

-----------------------------------------------------------------------------
(* Allocation. *)

\* The program gets the buffer.
Give(t, h, size, index) ==
  LET b == Found(h, size)
  IN  /\ heap' = [heap EXCEPT ![t] = Take(h, b, size)]
      /\ use' = (Taken(h, b, size) :> index) @@ Without(use, Range(Queued(t)))
      /\ held' = held \union {Taken(h, b, size)}

\* bget: what others have freed first, then the search.
Bget(t, n, index) ==
  LET size == Needed(n)
      h == Dequeued(t)
  IN  /\ Dequeue(t)
      /\ \/ /\ Found(h, size) # Null
            /\ Give(t, h, size, index)
            /\ UNCHANGED <<pc, my>>
         \/ /\ Found(h, size) = Null
            /\ heap' = [heap EXCEPT ![t] = h]
            /\ use' = Without(use, Range(Queued(t)))
            /\ Goto(t, "expand", [size |-> size, index |-> index])
            /\ UNCHANGED held
      /\ link' = Without(link, Range(Queued(t)))
      /\ UNCHANGED <<lists, length>>

\* __kmp_thread_malloc, kmpc_malloc, and blocks too large for a list.
Malloc(t, n) == /\ Running(t) /\ Cardinality(held) < scenario.blocks
                /\ Bget(t, n, Plain)
                /\ UNCHANGED <<scenario, reaped>>

\* Nothing fits: a new pool, and the search again. Others may have freed more meanwhile.
Expand(t) ==
  /\ pc[t] = "expand"
  /\ Dequeued(t).numpblk < scenario.pools
  /\ Dequeue(t)
  /\ Give(t, AddPool(t, Dequeued(t)), my[t].size, my[t].index)
  /\ link' = Without(link, Range(Queued(t)))
  /\ Goto(t, "idle", << >>)
  /\ UNCHANGED <<scenario, lists, length, reaped>>

\* Mutant of FastAllocate: the list is emptied after its first block is taken.
FastAllocateFirst(t, i) ==
  LET sync == lists[t][i].sync
  IN  /\ Running(t) /\ Cardinality(held) < scenario.blocks
      /\ IF sync # Null
         THEN /\ lists' = [lists EXCEPT ![t][i].sync = Null]
              /\ held' = held \union {sync} /\ link' = Without(link, {sync})
              /\ UNCHANGED <<heap, bget_list, length, use, pc, my>>
         ELSE Bget(t, FastSizes[i], i)
      /\ UNCHANGED <<scenario, reaped>>

\* __kmp_fast_allocate for the list of an index: the thread's own list, or all that others have
\* handed back, or bget.
FastAllocate(t, i) ==
  LET self == lists[t][i].self
      sync == lists[t][i].sync
      Pop(ptr, rest) ==
        /\ lists' = [lists EXCEPT ![t][i] = rest]
        /\ held' = held \union {ptr}
        /\ link' = Without(link, {ptr})
        /\ UNCHANGED <<heap, bget_list, length, use, pc, my>>
  IN  /\ Running(t) /\ Cardinality(held) < scenario.blocks
      /\ \/ /\ self # Null
            /\ Pop(self, [lists[t][i] EXCEPT !.self = link[self]])
         \/ /\ self = Null /\ sync # Null
            /\ Pop(sync, [lists[t][i] EXCEPT !.self = link[sync], !.sync = Null])
         \/ /\ self = Null /\ sync = Null
            /\ Bget(t, FastSizes[i], i)
      /\ UNCHANGED <<scenario, reaped>>

-----------------------------------------------------------------------------
(* Release. *)

\* __kmp_thread_free, kmpc_free: the thread's own list first; a buffer of another thread is for
\* that thread to release, and is linked to what is on its list by now.
Free(t, b) ==
  LET own == b[1] = t
      gone == Range(Queued(t)) \union (IF own THEN {b} ELSE {})
  IN  /\ Running(t) /\ b \in held /\ use[b] = Plain
      /\ Dequeue(t)
      /\ held' = held \ {b}
      /\ use' = Without(use, gone)
      /\ heap' = [heap EXCEPT ![t] = IF own THEN Release(Dequeued(t), b) ELSE Dequeued(t)]
      /\ \/ own /\ link' = Without(link, gone) /\ UNCHANGED <<pc, my>>
         \/ /\ ~own
            /\ link' = (b :> bget_list[b[1]]) @@ Without(link, gone)
            /\ Goto(t, "enqueue", [buf |-> b, old |-> bget_list[b[1]]])
      /\ UNCHANGED <<scenario, lists, length, reaped>>

\* __kmp_bget_enqueue, the compare and exchange.
Enqueue(t) ==
  LET b == my[t].buf
      head == bget_list[b[1]]
  IN  /\ pc[t] = "enqueue"
      /\ \/ /\ head = my[t].old
            /\ bget_list' = [bget_list EXCEPT ![b[1]] = b]
            /\ Goto(t, "idle", << >>)
            /\ UNCHANGED link
         \/ /\ head # my[t].old
            /\ link' = [link EXCEPT ![b] = head]
            /\ Goto(t, "enqueue", [my[t] EXCEPT !.old = head])
            /\ UNCHANGED bget_list
      /\ UNCHANGED <<scenario, heap, lists, length, use, held, reaped>>

\* __kmp_fast_free: a block of the thread goes on its own list; one of another thread's on the
\* list that is gathered for that thread, which is handed back when it is full or when the block
\* is of somebody else again.
FastFree(t, b) ==
  LET i == use[b]
      head == lists[t][i].other
      sync == lists[head[1]][i].sync
      tail == Last(Chain(head))
  IN  /\ Running(t) /\ b \in held /\ i # Plain
      /\ held' = held \ {b}
      /\ \/ /\ b[1] = t
            /\ link' = (b :> lists[t][i].self) @@ link
            /\ lists' = [lists EXCEPT ![t][i].self = b]
            /\ UNCHANGED <<length, pc, my>>
         \/ /\ b[1] # t /\ head = Null
            /\ link' = (b :> Null) @@ link
            /\ lists' = [lists EXCEPT ![t][i].other = b]
            /\ length' = (b :> 1) @@ length
            /\ UNCHANGED <<pc, my>>
         \/ /\ b[1] # t /\ head # Null /\ head[1] = b[1] /\ length[head] < ListLimit
            /\ link' = (b :> head) @@ link
            /\ lists' = [lists EXCEPT ![t][i].other = b]
            /\ length' = (b :> length[head] + 1) @@ length
            /\ UNCHANGED <<pc, my>>
         \/ /\ b[1] # t /\ head # Null /\ (head[1] # b[1] \/ length[head] >= ListLimit)
            /\ link' = [link EXCEPT ![tail] = sync]
            /\ Goto(t, "flush", [buf |-> b, index |-> i, tail |-> tail, old |-> sync])
            /\ UNCHANGED <<lists, length>>
      /\ UNCHANGED <<scenario, heap, bget_list, use, reaped>>

\* The compare and exchange on the owner's list; then the block begins a new list.
Flush(t) ==
  LET b == my[t].buf
      i == my[t].index
      head == lists[t][i].other
      q == head[1]
      sync == lists[q][i].sync
      handed == {x \in DOMAIN length : x[1] = q /\ x \in Range(Chain(head))}
  IN  /\ pc[t] = "flush"
      /\ \/ /\ sync = my[t].old
            /\ lists' = [lists EXCEPT ![q][i].sync = head, ![t][i].other = b]
            /\ link' = (b :> Null) @@ link
            /\ length' = (b :> 1) @@ Without(length, handed)
            /\ Goto(t, "idle", << >>)
         \/ /\ sync # my[t].old
            /\ link' = [link EXCEPT ![my[t].tail] = sync]
            /\ Goto(t, "flush", [my[t] EXCEPT !.old = sync])
            /\ UNCHANGED <<lists, length>>
      /\ UNCHANGED <<scenario, heap, bget_list, use, held, reaped>>

-----------------------------------------------------------------------------
\* __kmp_reap_thread: __kmp_free_fast_memory releases the pools whose first buffer is free, then
\* __kmp_finalize_bget the last pool.  It happens when the library ends, and to a root that ends,
\* of which the program has nothing any more.
Reap(t) ==
  LET h == Dequeued(t)
      firsts == {a \in UNION {Range(h.free[b]) : b \in Bins} : a[3] = 0}
      kept == FoldSet(LAMBDA a, u : DropPool(u, a[2]), h, firsts)
      looks == kept.last # Null /\ kept.numpblk # 0
  IN  /\ t \notin reaped.threads /\ pc[t] = "idle"
      /\ \/ t \in scenario.roots /\ \A b \in held : b[1] # t
         \/ held = {} /\ \A u \in Threads : pc[u] = "idle"
      /\ Dequeue(t)
      /\ heap' = [heap EXCEPT ![t] = NewHeap]
      /\ use' = Without(use, {b \in DOMAIN use : b[1] = t})
      /\ link' = Without(link, Range(Queued(t)))
      /\ reaped' = [threads |-> reaped.threads \union {t},
                    stale |-> reaped.stale \/ (looks /\ kept.last \notin DOMAIN kept.hdr)]
      /\ UNCHANGED <<scenario, lists, length, held, pc, my>>

Next == \E t \in Threads :
  \/ t \in scenario.allocators /\ \E n \in scenario.sizes : Malloc(t, n)
  \/ t \in scenario.allocators /\ \E i \in scenario.indices : FastAllocate(t, i)
  \/ Expand(t) \/ Enqueue(t) \/ Flush(t)
  \/ \E b \in held : Free(t, b)
  \/ \E b \in held : FastFree(t, b)
  \/ Reap(t)

Spec == Init /\ [][Next]_vars

-----------------------------------------------------------------------------
(* Properties. *)

Size(h, a) == IF h.hdr[a].size < 0 THEN -h.hdr[a].size ELSE h.hdr[a].size
Ends(h, a) == h.hdr[a].size = ESent
FreeBuffers(h) == {a \in DOMAIN h.hdr : h.hdr[a].size > 0}
Allocated(h) == {a \in DOMAIN h.hdr : h.hdr[a].size < 0 /\ ~Ends(h, a)}

\* Buffers follow each other without gap or overlap from the start of a pool to the header at its
\* end, and each is told the size of the one before it exactly if that is free (bget 525-587).
Tiled(h) == \A a \in DOMAIN h.hdr :
  IF Ends(h, a) THEN a[3] = PoolSize - Header
  ELSE LET n == Plus(a, Size(h, a))
       IN  /\ n \in DOMAIN h.hdr
           /\ \A x \in DOMAIN h.hdr : x[2] = a[2] => x[3] <= a[3] \/ x[3] >= n[3]
           /\ h.hdr[n].prev = IF h.hdr[a].size > 0 THEN h.hdr[a].size ELSE 0
           /\ a[3] # 0 => \E x \in DOMAIN h.hdr : ~Ends(h, x) /\ Plus(x, Size(h, x)) = a

\* "the process of recombination guarantees that two free blocks will never be contiguous in
\* memory" (brel, 840).
Recombined(h) == \A a \in FreeBuffers(h) : h.hdr[Plus(a, Size(h, a))].size < 0

\* Every free buffer is once on one list, that of its size, where the search will come by.
Listed(h) ==
  /\ \A b \in Bins : IsInjective(h.free[b]) /\ Range(h.free[b]) \subseteq FreeBuffers(h)
  /\ \A a \in FreeBuffers(h) : {b \in Bins : a \in Range(h.free[b])} = {Bin[h.hdr[a].size]}

\* Pools are counted, and last_pool is not "a stale last_pool pointer around" (brel, 884).
PoolsCounted(h) ==
  /\ h.numpblk = Cardinality({a[2] : a \in DOMAIN h.hdr})
  /\ h.last \in DOMAIN h.hdr \union {Null}

\* The pools of every thread are sound in all these respects, whoever frees, in whatever order, and
\* a thread goes for another pool only when none of its free buffers would do.
HeapSound == \A t \in Threads :
  /\ Tiled(heap[t]) /\ Recombined(heap[t]) /\ Listed(heap[t]) /\ PoolsCounted(heap[t])
  /\ pc[t] = "expand" => \A a \in FreeBuffers(heap[t]) : heap[t].hdr[a].size < my[t].size

\* Where a block can be: with the program, in a call, waiting for its owner's pools, on the owner's
\* lists, or on a list gathered of its owner's blocks, which ends where it is linked to sync.
Gathered(t, i) ==
  LET head == lists[t][i].other IN IF head = Null THEN << >> ELSE SubSeq(Chain(head), 1, length[head])
Places ==
  {<<"held", b, 0, <<b>> >> : b \in held}
    \union {<<"call", t, 0, <<my[t].buf>> >> : t \in {u \in Threads : pc[u] \in {"enqueue", "flush"}}}
    \union {<<"bget", t, 0, Queued(t)>> : t \in Threads}
    \union {<<"self", t, i, Chain(lists[t][i].self)>> : t \in Threads, i \in Indices}
    \union {<<"sync", t, i, Chain(lists[t][i].sync)>> : t \in Threads, i \in Indices}
    \union {<<"other", t, i, Gathered(t, i)>> : t \in Threads, i \in Indices}

\* No block is lost and none is in two places, through lists that other threads push on and take
\* at once; a gathered list is of one owner, as long as its head says and no longer than the limit
\* (__kmp_fast_free 1789-1837), and lists hold blocks of their size.  At the end of the library
\* lists are given up with their pools.
BlocksKept == reaped.threads = {} =>
  /\ DOMAIN use = UNION {Allocated(heap[t]) : t \in Threads}
  /\ \A b \in DOMAIN use :
       Cardinality(UNION {{<<p, n>> : n \in {k \in DOMAIN p[4] : p[4][k] = b}} : p \in Places}) = 1
  /\ \A p \in Places : p[1] \notin {"held", "call"} =>
       /\ \A b \in Range(p[4]) : b \in DOMAIN use /\ use[b] = p[3]
       /\ p[1] # "other" => \A b \in Range(p[4]) : b[1] = p[2]
       /\ p[1] = "other" => /\ Len(p[4]) <= ListLimit
                            /\ \A b \in Range(p[4]) : b[1] # p[2] /\ b[1] = p[4][1][1]
       /\ p[1] = "other" /\ pc[p[2]] # "flush" /\ p[4] # << >>
            => length[p[4][1]] = Len(Chain(p[4][1]))

\* Both: the pools and the blocks given out of them stay sound.
MemoryExact == HeapSound /\ BlocksKept

\* What the scenarios MCRoot and MCLastPool of MCMemory show not to hold: a list gathered of a
\* thread's blocks is handed back while there is that thread, and the last pool is looked at before
\* it is released ("count blocks to prevent problems in __kmp_finalize_bget()", 1892).
OwnersThere == \A t \in Threads : pc[t] = "flush" => lists[t][my[t].index].other[1] \notin reaped.threads
LastPoolThere == ~reaped.stale
=============================================================================

----------------------------- MODULE ExtentAlloc -----------------------------
(***************************************************************************)
(* The slab allocator of nbd-vram.c.  The heap is carved into extents; an  *)
(* extent in use belongs to one size class and holds a bitmap of slots.    *)
(* Extents not in use are on the free list; those in use that have a free  *)
(* slot are on the partial list of their class; a full one is on no list.  *)
(* g_alloc_mu makes each call one step.                                    *)
(***************************************************************************)
EXTENDS Integers, FiniteSets, FiniteSetsExt

CONSTANTS NExtents,     \* g_n_extents
          EXT_GRAINS,   \* grains in an extent
          ALLOC_GRAIN,  \* bytes in a grain
          NCLASS,       \* size classes; class c holds slots of c + 1 grains
          WORD,         \* slots one bitmap word tracks (64)
          EXT_NONE

ASSUME AllocAssumption ==
  /\ {NExtents, EXT_GRAINS, ALLOC_GRAIN, NCLASS, WORD} \subseteq Nat \ {0}
  /\ NCLASS <= EXT_GRAINS
  /\ EXT_GRAINS % WORD = 0
  /\ EXT_NONE \notin Int

EXT_BMWORDS == EXT_GRAINS \div WORD

Extents == 0..(NExtents - 1)
Classes == 0..(NCLASS - 1)
Words   == 0..(EXT_BMWORDS - 1)
Bits    == 0..(WORD - 1)
Grains  == 0..(NExtents * EXT_GRAINS - 1)
Sizes   == 1..(NCLASS * ALLOC_GRAIN)

(* The list heads: one partial list per class, and the free list.          *)
FREE  == NCLASS
Heads == Classes \cup {FREE}

VARIABLES next, prev,    \* the intrusive links of each extent
          head,          \* g_class_head and g_free_head
          ext,           \* the rest of struct extent, and its bitmap
          extents_used,  \* g_extents_used
          peak,          \* g_extents_peak
          slot_bytes,    \* g_slot_bytes
          held           \* history: the slots handed out and not freed

vars == <<next, prev, head, ext, extents_used, peak, slot_bytes, held>>

Link == Extents \cup {EXT_NONE}

Extent == [nfree : 0..EXT_GRAINS, nslots : 0..EXT_GRAINS, cls : Classes, used : {0, 1},
           hint : Words, bm : [Words -> SUBSET Bits]]

TypeOK ==
  /\ next \in [Extents -> Link]
  /\ prev \in [Extents -> Link]
  /\ head \in [Heads -> Link]
  /\ ext \in [Extents -> Extent]
  /\ extents_used \in 0..NExtents
  /\ peak \in 0..NExtents
  /\ slot_bytes \in Nat
  /\ held \subseteq [grain : Grains, len : 1..NCLASS]

-----------------------------------------------------------------------------
(* Lists.  L is a triple of links and heads; l names a head.               *)

Lists == [next |-> next, prev |-> prev, head |-> head]

lst_push(L, l, e) ==
  [next |-> [L.next EXCEPT ![e] = L.head[l]],
   prev |-> [x \in Extents |-> IF x = L.head[l] THEN e
                               ELSE IF x = e THEN EXT_NONE ELSE L.prev[x]],
   head |-> [L.head EXCEPT ![l] = e]]

(* A variant that leaves the successor's back link alone.                  *)
lst_remove_stale(L, l, e) ==
  LET p == L.prev[e]  n == L.next[e] IN
  [next |-> [x \in Extents |-> IF x = e THEN EXT_NONE
                               ELSE IF x = p THEN n ELSE L.next[x]],
   prev |-> [L.prev EXCEPT ![e] = EXT_NONE],
   head |-> IF p = EXT_NONE THEN [L.head EXCEPT ![l] = n] ELSE L.head]

lst_remove(L, l, e) ==
  LET p == L.prev[e]  n == L.next[e] IN
  [next |-> [x \in Extents |-> IF x = e THEN EXT_NONE
                               ELSE IF x = p THEN n ELSE L.next[x]],
   prev |-> [x \in Extents |-> IF x = e THEN EXT_NONE
                               ELSE IF x = n THEN p ELSE L.prev[x]],
   head |-> IF p = EXT_NONE THEN [L.head EXCEPT ![l] = n] ELSE L.head]

Relink(L) == next' = L.next /\ prev' = L.prev /\ head' = L.head

-----------------------------------------------------------------------------
(* Extents.                                                                *)

SlotOf(w, b) == w * WORD + b

(* A variant that rounds the number of slots up.                           *)
ext_init_up(c) ==
  LET n == (EXT_GRAINS + c) \div (c + 1) IN
  [nfree |-> n, nslots |-> n, cls |-> c, used |-> 1, hint |-> 0,
   bm |-> [w \in Words |-> {b \in Bits : SlotOf(w, b) >= n}]]

(* A fresh extent of class c.  The bits past its last slot are set.        *)
ext_init(c) ==
  LET n == EXT_GRAINS \div (c + 1) IN
  [nfree |-> n, nslots |-> n, cls |-> c, used |-> 1, hint |-> 0,
   bm |-> [w \in Words |-> {b \in Bits : SlotOf(w, b) >= n}]]

(* The word ext_take claims a bit in: the first, from the hint on and      *)
(* around, that has a clear bit.                                           *)
TakeWord(x) ==
  LET at(i) == (x.hint + i) % EXT_BMWORDS IN
  at(Min({i \in Words : x.bm[at(i)] # Bits}))

(* The slot of that bit, the first that is clear in its word.              *)
TakeSlot(x) == LET w == TakeWord(x) IN SlotOf(w, Min(Bits \ x.bm[w]))

(* A variant that moves the hint past a word it fills.                     *)
ext_take_past(x) ==
  LET s == TakeSlot(x)  w == s \div WORD  b == s % WORD IN
  [x EXCEPT !.bm[w] = @ \cup {b},
            !.hint = IF x.bm[w] \cup {b} = Bits THEN w + 1 ELSE w,
            !.nfree = @ - 1]

ext_take(x) ==
  LET s == TakeSlot(x)  w == s \div WORD  b == s % WORD IN
  [x EXCEPT !.bm[w] = @ \cup {b},
            !.hint = w,
            !.nfree = @ - 1]

GrainOf(e, x) == e * EXT_GRAINS + TakeSlot(x) * (x.cls + 1)

Init ==
  /\ next = [e \in Extents |-> IF e = NExtents - 1 THEN EXT_NONE ELSE e + 1]
  /\ prev = [e \in Extents |-> IF e = 0 THEN EXT_NONE ELSE e - 1]
  /\ head = [l \in Heads |-> IF l = FREE THEN 0 ELSE EXT_NONE]
  /\ ext = [e \in Extents |-> [nfree |-> 0, nslots |-> 0, cls |-> 0, used |-> 0,
                               hint |-> 0, bm |-> [w \in Words |-> {}]]]
  /\ extents_used = 0
  /\ peak = 0
  /\ slot_bytes = 0
  /\ held = {}

-----------------------------------------------------------------------------
(* slot_alloc: a slot of the class, from its partial extent or a fresh     *)
(* one, else of the first larger class that has a partial extent.          *)

ClassOf(n) == (n - 1) \div ALLOC_GRAIN

(* A variant that never rounds a slot up.                                  *)
FitsOwn(heads, c) == {d \in {c} : heads[d] # EXT_NONE}

(* The classes a slot of class c can come from.                            *)
Fits(heads, c) == {d \in c..(NCLASS - 1) : heads[d] # EXT_NONE}

slot_alloc(n) ==
  LET c     == ClassOf(n)
      e0    == head[FREE]
      fresh == head[c] = EXT_NONE /\ e0 # EXT_NONE
      L     == IF fresh THEN lst_push(lst_remove(Lists, FREE, e0), c, e0) ELSE Lists
      X     == IF fresh THEN [ext EXCEPT ![e0] = ext_init(c)] ELSE ext
      fits  == Fits(L.head, c)
      e     == L.head[Min(fits)]
      x     == X[e]
  IN
  \/ /\ fits = {}
     /\ UNCHANGED vars
  \/ /\ fits # {}
     /\ ext' = [X EXCEPT ![e] = ext_take(x)]
     /\ Relink(IF x.nfree = 1 THEN lst_remove(L, x.cls, e) ELSE L)
     /\ extents_used' = extents_used + (IF fresh THEN 1 ELSE 0)
     /\ peak' = Max({peak, extents_used'})
     /\ slot_bytes' = slot_bytes + (x.cls + 1) * ALLOC_GRAIN
     /\ held' = held \cup {[grain |-> GrainOf(e, x), len |-> x.cls + 1]}

(* The slot coming back is the last one extent x had handed out.           *)
Emptied(x) == x.nfree + 1 = x.nslots

(* A variant that leaves the hint where it is.                             *)
GivenBackHigh(x, slot) ==
  [x EXCEPT !.bm[slot \div WORD] = @ \ {slot % WORD},
            !.nfree = @ + 1,
            !.used = IF Emptied(x) THEN 0 ELSE @]

(* Extent x with a slot given back.                                        *)
GivenBack(x, slot) ==
  [x EXCEPT !.bm[slot \div WORD] = @ \ {slot % WORD},
            !.nfree = @ + 1,
            !.hint = IF slot \div WORD < @ THEN slot \div WORD ELSE @,
            !.used = IF Emptied(x) THEN 0 ELSE @]

(* The lists after it: an extent that was full goes back on its class's    *)
(* list, and one that is empty moves from there to the free list.          *)
Refiled(e, x) ==
  LET L == IF x.nfree = 0 THEN lst_push(Lists, x.cls, e) ELSE Lists
  IN  IF Emptied(x) THEN lst_push(lst_remove(L, x.cls, e), FREE, e) ELSE L

(* slot_free: the class is the owning extent's.                            *)
slot_free(g) ==
  LET e == g \div EXT_GRAINS  x == ext[e] IN
  /\ ext' = [ext EXCEPT ![e] = GivenBack(x, (g % EXT_GRAINS) \div (x.cls + 1))]
  /\ Relink(Refiled(e, x))
  /\ extents_used' = extents_used - (IF Emptied(x) THEN 1 ELSE 0)
  /\ slot_bytes' = slot_bytes - (x.cls + 1) * ALLOC_GRAIN
  /\ held' = {h \in held : h.grain # g}
  /\ UNCHANGED peak

Next ==
  \/ \E n \in Sizes : slot_alloc(n)
  \/ \E h \in held : slot_free(h.grain)

Spec == Init /\ [][Next]_vars

-----------------------------------------------------------------------------
(* Properties.                                                             *)

GrainsOf(h) == h.grain..(h.grain + h.len - 1)

(* No two slots handed out share a byte, and none runs past the end of its *)
(* extent, whatever classes the extents had before: a slot rounded up into *)
(* a larger class, freed, and its extent recycled for another class stays  *)
(* apart from the rest (ext_init, ext_take, slot_free).                    *)
SlotsDisjoint ==
  \A g, h \in held :
    /\ g # h => GrainsOf(g) \cap GrainsOf(h) = {}
    /\ h.grain \div EXT_GRAINS = (h.grain + h.len - 1) \div EXT_GRAINS

(* What a list should hold: the free list the extents not in use, a        *)
(* partial list those of its class that have a free slot.                  *)
Belongs(l) ==
  {e \in Extents : IF l = FREE THEN ext[e].used = 0
                   ELSE ext[e].used = 1 /\ ext[e].cls = l /\ ext[e].nfree > 0}

(* The extent k links down the list.                                       *)
Follow(l) ==
  LET f[k \in 0..NExtents] ==
        IF k = 0 THEN head[l]
        ELSE IF f[k - 1] = EXT_NONE THEN EXT_NONE ELSE next[f[k - 1]]
  IN  f

(* Every list is finite, doubly linked, and holds exactly the extents that *)
(* belong on it: an extent is on the free list, on exactly one partial     *)
(* list, or, when full, on none (lst_push, lst_remove and their callers).  *)
ListsSound ==
  \A l \in Heads :
    LET f == Follow(l) IN
    /\ f[NExtents] = EXT_NONE
    /\ {f[k] : k \in 0..NExtents} \ {EXT_NONE} = Belongs(l)
    /\ \A k \in 0..(NExtents - 1) :
         f[k] # EXT_NONE => prev[f[k]] = IF k = 0 THEN EXT_NONE ELSE f[k - 1]

(* Extent e has room for a slot of class c.                                *)
Room(e, c) ==
  \/ ext[e].used = 0
  \/ /\ ext[e].cls >= c
     /\ \E s \in 0..(ext[e].nslots - 1) :
          [grain |-> e * EXT_GRAINS + s * (ext[e].cls + 1), len |-> ext[e].cls + 1] \notin held

(* A write is refused only when no extent is free and no slot of its class *)
(* or a larger one is: a heap that has room is never reported full         *)
(* (slot_alloc's search, ext_take's scan, slot_free's list moves).         *)
RefusesOnlyWhenFull ==
  \A c \in Classes :
    head[FREE] = EXT_NONE /\ Fits(head, c) = {} => \A e \in Extents : ~Room(e, c)

(* No clear bit is below the hint, so that an extent fills from its low    *)
(* end and ext_take's scan never has to wrap (ext_take, slot_free).        *)
HintSound ==
  \A e \in Extents, w \in Words :
    ext[e].used = 1 /\ w < ext[e].hint => ext[e].bm[w] = Bits

(* The heap's gauges are the bytes of the grains handed out and the number *)
(* of extents that hold any (slot_alloc, slot_free).                       *)
HeapGauges ==
  /\ slot_bytes = ALLOC_GRAIN * Cardinality(UNION {GrainsOf(h) : h \in held})
  /\ extents_used = Cardinality({h.grain \div EXT_GRAINS : h \in held})

=============================================================================

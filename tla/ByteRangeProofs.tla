--------------------------- MODULE ByteRangeProofs ---------------------------
(***************************************************************************)
(* What start-up and the arithmetic of a request keep for every size of    *)
(* the device, of a block and of a window, and for every number of         *)
(* workers.                                                                *)
(***************************************************************************)
EXTENDS ByteRange, TLAPS

-----------------------------------------------------------------------------
(* The invariant: start-up.                                                *)

MainLabels == {"cuda", "codec", "init", "context", "alloc", "check", "store", "listen",
               "spawn", "join", "cleanup", "exit"}
WorkerLabels == {"none", "stream", "space", "context", "buffers", "selftest", "serve",
                 "failing", "done"}
Stock == {"listen_fd", "path", "index", "ext", "extbm", "vram", "context", "libcuda", "libcomp"}

Typed ==
  /\ main \in MainLabels /\ mb \in Nat
  /\ g_codec \in {"none", "zstd", "lz4"} /\ g_static_ctx \in BOOLEAN
  /\ g_vram_size \in Nat /\ g_disk_size \in Nat /\ g_nblocks \in Nat /\ g_n_extents \in Nat
  /\ worker \in [Threads -> WorkerLabels]
  /\ kit \in [Threads -> SUBSET Freed]
  /\ held \subseteq Stock

Comp == IF g_codec = "none" THEN {} ELSE {"libcomp"}

(* What main holds, at each of its steps until it cleans up.               *)
Stocked ==
  /\ main = "cuda" => held = {} /\ g_codec = "none" /\ ~g_static_ctx
  /\ main = "codec" => held = {"libcuda"} /\ g_codec = "none" /\ ~g_static_ctx
  /\ main \in {"init", "context"} => held = {"libcuda"} \cup Comp
  /\ main = "alloc" => held = {"libcuda", "context"} \cup Comp
  /\ main \in {"check", "store"} => held = {"libcuda", "context", "vram"} \cup Comp
  /\ main = "listen" => held = {"libcuda", "context", "vram", "index", "ext", "extbm"} \cup Comp
  /\ main \in {"spawn", "join"} => held = (Stock \ {"libcomp"}) \cup Comp
  /\ main \in {"cuda", "codec", "init", "context"} => g_vram_size = 0
  /\ main = "exit" => held \subseteq {"libcuda", "libcomp"}
  /\ main = "exit" /\ g_vram_size # 0 => held = {}
  /\ "vram" \in held => "context" \in held
  /\ "context" \in held => "libcuda" \in held

(* Workers live while main waits for them, and keep nothing once they end. *)
Crew ==
  \A t \in Threads :
    /\ worker[t] \in {"none", "done"} => kit[t] = {}
    /\ main \notin {"join", "cleanup", "exit"} => worker[t] = "none"
    /\ main = "join" => worker[t] # "none"
    /\ main \in {"cleanup", "exit"} => worker[t] \in {"none", "done"}

(* The sizes, from the step that settles them.                             *)
Sized ==
  /\ g_vram_size < 2^SIZE_BITS /\ g_vram_size % EXTENT_SIZE = 0
  /\ main \in {"store", "listen", "spawn", "join"} =>
       /\ ~TooLarge
       /\ g_disk_size % CBLK_SIZE = 0 /\ CBLK_SIZE <= g_disk_size
       /\ g_disk_size < 2^SIZE_BITS
       /\ g_codec = "none" => g_disk_size <= g_vram_size
  /\ main \in {"listen", "spawn", "join"} =>
       /\ g_nblocks = g_disk_size \div CBLK_SIZE
       /\ g_n_extents = g_vram_size \div EXTENT_SIZE /\ g_n_extents # 0

StartInv == Typed /\ Stocked /\ Crew /\ Sized

-----------------------------------------------------------------------------
(* The invariant: a request.                                               *)

Parts == {p \in [blk : Nat, at : Nat, cnt : Nat] : 0 < p.cnt /\ p.at + p.cnt <= CBLK_SIZE}

(* The parts s are those of the bytes from a up to b, in order.            *)
Covers(s, a, b) ==
  /\ s \in Seq(Parts)
  /\ \A i \in DOMAIN s : BytesOf(s[i]) \subseteq a..(b - 1)
  /\ \A x \in a..(b - 1) : \E i \in DOMAIN s : x \in BytesOf(s[i])
  /\ \A i, j \in DOMAIN s : i < j => s[i].blk < s[j].blk

Request ==
  /\ pc \in {"idle", "start", "window", "trim", "done"}
  /\ cmd \in {"NONE", "READ", "WRITE", "TRIM"} /\ error \in {"ok", "EINVAL"}
  /\ offset \in Offsets /\ length \in Nat /\ voff \in Offsets /\ remaining \in Nat
  /\ pc # "idle" => main = "join" /\ \A t \in Threads : worker[t] = "serve"
  /\ pc \in {"idle", "start", "trim"} \/ error # "ok" => pieces = <<>>
  /\ pc = "start" => voff = offset /\ remaining = length
  /\ pc \in {"window", "trim", "done"} => (error = "EINVAL" <=> offset + length > g_disk_size)
  /\ pc = "window" => cmd # "TRIM"
  /\ pc = "trim" => cmd = "TRIM"

(* How far a request has come.                                             *)
Progress ==
  /\ pc = "window" /\ error = "ok" =>
       /\ offset <= voff /\ voff + remaining = offset + length
       /\ Covers(pieces, offset, voff)
       /\ voff = offset \/ voff % CBLK_SIZE = 0 \/ remaining = 0
  /\ pc = "done" /\ error = "ok" /\ cmd # "TRIM" => Covers(pieces, offset, offset + length)
  /\ pc = "done" /\ error = "ok" /\ cmd = "TRIM" => pieces = Trimmed(offset, length)

IInv == StartInv /\ Request /\ Progress

-----------------------------------------------------------------------------
(* Arithmetic.                                                             *)

LEMMA Division ==
  ASSUME NEW a \in Nat, NEW b \in Nat \ {0}
  PROVE  /\ a \div b \in Nat /\ a % b \in Nat /\ a % b < b
         /\ a = (a \div b) * b + (a % b)
  <1> DEFINE q == a \div b
             r == a % b
  <1>1. a = b * q + r /\ 0 <= r /\ r < b
    OBVIOUS
  <1>2. q \in Nat /\ r \in Nat
    OBVIOUS
  <1> HIDE DEF q, r
  <1>3. a = q * b + r
    BY <1>1, <1>2
  <1> QED
    BY <1>1, <1>2, <1>3, Zenon DEF q, r

LEMMA Multiple ==
  ASSUME NEW k \in Nat, NEW b \in Nat \ {0}
  PROVE  (k * b) \div b = k /\ (k * b) % b = 0
  OBVIOUS

LEMMA Factor ==
  ASSUME NEW a \in Nat, NEW b \in Nat \ {0}, a % b = 0
  PROVE  \E k \in Nat : a = k * b
  <1> DEFINE q == a \div b
             r == a % b
  <1>1. q \in Nat /\ a = q * b + r /\ r = 0
    BY Division, Zenon
  <1> HIDE DEF q, r
  <1> QED
    BY <1>1

LEMMA MultipleOf ==
  ASSUME NEW a \in Nat, NEW b \in Nat \ {0}, NEW c \in Nat \ {0}, a % b = 0, b % c = 0
  PROVE  a % c = 0
  <1>1. PICK k \in Nat : a = k * b
    BY Factor, Zenon
  <1>2. PICK l \in Nat : b = l * c
    BY Factor, Zenon
  <1>3. a = (k * l) * c /\ k * l \in Nat
    BY <1>1, <1>2
  <1> QED
    BY <1>3, Multiple, Zenon

(* The remainder of a multiple is one, where the modulus is one.           *)
LEMMA WrappedMultiple ==
  ASSUME NEW a \in Nat, NEW m \in Nat \ {0}, NEW b \in Nat \ {0}, a % b = 0, m % b = 0
  PROVE  a % m \in Nat /\ (a % m) % b = 0
  <1>1. PICK k \in Nat : a = k * b
    BY Factor, Zenon
  <1>2. PICK l \in Nat : m = l * b
    BY Factor, Zenon
  <1>3. PICK q \in Nat, r \in Nat : a = q * m + r /\ r = a % m
    <2> DEFINE u == a \div m
               v == a % m
    <2>1. u \in Nat /\ v \in Nat /\ a = u * m + v /\ v = a % m
      BY Division, Zenon
    <2> HIDE DEF u, v
    <2> QED
      BY <2>1, SMT
  <1>4. r = (k - q * l) * b
    <2>1. r = k * b - q * (l * b)
      <3> HIDE <1>3
      <3>1. a = q * m + r
        BY <1>3, Zenon
      <3> QED
        BY <1>1, <1>2, <3>1
    <2> QED
      BY <2>1
  <1>5. k - q * l \in Nat
    <2>1. k - q * l \in Int /\ (k - q * l) * b >= 0
      BY <1>4
    <2> QED
      BY <2>1
  <1> QED
    BY <1>3, <1>4, <1>5, Multiple, Zenon

LEMMA Powers ==
  /\ 2^SIZE_BITS \in Nat \ {0} /\ 2^ENT_GRAIN_BITS \in Int /\ 2^LEN_BITS \in Int
  /\ 2^SIZE_BITS % CBLK_SIZE = 0
  <1>1. 2^SIZE_BITS \in Nat \ {0} /\ 2^ENT_GRAIN_BITS \in Int /\ 2^LEN_BITS \in Int
    BY StartupAssumption, RangeAssumption
  <1> QED
    BY <1>1, StartupAssumption, MultipleOf

LEMMA Sizes ==
  ASSUME NEW n \in Nat
  PROVE  Size(n) \in Nat /\ Size(n) < 2^SIZE_BITS
  BY Powers, Division, Zenon DEF Size

-----------------------------------------------------------------------------
(* Start-up.                                                               *)

(* The memory asked for is a whole number of extents.                      *)
LEMMA AskedFor ==
  ASSUME NEW n \in Nat
  PROVE  LET v == (Size(n * MIB) \div SIZE_ALIGN) * SIZE_ALIGN
         IN  v \in Nat /\ v < 2^SIZE_BITS /\ v % EXTENT_SIZE = 0
  <1> DEFINE s == Size(n * MIB)
  <1>0. n * MIB \in Nat /\ MIB \in Nat \ {0} /\ SIZE_ALIGN \in Nat \ {0} /\ EXTENT_SIZE \in Nat \ {0}
    BY StartupAssumption
  <1>1. (n * MIB) % MIB = 0
    BY <1>0, Multiple, Zenon
  <1>2. s \in Nat /\ s % MIB = 0
    <2>1. 2^SIZE_BITS \in Nat \ {0} /\ 2^SIZE_BITS % MIB = 0
      BY Powers, StartupAssumption, Zenon
    <2> QED
      BY <1>0, <1>1, <2>1, WrappedMultiple, ZenonT(40) DEF Size
  <1>3. s < 2^SIZE_BITS
    BY <1>0, Sizes, Zenon
  <1> HIDE DEF s
  <1>4. s % SIZE_ALIGN = 0 /\ s % EXTENT_SIZE = 0
    <2>1. MIB % SIZE_ALIGN = 0 /\ MIB % EXTENT_SIZE = 0
      BY StartupAssumption, Zenon
    <2> QED
      BY <1>0, <1>2, <2>1, MultipleOf, Zenon
  <1>5. (s \div SIZE_ALIGN) * SIZE_ALIGN = s
    BY <1>0, <1>2, <1>4, Division
  <1> QED
    BY <1>2, <1>3, <1>4, <1>5, Zenon DEF s

LEMMA Constants ==
  /\ NThreads \in Nat \ {0} /\ CBLK_SIZE \in Nat \ {0} /\ EXTENT_SIZE \in Nat \ {0}
  /\ ALLOC_GRAIN \in Nat \ {0} /\ 0 \in Threads
  BY StartupAssumption DEF Threads

LEMMA S_load_libcuda ==
  ASSUME StartInv, load_libcuda PROVE StartInv'
  <1>1. Typed'
    BY StartupAssumption, Zenon
    DEF StartInv, Typed, Stocked, Crew, MainLabels, WorkerLabels, Stock, Freed, Heap, load_libcuda,
        Obtain, sizes, codec, Workers
  <1>2. Stocked'
    BY Zenon DEF StartInv, Typed, Stocked, Crew, Stock, Comp, load_libcuda, Obtain, sizes, codec, Workers
  <1>3. Crew'
    BY Constants, Zenon DEF StartInv, Typed, Crew, load_libcuda, Obtain, sizes, codec, Workers
  <1>4. Sized'
    BY Zenon DEF StartInv, Sized, TooLarge, load_libcuda, Obtain, sizes, codec, Workers
  <1> QED
    BY <1>1, <1>2, <1>3, <1>4, Zenon DEF StartInv

LEMMA S_load_libcompress ==
  ASSUME StartInv, load_libcompress PROVE StartInv'
  <1>1. Typed'
    BY ZenonT(30)
    DEF StartInv, Typed, Stocked, Crew, MainLabels, WorkerLabels, Stock, Freed, Heap,
        load_libcompress, Obtain, Chosen, sizes, Workers
  <1>2. Stocked'
    BY Zenon
    DEF StartInv, Typed, Stocked, Crew, Stock, Comp, load_libcompress, Obtain, Chosen, sizes,
        Workers
  <1>3. Crew'
    BY Constants, Zenon DEF StartInv, Typed, Crew, load_libcompress, Obtain, Chosen, sizes, Workers
  <1>4. Sized'
    BY Zenon DEF StartInv, Sized, TooLarge, load_libcompress, Obtain, Chosen, sizes, Workers
  <1> QED
    BY <1>1, <1>2, <1>3, <1>4, Zenon DEF StartInv

LEMMA S_cuInit ==
  ASSUME StartInv, cuInit PROVE StartInv'
  <1>1. Typed'
    BY StartupAssumption, Zenon
    DEF StartInv, Typed, Stocked, Crew, MainLabels, WorkerLabels, Stock, Freed, Heap, cuInit,
        sizes, codec, Workers
  <1>2. Stocked'
    BY Zenon DEF StartInv, Typed, Stocked, Crew, Stock, Comp, cuInit, sizes, codec, Workers
  <1>3. Crew'
    BY Constants, Zenon DEF StartInv, Typed, Crew, cuInit, sizes, codec, Workers
  <1>4. Sized'
    BY Zenon DEF StartInv, Sized, TooLarge, cuInit, sizes, codec, Workers
  <1> QED
    BY <1>1, <1>2, <1>3, <1>4, Zenon DEF StartInv

LEMMA S_cuCtxCreate ==
  ASSUME StartInv, cuCtxCreate PROVE StartInv'
  <1>1. Typed'
    BY StartupAssumption, Zenon
    DEF StartInv, Typed, Stocked, Crew, MainLabels, WorkerLabels, Stock, Freed, Heap, cuCtxCreate,
        Obtain, sizes, codec, Workers
  <1>2. Stocked'
    BY Zenon DEF StartInv, Typed, Stocked, Crew, Stock, Comp, cuCtxCreate, Obtain, sizes, codec, Workers
  <1>3. Crew'
    BY Constants, Zenon DEF StartInv, Typed, Crew, cuCtxCreate, Obtain, sizes, codec, Workers
  <1>4. Sized'
    BY Zenon DEF StartInv, Sized, TooLarge, cuCtxCreate, Obtain, sizes, codec, Workers
  <1> QED
    BY <1>1, <1>2, <1>3, <1>4, Zenon DEF StartInv

LEMMA S_AllocFailed ==
  ASSUME StartInv, AllocFailed PROVE StartInv'
  <1>1. Typed'
    BY StartupAssumption, Zenon
    DEF StartInv, Typed, Stocked, Crew, MainLabels, WorkerLabels, Stock, Freed, Heap, AllocFailed,
        sizes, codec, Workers
  <1>2. Stocked'
    BY Zenon DEF StartInv, Typed, Stocked, Crew, Stock, Comp, AllocFailed, sizes, codec, Workers
  <1>3. Crew'
    BY Constants, Zenon DEF StartInv, Typed, Crew, AllocFailed, sizes, codec, Workers
  <1>4. Sized'
    BY Zenon DEF StartInv, Sized, TooLarge, AllocFailed, sizes, codec, Workers
  <1> QED
    BY <1>1, <1>2, <1>3, <1>4, Zenon DEF StartInv

LEMMA S_Listen ==
  ASSUME StartInv, Listen PROVE StartInv'
  <1>1. Typed'
    <2>1. held' \subseteq Stock
      BY Zenon DEF StartInv, Typed, Stock, Listen, Obtain
    <2> QED
      BY <2>1, Zenon DEF StartInv, Typed, MainLabels, Freed, Heap, Listen, sizes, codec, Workers
  <1>2. Stocked'
    BY DEF StartInv, Typed, Stocked, Crew, Stock, Comp, Listen, Obtain, sizes, codec, Workers
  <1>3. Crew'
    BY Constants, Zenon DEF StartInv, Typed, Crew, Listen, Obtain, sizes, codec, Workers
  <1>4. Sized'
    BY Zenon DEF StartInv, Sized, TooLarge, Listen, Obtain, sizes, codec, Workers
  <1> QED
    BY <1>1, <1>2, <1>3, <1>4, Zenon DEF StartInv

LEMMA S_Spawn ==
  ASSUME StartInv, Spawn PROVE StartInv'
  <1>1. Typed'
    BY StartupAssumption, Zenon
    DEF StartInv, Typed, Stocked, Crew, MainLabels, WorkerLabels, Stock, Freed, Heap, Spawn, sizes,
        codec
  <1>2. Stocked'
    BY Zenon DEF StartInv, Typed, Stocked, Crew, Stock, Comp, Spawn, sizes, codec
  <1>3. Crew'
    BY Constants, Zenon DEF StartInv, Typed, Crew, Spawn, sizes, codec
  <1>4. Sized'
    BY Zenon DEF StartInv, Sized, TooLarge, Spawn, sizes, codec
  <1> QED
    BY <1>1, <1>2, <1>3, <1>4, Zenon DEF StartInv

LEMMA S_Join ==
  ASSUME StartInv, Join PROVE StartInv'
  <1>1. Typed'
    BY StartupAssumption, Zenon
    DEF StartInv, Typed, Stocked, Crew, MainLabels, WorkerLabels, Stock, Freed, Heap, Join, Joined,
        sizes, codec, Workers
  <1>2. Stocked'
    BY Zenon DEF StartInv, Typed, Stocked, Crew, Stock, Comp, Join, Joined, sizes, codec, Workers
  <1>3. Crew'
    BY Constants, Zenon DEF StartInv, Typed, Crew, Join, Joined, sizes, codec, Workers
  <1>4. Sized'
    BY Zenon DEF StartInv, Sized, TooLarge, Join, Joined, sizes, codec, Workers
  <1> QED
    BY <1>1, <1>2, <1>3, <1>4, Zenon DEF StartInv

LEMMA S_Cleanup ==
  ASSUME StartInv, Cleanup PROVE StartInv'
  <1>1. Typed'
    BY StartupAssumption
    DEF StartInv, Typed, Stocked, Crew, MainLabels, WorkerLabels, Stock, Freed, Heap, Cleanup,
        GivenBack, sizes, codec, Workers
  <1>2. Stocked'
    <2> DEFINE left == {i \in DOMAIN GivenBack : GivenBack[i] \in held}
    <2>0. /\ DOMAIN GivenBack = 1..9
          /\ GivenBack[1] = "listen_fd" /\ GivenBack[2] = "path" /\ GivenBack[3] = "index"
          /\ GivenBack[4] = "ext" /\ GivenBack[5] = "extbm" /\ GivenBack[6] = "vram"
          /\ GivenBack[7] = "context" /\ GivenBack[8] = "libcuda" /\ GivenBack[9] = "libcomp"
      BY DEF GivenBack
    <2>1. CASE left = {}
      <3>1. \A i \in 1..9 : GivenBack[i] \notin held
        BY <2>0, <2>1, Zenon
      <3>2. held = {}
        BY <2>0, <3>1 DEF StartInv, Typed, Stock
      <3>3. held' = held /\ main' = "exit"
        BY <2>1, Zenon DEF Cleanup
      <3> QED
        BY <3>2, <3>3, Zenon DEF Stocked
    <2>2. CASE left # {}
      <3>1. main' = "cleanup" /\ \E i \in left : (\A j \in left : i <= j) /\ held' = held \ {GivenBack[i]}
        BY <2>2, Zenon DEF Cleanup
      <3>2. PICK i \in left : (\A j \in left : i <= j) /\ held' = held \ {GivenBack[i]}
        BY <3>1, Zenon
      <3>3. i \in 1..9
        BY <2>0, Zenon
      <3>4. GivenBack[i] = "context" => "vram" \notin held
        <4>1. GivenBack[i] = "context" => i = 7
          BY <2>0, <3>3
        <4> QED
          BY <2>0, <3>2, <4>1
      <3>5. GivenBack[i] = "libcuda" => "context" \notin held
        <4>1. GivenBack[i] = "libcuda" => i = 8
          BY <2>0, <3>3
        <4> QED
          BY <2>0, <3>2, <4>1
      <3>6. /\ "vram" \in held' => "context" \in held'
            /\ "context" \in held' => "libcuda" \in held'
        BY <3>2, <3>4, <3>5, Zenon DEF StartInv, Stocked
      <3> QED
        BY <3>1, <3>6, Zenon DEF Stocked
    <2> QED
      BY <2>1, <2>2, Zenon
  <1>3. Crew'
    BY Constants, Zenon DEF StartInv, Typed, Crew, Cleanup, GivenBack, sizes, codec, Workers
  <1>4. Sized'
    BY Zenon DEF StartInv, Sized, TooLarge, Cleanup, GivenBack, sizes, codec, Workers
  <1> QED
    BY <1>1, <1>2, <1>3, <1>4, Zenon DEF StartInv


LEMMA S_cuMemAlloc ==
  ASSUME StartInv, cuMemAlloc PROVE StartInv'
  <1>0. g_vram_size' \in Nat /\ g_vram_size' < 2^SIZE_BITS /\ g_vram_size' % EXTENT_SIZE = 0
    BY AskedFor, Zenon DEF StartInv, Typed, cuMemAlloc
  <1>1. Typed'
    <2>1. mb' \in Nat
      <3>1. mb - STEP_MB \in Nat
        BY StartupAssumption DEF StartInv, Typed, cuMemAlloc, Asks
      <3> QED
        BY <3>1, Sizes DEF cuMemAlloc
    <2> QED
      BY <1>0, <2>1, Zenon
      DEF StartInv, Typed, Stock, MainLabels, Freed, Heap, cuMemAlloc, Obtain, codec, Workers
  <1>2. Stocked'
    BY Zenon DEF StartInv, Typed, Stocked, Stock, Comp, cuMemAlloc, Obtain, codec, Workers
  <1>3. Crew'
    BY Zenon DEF StartInv, Typed, Crew, cuMemAlloc, codec, Workers
  <1>4. Sized'
    BY <1>0, Zenon DEF StartInv, Sized, TooLarge, cuMemAlloc
  <1> QED
    BY <1>1, <1>2, <1>3, <1>4, Zenon DEF StartInv

LEMMA Device ==
  ASSUME StartInv, NEW want \in DiskMB, NEW d, d = (Capped(want) \div CBLK_SIZE) * CBLK_SIZE
  PROVE  /\ d \in Nat /\ d % CBLK_SIZE = 0 /\ d < 2^SIZE_BITS
         /\ g_codec = "none" => d <= g_vram_size
  <1> DEFINE c == Capped(want)
  <1>1. c \in Nat /\ c < 2^SIZE_BITS /\ (g_codec = "none" => c <= g_vram_size)
    <2> DEFINE s == IF want = Unset THEN Size(g_vram_size * 2) ELSE Size(want * MIB)
    <2>1. want # Unset => want * MIB \in Nat
      BY StartupAssumption
    <2>2. g_vram_size * 2 \in Nat /\ g_vram_size \in Nat /\ g_vram_size < 2^SIZE_BITS
      BY DEF StartInv, Typed, Sized
    <2>3. s \in Nat /\ s < 2^SIZE_BITS
      BY <2>1, <2>2, Sizes, Zenon
    <2>4. c = IF g_codec = "none" /\ s > g_vram_size THEN g_vram_size ELSE s
      BY Zenon DEF Capped
    <2> HIDE DEF s, c
    <2> QED
      BY <2>2, <2>3, <2>4, Powers
  <1> HIDE DEF c
  <1>2. c \div CBLK_SIZE \in Nat /\ d = (c \div CBLK_SIZE) * CBLK_SIZE
    BY <1>1, Constants, Division, Zenon DEF c
  <1>3. d \in Nat /\ d % CBLK_SIZE = 0
    BY <1>2, Constants, Multiple
  <1>4. d <= c
    BY <1>1, <1>2, Constants, Division
  <1> QED
    BY <1>1, <1>3, <1>4, Powers DEF StartInv, Typed

LEMMA S_ChooseSize ==
  ASSUME StartInv, ChooseSize PROVE StartInv'
  <1>0. \/ TooLarge /\ main' = "cleanup" /\ g_disk_size' = g_disk_size
        \/ /\ ~TooLarge /\ g_disk_size' \in Nat /\ g_disk_size' % CBLK_SIZE = 0
           /\ g_disk_size' < 2^SIZE_BITS /\ (g_codec = "none" => g_disk_size' <= g_vram_size)
           /\ main' = IF g_disk_size' < CBLK_SIZE THEN "cleanup" ELSE "store"
    BY Device, Zenon DEF ChooseSize
  <1>1. Typed'
    BY <1>0, Zenon DEF StartInv, Typed, MainLabels, Freed, Heap, ChooseSize, codec, Workers
  <1>2. Stocked'
    BY <1>0, Zenon DEF StartInv, Stocked, Comp, ChooseSize, codec
  <1>3. Crew'
    BY <1>0, Zenon DEF StartInv, Crew, ChooseSize, Workers
  <1>4. Sized'
    BY <1>0, Constants DEF StartInv, Sized, TooLarge, ChooseSize, codec
  <1> QED
    BY <1>1, <1>2, <1>3, <1>4, Zenon DEF StartInv

LEMMA S_store_init ==
  ASSUME StartInv, store_init PROVE StartInv'
  <1>0. g_nblocks' \in Nat /\ g_n_extents' \in Nat
    <2>1. g_disk_size \div CBLK_SIZE \in Nat /\ g_vram_size \div EXTENT_SIZE \in Nat
      BY Constants, Division, Zenon DEF StartInv, Typed
    <2> QED
      BY <2>1, Zenon DEF StartInv, Typed, store_init
  <1>1. Typed'
    BY <1>0, Zenon DEF StartInv, Typed, Stock, MainLabels, Freed, Heap, store_init, Obtain, codec, Workers
  <1>2. Stocked'
    BY Zenon DEF StartInv, Stocked, Comp, store_init, Obtain, codec
  <1>3. Crew'
    BY Zenon DEF StartInv, Crew, store_init, Workers
  <1>4. Sized'
    BY Zenon DEF StartInv, Sized, TooLarge, store_init, codec
  <1> QED
    BY <1>1, <1>2, <1>3, <1>4, Zenon DEF StartInv

LEMMA MainStartInv ==
  ASSUME StartInv, Main PROVE StartInv'
  BY S_load_libcuda, S_load_libcompress, S_cuInit, S_cuCtxCreate, S_cuMemAlloc, S_AllocFailed,
     S_ChooseSize, S_store_init, S_Listen, S_Spawn, S_Join, S_Cleanup, Zenon DEF Main

(* A worker's step leaves main's state alone.                              *)
LEMMA WorkerAlone ==
  ASSUME StartInv, NEW t \in Threads, Aside, worker[t] \notin {"none", "done"},
         worker' \in [Threads -> WorkerLabels], kit' \in [Threads -> SUBSET Freed],
         \A u \in Threads : u # t => worker'[u] = worker[u] /\ kit'[u] = kit[u],
         worker'[t] # "none", worker'[t] = "done" => kit'[t] = {}
  PROVE  StartInv'
  <1>0. main = "join"
    BY Zenon DEF StartInv, Typed, Crew, MainLabels
  <1>1. Typed'
    BY Zenon DEF StartInv, Typed, Aside, Freed, Heap, sizes, codec
  <1>2. Stocked'
    <2>1. Stocked /\ main' = main /\ held' = held /\ g_codec' = g_codec
      BY Zenon DEF StartInv, Aside, codec
    <2> QED
      BY <1>0, <2>1 DEF Stocked, Comp
  <1>3. Crew'
    BY <1>0, Zenon DEF StartInv, Crew, Aside
  <1>4. Sized'
    BY Zenon DEF StartInv, Sized, TooLarge, Aside, sizes, codec
  <1> QED
    BY <1>1, <1>2, <1>3, <1>4, Zenon DEF StartInv

LEMMA S_worker_init ==
  ASSUME StartInv, NEW t \in Threads, worker_init(t) PROVE StartInv'
  <1>0. PICK s \in Steps :
          /\ worker[t] = s.at /\ Aside
          /\ \E got \in SUBSET s.asks :
               Equip(t, got) /\ Goes(t, IF got = s.asks THEN s.next ELSE "failing")
    BY Zenon DEF worker_init
  <1>1. PICK got \in SUBSET s.asks :
          Equip(t, got) /\ Goes(t, IF got = s.asks THEN s.next ELSE "failing")
    BY <1>0, Zenon
  <1>2. /\ s.at \notin {"none", "done"} /\ s.asks \subseteq Freed
        /\ s.next \in WorkerLabels \ {"none", "done"}
    BY DEF StartInv, Typed, Steps, Heap, Freed, WorkerLabels
  <1>3. /\ kit' \in [Threads -> SUBSET Freed]
        /\ \A u \in Threads : u # t => kit'[u] = kit[u]
    BY <1>1, <1>2, Zenon DEF StartInv, Typed, Equip
  <1>4. /\ worker' \in [Threads -> WorkerLabels] /\ worker'[t] \notin {"none", "done"}
        /\ \A u \in Threads : u # t => worker'[u] = worker[u]
    BY <1>1, <1>2, Zenon DEF StartInv, Typed, Goes, WorkerLabels
  <1> QED
    BY <1>0, <1>2, <1>3, <1>4, WorkerAlone, Zenon

LEMMA S_Stays ==
  ASSUME StartInv, NEW t \in Threads, ContextRefused(t) \/ comp_selftest(t) PROVE StartInv'
  <1>1. /\ worker[t] \notin {"none", "done"} /\ Aside /\ kit' = kit
        /\ Goes(t, "failing") \/ Goes(t, "serve")
    BY Zenon DEF ContextRefused, comp_selftest
  <1>2. /\ worker' \in [Threads -> WorkerLabels] /\ worker'[t] \notin {"none", "done"}
        /\ \A u \in Threads : u # t => worker'[u] = worker[u]
    BY <1>1, Zenon DEF StartInv, Typed, Goes, WorkerLabels
  <1> QED
    BY <1>1, <1>2, WorkerAlone, Zenon DEF StartInv, Typed

LEMMA S_worker_fini ==
  ASSUME StartInv, NEW t \in Threads, worker_fini(t) PROVE StartInv'
  <1>1. worker[t] \notin {"none", "done"} /\ Aside
    BY Zenon DEF worker_fini
  <1>2. /\ worker' \in [Threads -> WorkerLabels] /\ worker'[t] = "done"
        /\ \A u \in Threads : u # t => worker'[u] = worker[u]
    BY Zenon DEF StartInv, Typed, worker_fini, Goes, WorkerLabels
  <1>3. /\ kit' \in [Threads -> SUBSET Freed] /\ kit'[t] = {}
        /\ \A u \in Threads : u # t => kit'[u] = kit[u]
    BY Zenon DEF StartInv, Typed, worker_fini
  <1> QED
    BY <1>1, <1>2, <1>3, WorkerAlone, Zenon

LEMMA WorkStartInv ==
  ASSUME StartInv, NEW t \in Threads, Work(t) PROVE StartInv'
  BY S_worker_init, S_Stays, S_worker_fini, Zenon DEF Work

LEMMA InitStartInv ==
  ASSUME StartInit PROVE StartInv
  <1>1. Typed /\ Stocked /\ Crew
    BY Zenon DEF StartInit, Typed, Stocked, Crew, MainLabels, WorkerLabels, Stock, Freed, Heap
  <1>2. Sized
    <2>1. 0 % EXTENT_SIZE = 0
      BY Constants
    <2> QED
      BY <2>1, Powers DEF StartInit, Sized
  <1> QED
    BY <1>1, <1>2, Zenon DEF StartInv

LEMMA Exact ==
  ASSUME NEW a \in Nat, NEW b \in Nat \ {0}, a % b = 0
  PROVE  a \div b \in Nat /\ a = (a \div b) * b
  <1> DEFINE q == a \div b
             r == a % b
  <1>1. q \in Nat /\ a = q * b + r /\ r = 0
    BY Division, Zenon
  <1> HIDE DEF q, r
  <1>2. q \in Nat /\ a = q * b
    BY <1>1
  <1> QED
    BY <1>2, Zenon DEF q

LEMMA Cancel ==
  ASSUME NEW k \in Nat, NEW l \in Nat, NEW b \in Nat \ {0}, k * b <= l * b
  PROVE  k <= l
  OBVIOUS

(* Of the sizes that start-up leaves, each is what the others need.        *)
LEMMA StartSizes ==
  ASSUME StartInv
  PROVE  SizesAgree
  <1> SUFFICES ASSUME main = "join"
               PROVE  /\ g_n_extents * (EXTENT_SIZE \div ALLOC_GRAIN) <= 2^ENT_GRAIN_BITS
                      /\ g_n_extents * EXTENT_SIZE = g_vram_size /\ g_n_extents # 0
                      /\ g_nblocks * CBLK_SIZE = g_disk_size /\ g_nblocks # 0
                      /\ g_codec = "none" => g_nblocks <= g_n_extents * (EXTENT_SIZE \div CBLK_SIZE)
    BY Zenon DEF SizesAgree
  <1> DEFINE n == g_n_extents
             a == EXTENT_SIZE \div ALLOC_GRAIN
             e == EXTENT_SIZE \div CBLK_SIZE
  <1>1. n \in Nat /\ n # 0 /\ g_vram_size = n * EXTENT_SIZE
    BY Constants, Exact, Zenon DEF StartInv, Typed, Sized
  <1>2. g_nblocks \in Nat /\ g_disk_size = g_nblocks * CBLK_SIZE /\ g_disk_size >= CBLK_SIZE
    BY Constants, Exact, Zenon DEF StartInv, Typed, Sized
  <1>3. a \in Nat /\ EXTENT_SIZE = a * ALLOC_GRAIN
    <2>0. EXTENT_SIZE % CBLK_SIZE = 0 /\ CBLK_SIZE % ALLOC_GRAIN = 0
      BY StartupAssumption, Zenon
    <2>1. EXTENT_SIZE % ALLOC_GRAIN = 0
      BY <2>0, Constants, MultipleOf, Zenon
    <2> QED
      BY <2>1, Constants, Exact, Zenon
  <1>4. e \in Nat /\ EXTENT_SIZE = e * CBLK_SIZE
    BY StartupAssumption, Constants, Exact, Zenon
  <1>5. g_vram_size \div ALLOC_GRAIN \in Nat /\ ~(g_vram_size \div ALLOC_GRAIN >= 2^ENT_GRAIN_BITS)
    BY Constants, Division, Zenon DEF StartInv, Typed, Sized, TooLarge
  <1>6. g_codec = "none" => g_disk_size <= g_vram_size
    BY Zenon DEF StartInv, Sized
  <1> HIDE DEF n, a, e
  <1>7. n * a <= 2^ENT_GRAIN_BITS
    <2>1. g_vram_size = (n * a) * ALLOC_GRAIN /\ n * a \in Nat
      BY <1>1, <1>3, Constants
    <2>2. g_vram_size \div ALLOC_GRAIN = n * a
      BY <2>1, Constants, Multiple, Zenon
    <2> QED
      BY <1>5, <2>2, Powers
  <1>8. g_codec = "none" => g_nblocks <= n * e
    <2>1. g_vram_size = (n * e) * CBLK_SIZE /\ n * e \in Nat
      BY <1>1, <1>4, Constants
    <2> QED
      BY <1>2, <1>6, <2>1, Constants, Cancel, Zenon
  <1>9. g_nblocks # 0
    BY <1>2, Constants
  <1> QED
    BY <1>1, <1>2, <1>7, <1>8, <1>9, Zenon DEF n, a, e

LEMMA StartHeld ==
  ASSUME StartInv
  PROVE  NeverUnderUse /\ NothingLeft
  <1>1. NothingLeft
    BY Zenon DEF StartInv, Stocked, Crew, NothingLeft
  <1>2. \A t \in Threads : kit[t] # {} \/ worker[t] = "serve" => main = "join"
    BY Zenon DEF StartInv, Typed, Crew, MainLabels
  <1>3. main = "join" => held = (Stock \ {"libcomp"}) \cup Comp
    BY Zenon DEF StartInv, Stocked
  <1>4. ASSUME NEW t \in Threads
        PROVE  /\ kit[t] \cap {"stream", "cstage", "cscratch"} # {} => "context" \in held
               /\ kit[t] \cap {"cctx", "dctx"} # {} => "libcomp" \in held
               /\ worker[t] = "serve" =>
                    {"vram", "index", "ext", "extbm", "listen_fd"} \subseteq held
    <2>1. kit[t] \cap {"cctx", "dctx"} # {} => g_codec = "zstd"
      BY Zenon DEF StartInv, Typed, Freed, Heap
    <2> QED
      BY <1>2, <1>3, <2>1, Zenon DEF Stock, Comp
  <1>5. /\ "vram" \in held => "context" \in held
        /\ "context" \in held => "libcuda" \in held
    BY Zenon DEF StartInv, Stocked
  <1>6. NeverUnderUse
    BY <1>4, <1>5, Zenon DEF NeverUnderUse
  <1> QED
    BY <1>1, <1>6, Zenon

-----------------------------------------------------------------------------
(* The parts of a range.                                                   *)

LEMMA PartBytes ==
  ASSUME NEW p \in Parts
  PROVE  /\ p.blk \in Nat /\ p.at \in Nat /\ p.cnt \in Nat /\ p.at < CBLK_SIZE
         /\ p.blk * CBLK_SIZE \in Nat
         /\ p.blk * CBLK_SIZE + p.at \in BytesOf(p)
  <1>1. /\ p.blk \in Nat /\ p.at \in Nat /\ p.cnt \in Nat /\ 0 < p.cnt
        /\ p.at + p.cnt <= CBLK_SIZE
    BY Zenon DEF Parts
  <1>2. p.blk * CBLK_SIZE \in Nat
    BY <1>1, Constants
  <1> DEFINE o == p.blk * CBLK_SIZE
  <1>3. BytesOf(p) = (o + p.at)..(o + p.at + p.cnt - 1)
    BY Zenon DEF BytesOf
  <1>4. o \in Nat
    BY <1>2, Zenon
  <1> HIDE DEF o
  <1>5. o + p.at \in BytesOf(p) /\ p.at < CBLK_SIZE
    BY <1>1, <1>3, <1>4, Constants
  <1> QED
    BY <1>1, <1>4, <1>5, Zenon DEF o

(* A part before a block boundary and one after it are in different blocks.*)
LEMMA BlocksApart ==
  ASSUME NEW p \in Parts, NEW q \in Parts, NEW m \in Nat, m % CBLK_SIZE = 0,
         p.blk * CBLK_SIZE + p.at < m, m <= q.blk * CBLK_SIZE + q.at
  PROVE  p.blk < q.blk
  <1>1. PICK k \in Nat : m = k * CBLK_SIZE
    BY Constants, Factor, Zenon
  <1>2. /\ p.blk \in Nat /\ q.blk \in Nat /\ p.at \in Nat /\ q.at \in Nat
        /\ q.at < CBLK_SIZE
    BY PartBytes, Zenon
  <1>3. p.blk * CBLK_SIZE < k * CBLK_SIZE
    BY <1>1, <1>2, Constants
  <1>4. k * CBLK_SIZE < (q.blk + 1) * CBLK_SIZE
    <2> DEFINE o == q.blk * CBLK_SIZE
    <2>1. o \in Nat /\ (q.blk + 1) * CBLK_SIZE = o + CBLK_SIZE /\ m <= o + q.at
      BY <1>2, Constants
    <2> HIDE DEF o
    <2> QED
      BY <1>1, <1>2, <2>1, Constants
  <1>5. p.blk < k
    BY <1>2, <1>3, Constants
  <1>6. k < q.blk + 1
    BY <1>2, <1>4, Constants
  <1> QED
    BY <1>2, <1>5, <1>6

LEMMA CoversJoin ==
  ASSUME NEW a \in Nat, NEW m \in Nat, NEW b \in Nat, a <= m, m <= b, NEW s, NEW t,
         Covers(s, a, m), Covers(t, m, b), m % CBLK_SIZE = 0 \/ s = <<>> \/ t = <<>>
  PROVE  Covers(s \o t, a, b)
  <1> DEFINE r == s \o t
  <1>1. s \in Seq(Parts) /\ t \in Seq(Parts)
    BY Zenon DEF Covers
  <1>2. /\ r \in Seq(Parts) /\ Len(r) = Len(s) + Len(t) /\ Len(s) \in Nat /\ Len(t) \in Nat
        /\ DOMAIN r = 1..(Len(s) + Len(t)) /\ DOMAIN s = 1..Len(s) /\ DOMAIN t = 1..Len(t)
        /\ \A i \in 1..Len(s) : r[i] = s[i]
        /\ \A i \in 1..Len(t) : r[Len(s) + i] = t[i]
    BY <1>1
  <1> HIDE DEF r
  <1>3. \A i \in DOMAIN r : \/ i \in DOMAIN s /\ r[i] = s[i]
                            \/ i - Len(s) \in DOMAIN t /\ r[i] = t[i - Len(s)]
    BY <1>2
  <1>4. \A i \in DOMAIN r : BytesOf(r[i]) \subseteq a..(b - 1)
    <2>1. a..(m - 1) \subseteq a..(b - 1) /\ m..(b - 1) \subseteq a..(b - 1)
      OBVIOUS
    <2> QED
      BY <1>3, <2>1, Zenon DEF Covers
  <1>5. ASSUME NEW x \in a..(b - 1)
        PROVE  \E i \in DOMAIN r : x \in BytesOf(r[i])
    <2>1. CASE x \in a..(m - 1)
      <3>1. PICK i \in DOMAIN s : x \in BytesOf(s[i])
        BY <2>1, Zenon DEF Covers
      <3>2. i \in DOMAIN r /\ r[i] = s[i]
        BY <1>2
      <3> QED
        BY <3>1, <3>2, Zenon
    <2>2. CASE x \in m..(b - 1)
      <3>1. PICK i \in DOMAIN t : x \in BytesOf(t[i])
        BY <2>2, Zenon DEF Covers
      <3>2. Len(s) + i \in DOMAIN r /\ r[Len(s) + i] = t[i]
        BY <1>2
      <3> QED
        BY <3>1, <3>2, Zenon
    <2> QED
      BY <2>1, <2>2
  <1>6. ASSUME NEW i \in DOMAIN r, NEW j \in DOMAIN r, i < j
        PROVE  r[i].blk < r[j].blk
    <2>1. CASE i \in DOMAIN s /\ j \in DOMAIN s
      BY <1>2, <1>6, <2>1, Zenon DEF Covers
    <2>2. CASE i - Len(s) \in DOMAIN t /\ j - Len(s) \in DOMAIN t
      <3>1. i - Len(s) < j - Len(s) /\ r[i] = t[i - Len(s)] /\ r[j] = t[j - Len(s)]
        BY <1>2, <1>6, <2>2
      <3> QED
        BY <2>2, <3>1, Zenon DEF Covers
    <2>3. CASE i \in DOMAIN s /\ j - Len(s) \in DOMAIN t
      <3>1. r[i] = s[i] /\ r[j] = t[j - Len(s)] /\ r[i] \in Parts /\ r[j] \in Parts
        BY <1>1, <1>2, <2>3
      <3>2. BytesOf(r[i]) \subseteq a..(m - 1) /\ BytesOf(r[j]) \subseteq m..(b - 1)
        BY <2>3, <3>1, Zenon DEF Covers
      <3>3. m % CBLK_SIZE = 0
        BY <1>2, <2>3
      <3>4. /\ r[i].blk * CBLK_SIZE + r[i].at \in a..(m - 1)
            /\ r[j].blk * CBLK_SIZE + r[j].at \in m..(b - 1)
        BY <3>1, <3>2, PartBytes, Zenon
      <3>5. /\ r[i].blk * CBLK_SIZE + r[i].at < m
            /\ m <= r[j].blk * CBLK_SIZE + r[j].at
        BY <3>4
      <3> QED
        BY <3>1, <3>3, <3>5, BlocksApart, Zenon
    <2> QED
      BY <1>2, <1>3, <1>6, <2>1, <2>2, <2>3
  <1> QED
    BY <1>2, <1>4, <1>5, <1>6, Zenon DEF Covers, r

LEMMA CoversNone ==
  ASSUME NEW a \in Nat
  PROVE  Covers(<<>>, a, a)
  BY DEF Covers

LEMMA CoversFrom ==
  ASSUME NEW a \in Nat, NEW b \in Nat, NEW s, Covers(s, a, b)
  PROVE  b <= a => s = <<>>
  <1> SUFFICES ASSUME b <= a, s # <<>> PROVE FALSE
    BY Zenon
  <1>1. s \in Seq(Parts) /\ 1 \in DOMAIN s /\ s[1] \in Parts
    BY DEF Covers
  <1>2. BytesOf(s[1]) # {} /\ BytesOf(s[1]) \subseteq a..(b - 1)
    BY <1>1, PartBytes, Zenon DEF Covers
  <1> QED
    BY <1>2

LEMMA OnePart ==
  ASSUME NEW o \in Nat, NEW n \in Nat \ {0}, (o % CBLK_SIZE) + n <= CBLK_SIZE
  PROVE  Covers(<<Part(o \div CBLK_SIZE, o % CBLK_SIZE, n)>>, o, o + n)
  <1> DEFINE k == o \div CBLK_SIZE
             r == o % CBLK_SIZE
             p == Part(k, r, n)
             s == <<p>>
  <1>1. k \in Nat /\ r \in Nat /\ o = k * CBLK_SIZE + r /\ r + n <= CBLK_SIZE
    BY Constants, Division, Zenon
  <1> HIDE DEF k, r
  <1>2. p \in Parts /\ p.blk = k /\ p.at = r /\ p.cnt = n
    BY <1>1, Constants DEF Parts, Part
  <1>3. BytesOf(p) = o..(o + n - 1)
    BY <1>1, <1>2, Zenon DEF BytesOf
  <1> HIDE DEF p
  <1>4. s \in Seq(Parts) /\ DOMAIN s = 1..1 /\ s[1] = p
    BY <1>2
  <1> HIDE DEF s
  <1>5. Covers(s, o, o + n)
    BY <1>3, <1>4 DEF Covers
  <1> QED
    BY <1>5, Zenon DEF s, p, k, r

LEMMA WholeBlocks ==
  ASSUME NEW o \in Nat, o % CBLK_SIZE = 0, NEW n \in Nat
  PROVE  Covers([i \in 1..n |-> Part(o \div CBLK_SIZE + i - 1, 0, CBLK_SIZE)], o, o + n * CBLK_SIZE)
  <1> DEFINE k == o \div CBLK_SIZE
             s == [i \in 1..n |-> Part(k + i - 1, 0, CBLK_SIZE)]
  <1>1. k \in Nat /\ o = k * CBLK_SIZE
    BY Constants, Exact, Zenon
  <1> HIDE DEF k
  <1>2. /\ s \in Seq(Parts) /\ DOMAIN s = 1..n
        /\ \A i \in 1..n : s[i].blk = k + i - 1 /\ s[i].at = 0 /\ s[i].cnt = CBLK_SIZE
    <2>1. \A i \in 1..n : Part(k + i - 1, 0, CBLK_SIZE) \in Parts
      BY <1>1, Constants DEF Parts, Part
    <2>2. \A i \in 1..n : /\ s[i] = Part(k + i - 1, 0, CBLK_SIZE)
                          /\ s[i].blk = k + i - 1 /\ s[i].at = 0 /\ s[i].cnt = CBLK_SIZE
      BY Zenon DEF Part
    <2>3. s \in Seq(Parts) /\ DOMAIN s = 1..n
      BY <2>1
    <2> QED
      BY <2>2, <2>3, Zenon
  <1> HIDE DEF s
  <1>3. ASSUME NEW i \in 1..n
        PROVE  BytesOf(s[i]) = ((k + i - 1) * CBLK_SIZE)..((k + i) * CBLK_SIZE - 1)
    <2>1. (k + i - 1) * CBLK_SIZE + CBLK_SIZE = (k + i) * CBLK_SIZE /\ (k + i - 1) * CBLK_SIZE \in Nat
      BY <1>1, Constants
    <2> QED
      BY <1>2, <2>1, Constants DEF BytesOf
  <1>4. ASSUME NEW i \in 1..n
        PROVE  BytesOf(s[i]) \subseteq o..((o + n * CBLK_SIZE) - 1)
    <2>1. o <= (k + i - 1) * CBLK_SIZE
      <3>1. (k + i - 1) * CBLK_SIZE = o + (i - 1) * CBLK_SIZE /\ (i - 1) * CBLK_SIZE \in Nat
        BY <1>1, Constants
      <3> QED
        BY <3>1
    <2>2. (k + i) * CBLK_SIZE <= o + n * CBLK_SIZE
      <3>1. o + n * CBLK_SIZE = (k + i) * CBLK_SIZE + (n - i) * CBLK_SIZE /\ (n - i) * CBLK_SIZE \in Nat
        BY <1>1, Constants
      <3>2. (k + i) * CBLK_SIZE \in Nat
        BY <1>1, Constants
      <3> QED
        BY <3>1, <3>2
    <2>3. (k + i) * CBLK_SIZE \in Nat /\ (k + i - 1) * CBLK_SIZE \in Nat /\ n * CBLK_SIZE \in Nat
      BY <1>1, Constants
    <2> QED
      BY <1>3, <2>1, <2>2, <2>3
  <1>5. ASSUME NEW x \in o..((o + n * CBLK_SIZE) - 1)
        PROVE  \E i \in 1..n : x \in BytesOf(s[i])
    <2> DEFINE q == x \div CBLK_SIZE
               r == x % CBLK_SIZE
    <2>0. x \in Nat /\ n * CBLK_SIZE \in Nat
      BY Constants
    <2>1. q \in Nat /\ r \in Nat /\ r < CBLK_SIZE /\ x = q * CBLK_SIZE + r
      BY <2>0, Constants, Division, Zenon
    <2> HIDE DEF q, r
    <2>2. (q + 1) * CBLK_SIZE = q * CBLK_SIZE + CBLK_SIZE /\ q * CBLK_SIZE \in Nat
      BY <2>1, Constants
    <2>3. k * CBLK_SIZE < (q + 1) * CBLK_SIZE
      BY <1>1, <2>0, <2>1, <2>2, Constants
    <2>4. q * CBLK_SIZE < (k + n) * CBLK_SIZE
      <3>1. (k + n) * CBLK_SIZE = o + n * CBLK_SIZE
        BY <1>1, Constants
      <3> QED
        BY <2>0, <2>1, <2>2, <3>1
    <2>5. k < q + 1 /\ q < k + n
      BY <1>1, <2>1, <2>3, <2>4, Constants
    <2> DEFINE i == q - k + 1
    <2>6. i \in 1..n /\ k + i - 1 = q /\ k + i = q + 1
      BY <1>1, <2>1, <2>5
    <2> HIDE DEF i
    <2>7. x \in BytesOf(s[i])
      BY <1>3, <2>0, <2>1, <2>2, <2>6, Constants
    <2> QED
      BY <2>6, <2>7, Zenon
  <1>6. \A i, j \in 1..n : i < j => s[i].blk < s[j].blk
    BY <1>1, <1>2
  <1>7. Covers(s, o, o + n * CBLK_SIZE)
    <2> DEFINE b == o + n * CBLK_SIZE
    <2>1. s \in Seq(Parts) /\ DOMAIN s = 1..n
      BY <1>2, Zenon
    <2>2. \A i \in DOMAIN s : BytesOf(s[i]) \subseteq o..(b - 1)
      BY <1>4, <2>1, Zenon
    <2>3. \A x \in o..(b - 1) : \E i \in DOMAIN s : x \in BytesOf(s[i])
      BY <1>5, <2>1, Zenon
    <2>4. \A i, j \in DOMAIN s : i < j => s[i].blk < s[j].blk
      BY <1>6, <2>1, Zenon
    <2> HIDE DEF b
    <2>5. Covers(s, o, b)
      BY <2>1, <2>2, <2>3, <2>4, Zenon DEF Covers
    <2> QED
      BY <2>5, Zenon DEF b
  <1> QED
    BY <1>7, Zenon DEF s, k

LEMMA Edges ==
  ASSUME NEW off \in Nat, NEW n \in Nat
  PROVE  /\ Edge(off, n) \in Nat /\ Edge(off, n) <= n
         /\ Edge(off, n) # 0 => (off % CBLK_SIZE) + Edge(off, n) <= CBLK_SIZE
         /\ (off + Edge(off, n)) % CBLK_SIZE = 0 \/ Edge(off, n) = n
  <1> DEFINE k == off \div CBLK_SIZE
             r == off % CBLK_SIZE
             h == Edge(off, n)
  <1>1. k \in Nat /\ r \in Nat /\ r < CBLK_SIZE /\ off = k * CBLK_SIZE + r
    BY Constants, Division, Zenon
  <1>2. h = IF r # 0 THEN (IF CBLK_SIZE - r < n THEN CBLK_SIZE - r ELSE n) ELSE 0
    BY Zenon DEF Edge, Smaller
  <1>3. r = 0 => off % CBLK_SIZE = 0
    BY Zenon
  <1> HIDE DEF k, r, h
  <1>4. h = CBLK_SIZE - r => (off + h) % CBLK_SIZE = 0
    <2>1. h = CBLK_SIZE - r => off + h = (k + 1) * CBLK_SIZE
      BY <1>1, Constants
    <2>2. ((k + 1) * CBLK_SIZE) % CBLK_SIZE = 0
      BY <1>1, Constants, Multiple
    <2> QED
      BY <2>1, <2>2, Zenon
  <1>5. h \in Nat /\ h <= n /\ (h # 0 => r + h <= CBLK_SIZE)
    BY <1>1, <1>2, Constants
  <1>6. (off + h) % CBLK_SIZE = 0 \/ h = n
    <2>1. r = 0 => off + h = off
      BY <1>2
    <2> QED
      BY <1>2, <1>3, <1>4, <2>1, Zenon
  <1> QED
    BY <1>5, <1>6, Zenon DEF h, r

LEMMA NoWrap ==
  ASSUME NEW a \in Nat, NEW b \in Nat, a + b < 2^SIZE_BITS
  PROVE  Plus(a, b) = a + b
  <1>1. \A x \in Nat, m \in Nat \ {0} : x < m => x % m = x
    OBVIOUS
  <1> QED
    BY <1>1, Powers DEF Plus, Size

(* store_range and load_range touch the bytes of their range, in order.    *)
LEMMA RangeCovers ==
  ASSUME NEW off \in Nat, NEW n \in Nat, off + n < 2^SIZE_BITS
  PROVE  Covers(Range(off, n), off, off + n)
  <1> DEFINE h    == Edge(off, n)
             off1 == off + h
             m    == n - h
             nb   == m \div CBLK_SIZE
             off2 == off1 + nb * CBLK_SIZE
             rest == m - nb * CBLK_SIZE
             s1   == IF h # 0 THEN <<Part(off \div CBLK_SIZE, off % CBLK_SIZE, h)>> ELSE <<>>
             s2   == [i \in 1..nb |-> Part(off1 \div CBLK_SIZE + i - 1, 0, CBLK_SIZE)]
             s3   == IF rest # 0 THEN <<Part(off2 \div CBLK_SIZE, 0, rest)>> ELSE <<>>
  <1>1. /\ h \in Nat /\ h <= n /\ (h # 0 => (off % CBLK_SIZE) + h <= CBLK_SIZE)
        /\ off1 % CBLK_SIZE = 0 \/ h = n
    BY Edges, Zenon
  <1>2. Plus(off, h) = off1 /\ off1 \in Nat /\ m \in Nat
    <2> HIDE DEF h
    <2> QED
      BY <1>1, NoWrap, Powers
  <1>3. nb \in Nat /\ nb * CBLK_SIZE \in Nat /\ rest \in Nat /\ rest < CBLK_SIZE /\ rest <= m
    <2> HIDE DEF m
    <2>1. nb \in Nat /\ m % CBLK_SIZE \in Nat /\ m % CBLK_SIZE < CBLK_SIZE
          /\ m = nb * CBLK_SIZE + (m % CBLK_SIZE)
      BY <1>2, Constants, Division, Zenon
    <2>2. nb * CBLK_SIZE \in Nat
      BY <2>1, Constants
    <2> HIDE DEF nb
    <2> QED
      BY <1>2, <2>1, <2>2
  <1>4. off2 \in Nat /\ off2 + rest = off + n /\ off2 <= off + n /\ off1 <= off2
    <2> HIDE DEF h, nb
    <2> QED
      BY <1>1, <1>2, <1>3
  <1>5. Plus(off1, nb * CBLK_SIZE) = off2
    <2> HIDE DEF off1, nb
    <2>1. off1 + nb * CBLK_SIZE < 2^SIZE_BITS
      BY <1>4, Powers
    <2> QED
      BY <1>2, <1>3, <2>1, NoWrap, Zenon
  <1>6. Range(off, n) = s1 \o s2 \o s3
    BY <1>2, <1>5, Zenon DEF Range
  <1>7. Covers(s1, off, off1)
    <2> HIDE DEF h
    <2>1. CASE h # 0
      BY <1>1, <2>1, OnePart, Zenon
    <2>2. CASE h = 0
      BY <2>2, CoversNone
    <2> QED
      BY <2>1, <2>2, Zenon
  <1>8. off1 % CBLK_SIZE # 0 => m = 0
    <2> HIDE DEF h
    <2> QED
      BY <1>1
  <1>9. m = 0 => s2 = <<>> /\ nb = 0 /\ rest = 0 /\ off2 = off1
    <2>1. 0 \div CBLK_SIZE = 0
      BY Constants
    <2> HIDE DEF h, m
    <2>2. m = 0 => nb = 0
      BY <2>1, Zenon
    <2> HIDE DEF off1, nb
    <2>3. nb = 0 => nb * CBLK_SIZE = 0 /\ s2 = <<>>
      BY Constants
    <2> QED
      BY <1>2, <1>3, <2>2, <2>3
  <1>10. Covers(s2, off1, off2)
    <2> HIDE DEF off1, m, nb
    <2>1. CASE off1 % CBLK_SIZE = 0
      BY <1>2, <1>3, <2>1, WholeBlocks, Zenon
    <2>2. CASE off1 % CBLK_SIZE # 0
      BY <1>2, <1>8, <1>9, <2>2, CoversNone, Zenon
    <2> QED
      BY <2>1, <2>2, Zenon
  <1>11. off1 % CBLK_SIZE = 0 => off2 % CBLK_SIZE = 0
    <2> HIDE DEF off1, nb
    <2>1. ASSUME off1 % CBLK_SIZE = 0 PROVE off2 % CBLK_SIZE = 0
      <3>1. PICK k \in Nat : off1 = k * CBLK_SIZE
        BY <1>2, <2>1, Constants, Factor, Zenon
      <3>2. off2 = (k + nb) * CBLK_SIZE
        BY <1>3, <3>1, Constants
      <3> QED
        BY <1>3, <3>2, Constants, Multiple
    <2> QED
      BY <2>1, Zenon
  <1>12. Covers(s3, off2, off + n)
    <2> HIDE DEF off2, rest
    <2>1. CASE rest # 0
      <3>1. off2 % CBLK_SIZE = 0
        <4> HIDE DEF off1, m
        <4> QED
          BY <1>8, <1>9, <1>11, <2>1, Zenon
      <3>2. (off2 % CBLK_SIZE) + rest <= CBLK_SIZE
        BY <1>3, <3>1, Constants
      <3> QED
        BY <1>3, <1>4, <2>1, <3>1, <3>2, OnePart, Zenon
    <2>2. CASE rest = 0
      BY <1>4, <2>2, CoversNone
    <2> QED
      BY <2>1, <2>2, Zenon
  <1>13. s3 = <<>> \/ off2 % CBLK_SIZE = 0
    <2> HIDE DEF off1, m, off2, rest
    <2> QED
      BY <1>8, <1>9, <1>11, Zenon
  <1>14. off <= off1
    <2> HIDE DEF h
    <2> QED
      BY <1>1
  <1>15. s2 = <<>> \/ off1 % CBLK_SIZE = 0
    <2> HIDE DEF off1, m, nb, s2
    <2> QED
      BY <1>8, <1>9, Zenon
  <1> HIDE DEF h, off1, m, nb, off2, rest, s1, s2, s3
  <1>16. Covers(s1 \o s2, off, off2)
    BY <1>2, <1>4, <1>7, <1>10, <1>14, <1>15, CoversJoin, Zenon
  <1>17. Covers((s1 \o s2) \o s3, off, off + n)
    <2>1. off <= off2 /\ off + n \in Nat
      BY <1>2, <1>4, <1>14
    <2> QED
      BY <1>4, <1>12, <1>13, <1>16, <2>1, CoversJoin, Zenon
  <1> QED
    BY <1>6, <1>17, Zenon

(* A window is not empty, is no larger than what is left nor than the      *)
(* buffer, and ends on a boundary or with the request.                     *)
LEMMA Chunks ==
  ASSUME NEW off \in Offsets, NEW rest \in Nat, rest > 0
  PROVE  /\ Chunk(off, rest) \in Nat /\ 0 < Chunk(off, rest) /\ Chunk(off, rest) <= rest
         /\ Chunk(off, rest) <= IO_BUF_SIZE
         /\ off + rest < 2^SIZE_BITS =>
              (off + Chunk(off, rest)) % CBLK_SIZE = 0 \/ Chunk(off, rest) = rest
  <1> DEFINE c   == Smaller(rest, IO_BUF_SIZE)
             sum == Plus(off, c)
             r   == sum % CBLK_SIZE
             end == sum - r
  <1>0. off \in Nat /\ off < 2^SIZE_BITS
    BY Powers DEF Offsets
  <1>1. WINDOW \in Nat \ {0} /\ IO_BUF_SIZE \in Nat /\ CBLK_SIZE <= IO_BUF_SIZE
    BY RangeAssumption, Constants DEF IO_BUF_SIZE
  <1>2. /\ c \in Nat /\ 0 < c /\ c <= rest /\ c <= IO_BUF_SIZE
        /\ c < rest => c = IO_BUF_SIZE
    BY <1>1, Constants DEF Smaller
  <1>3. Chunk(off, rest) = IF c < rest /\ end > off THEN end - off ELSE c
    BY Zenon DEF Chunk
  <1> HIDE DEF c
  <1>4. sum \in Nat /\ sum <= off + c
    <2>1. \A x \in Nat, m \in Nat \ {0} : x % m \in Nat /\ x % m <= x
      BY Division
    <2> QED
      BY <1>0, <1>2, <2>1, Powers DEF Plus, Size
  <1>5. off + rest < 2^SIZE_BITS => sum = off + c
    BY <1>0, <1>2, NoWrap, Powers
  <1> HIDE DEF sum
  <1>6. r \in Nat /\ r < CBLK_SIZE /\ sum = (sum \div CBLK_SIZE) * CBLK_SIZE + r /\ sum \div CBLK_SIZE \in Nat
    BY <1>4, Constants, Division, Zenon
  <1>7. end % CBLK_SIZE = 0 /\ end \in Nat
    <2> DEFINE q == sum \div CBLK_SIZE
    <2>1. q \in Nat /\ end = q * CBLK_SIZE
      <3> HIDE DEF r
      <3>1. q * CBLK_SIZE \in Nat
        BY <1>6, Constants
      <3> HIDE DEF q
      <3> QED
        BY <1>4, <1>6, <3>1 DEF q
    <2> HIDE DEF q, end
    <2> QED
      BY <2>1, Constants, Multiple
  <1> HIDE DEF r
  <1>8. off + rest < 2^SIZE_BITS /\ c < rest => end > off
    BY <1>0, <1>1, <1>2, <1>4, <1>5, <1>6, Constants
  <1>9. end <= off + c
    BY <1>0, <1>2, <1>4, <1>6
  <1> HIDE DEF end
  <1>10. end > off => off + (end - off) = end
    BY <1>0, <1>7
  <1> QED
    BY <1>0, <1>1, <1>2, <1>3, <1>7, <1>8, <1>9, <1>10

-----------------------------------------------------------------------------
(* A request.                                                              *)

LEMMA RequestNumbers ==
  ASSUME Request
  PROVE  /\ offset \in Nat /\ offset < 2^SIZE_BITS /\ length \in Nat
         /\ voff \in Nat /\ voff < 2^SIZE_BITS /\ remaining \in Nat
  BY Powers DEF Request, Offsets

LEMMA Refusal ==
  ASSUME NEW o \in Nat, NEW n \in Nat, g_disk_size \in Nat
  PROVE  oob(o, n) <=> o + n > g_disk_size
  BY DEF oob

LEMMA R_Ask ==
  ASSUME IInv, Ask, UNCHANGED startvars PROVE Request' /\ Progress'
  <1>1. main = "join"
    BY Constants, Zenon DEF IInv, StartInv, Typed, Crew, MainLabels, Ask
  <1>2. Request'
    BY <1>1, Powers DEF IInv, Request, Ask, startvars, Offsets, Lengths
  <1>3. Progress'
    BY Zenon DEF Ask, Progress
  <1> QED
    BY <1>2, <1>3, Zenon

LEMMA R_Start ==
  ASSUME IInv, Start, UNCHANGED startvars PROVE Request' /\ Progress'
  <1>1. error' = "EINVAL" <=> offset + length > g_disk_size
    <2>1. oob(offset, length) <=> offset + length > g_disk_size
      BY RequestNumbers, Refusal, Zenon DEF IInv, StartInv, Typed
    <2> QED
      BY <2>1, Zenon DEF Start
  <1>2. /\ pieces = <<>> /\ pieces' = <<>> /\ voff = offset /\ remaining = length
        /\ g_disk_size' = g_disk_size
    BY Zenon DEF IInv, Request, Start, startvars, sizes
  <1>3. Request'
    BY <1>1, <1>2, Zenon DEF IInv, Request, Start, startvars
  <1>4. Progress'
    <2>1. Covers(<<>>, offset, offset)
      BY RequestNumbers, CoversNone, Zenon DEF IInv
    <2>2. pc' = "window" /\ error' = "ok" => /\ offset' <= voff' /\ voff' + remaining' = offset' + length'
                                             /\ Covers(pieces', offset', voff') /\ voff' = offset'
      BY <1>2, <2>1, RequestNumbers DEF IInv, Start
    <2>3. pc' = "done" => error' # "ok"
      BY Zenon DEF Start
    <2> QED
      BY <2>2, <2>3, Zenon DEF Progress
  <1> QED
    BY <1>3, <1>4, Zenon

LEMMA R_Window ==
  ASSUME IInv, Window, UNCHANGED startvars PROVE Request' /\ Progress'
  <1> DEFINE c == Chunk(voff, remaining)
  <1>0. /\ pc = "window" /\ pc' = "window" /\ remaining > 0 /\ error' = error /\ cmd' = cmd
        /\ offset' = offset /\ length' = length
        /\ voff' = Plus(voff, c) /\ remaining' = remaining - c
        /\ pieces' = IF error = "ok" THEN pieces \o Range(voff, c) ELSE pieces
        /\ main' = main /\ worker' = worker /\ g_disk_size' = g_disk_size
    BY Zenon DEF Window, startvars, sizes
  <1>1. /\ c \in Nat /\ 0 < c /\ c <= remaining
        /\ voff + remaining < 2^SIZE_BITS => (voff + c) % CBLK_SIZE = 0 \/ c = remaining
    BY <1>0, Chunks, Zenon DEF IInv, Request
  <1>2. voff \in Nat /\ remaining \in Nat /\ offset \in Nat /\ length \in Nat
    BY RequestNumbers, Zenon DEF IInv
  <1> HIDE DEF c
  <1>3. voff' \in Offsets /\ remaining' \in Nat
    <2>1. voff + c \in Nat /\ remaining - c \in Nat
      BY <1>1, <1>2
    <2>2. Size(voff + c) \in Nat /\ Size(voff + c) < 2^SIZE_BITS
      BY <2>1, Sizes, Zenon
    <2> QED
      BY <1>0, <2>1, <2>2, Powers DEF Plus, Offsets
  <1>4. Request'
    BY <1>0, <1>3, Zenon DEF IInv, Request
  <1>5. CASE error = "ok"
    <2>1. /\ offset <= voff /\ voff + remaining = offset + length /\ Covers(pieces, offset, voff)
          /\ voff = offset \/ voff % CBLK_SIZE = 0 \/ remaining = 0
          /\ offset + length <= g_disk_size /\ g_disk_size < 2^SIZE_BITS /\ g_disk_size \in Nat
      BY <1>0, <1>2, <1>5 DEF IInv, StartInv, Typed, Sized, Request, Progress
    <2>2. voff + remaining < 2^SIZE_BITS /\ voff + c < 2^SIZE_BITS
      BY <1>1, <1>2, <2>1, Powers
    <2>3. voff' = voff + c
      BY <1>0, <1>1, <1>2, <2>2, NoWrap, Zenon
    <2>4. Covers(Range(voff, c), voff, voff + c)
      BY <1>1, <1>2, <2>2, RangeCovers, Zenon
    <2>5. voff = offset => pieces = <<>>
      BY <1>2, <2>1, CoversFrom, Zenon
    <2>6. Covers(pieces \o Range(voff, c), offset, voff + c)
      <3>1. voff + c \in Nat /\ voff <= voff + c
        BY <1>1, <1>2
      <3>2. voff % CBLK_SIZE = 0 \/ pieces = <<>>
        BY <1>0, <1>2, <2>1, <2>5
      <3> QED
        BY <1>2, <2>1, <2>4, <2>5, <3>1, <3>2, CoversJoin, Zenon
    <2>7. /\ offset' <= voff' /\ voff' + remaining' = offset' + length' /\ Covers(pieces', offset', voff')
          /\ voff' % CBLK_SIZE = 0 \/ remaining' = 0
      BY <1>0, <1>1, <1>2, <1>5, <2>1, <2>2, <2>3, <2>6
    <2> QED
      BY <1>0, <1>4, <2>7, Zenon DEF Progress
  <1>6. CASE error # "ok"
    BY <1>0, <1>4, <1>6, Zenon DEF Progress
  <1> QED
    BY <1>5, <1>6, Zenon

LEMMA R_Finish ==
  ASSUME IInv, Finish, UNCHANGED startvars PROVE Request' /\ Progress'
  <1>1. Request'
    BY Zenon DEF IInv, Request, Finish, startvars, sizes
  <1>2. Progress'
    <2>1. error = "ok" => voff = offset + length
      BY RequestNumbers DEF IInv, Progress, Finish
    <2>2. error = "ok" => Covers(pieces, offset, offset + length)
      BY <2>1, Zenon DEF IInv, Progress, Finish
    <2>3. cmd # "TRIM"
      BY Zenon DEF IInv, Request, Finish
    <2> QED
      BY <2>2, <2>3, Zenon DEF Finish, Progress
  <1> QED
    BY <1>1, <1>2, Zenon

LEMMA R_Trim ==
  ASSUME IInv, Trim, UNCHANGED startvars PROVE Request' /\ Progress'
  <1>1. Request'
    BY Zenon DEF IInv, Request, Trim, startvars, sizes
  <1>2. Progress'
    <2>1. Trimmed(offset, length)' = Trimmed(offset, length)
      BY Zenon DEF Trim, Trimmed, startvars, sizes
    <2> QED
      BY <2>1, Zenon DEF IInv, Request, Progress, Trim
  <1> QED
    BY <1>1, <1>2, Zenon

LEMMA R_Reply ==
  ASSUME IInv, Reply PROVE Request' /\ Progress'
  BY Powers DEF IInv, Request, Progress, Reply, Offsets

LEMMA NextIInv ==
  ASSUME IInv, [Next]_<<vars, startvars>> PROVE IInv'
  <1>1. ASSUME UNCHANGED startvars PROVE StartInv'
    <2>1. UNCHANGED <<main, mb, g_codec, g_static_ctx, g_vram_size, g_disk_size, g_nblocks,
                      g_n_extents, held, worker, kit>>
      BY <1>1, Zenon DEF startvars, sizes, codec
    <2>2. StartInv
      BY Zenon DEF IInv
    <2>3. Typed' /\ Stocked'
      BY <2>1, <2>2, ZenonT(40) DEF StartInv, Typed, Stocked, Comp, Freed, Heap
    <2>4. Crew' /\ Sized'
      BY <2>1, <2>2, Zenon DEF StartInv, Crew, Sized, TooLarge
    <2> QED
      BY <2>3, <2>4, Zenon DEF StartInv
  <1>2. ASSUME UNCHANGED vars, UNCHANGED <<main, worker, g_disk_size, g_nblocks>> PROVE Request' /\ Progress'
    BY <1>2, Zenon DEF IInv, Request, Progress, Trimmed, vars
  <1>3. ASSUME UNCHANGED vars, pc = "idle" PROVE Request' /\ Progress'
    BY <1>3, Zenon DEF IInv, Request, Progress, vars
  <1>4. CASE Main /\ UNCHANGED vars
    <2>1. StartInv'
      BY <1>4, MainStartInv, Zenon DEF IInv
    <2>2. pc = "idle"
      BY <1>4, Constants, Zenon DEF IInv, Request, Main, load_libcuda, load_libcompress, cuInit,
         cuCtxCreate, cuMemAlloc, AllocFailed, ChooseSize, store_init, Listen, Spawn, Join,
         Joined, Cleanup
    <2> QED
      BY <1>3, <1>4, <2>1, <2>2, Zenon DEF IInv
  <1>5. CASE pc = "idle" /\ (\E t \in Threads : Work(t)) /\ UNCHANGED vars
    BY <1>3, <1>5, WorkStartInv, Zenon DEF IInv
  <1>6. CASE (Ask \/ handle_one) /\ UNCHANGED startvars
    BY <1>1, <1>6, R_Ask, R_Start, R_Window, R_Finish, R_Trim, R_Reply, Zenon DEF IInv, handle_one
  <1>7. CASE UNCHANGED <<vars, startvars>>
    <2>1. UNCHANGED <<main, worker, g_disk_size, g_nblocks>>
      BY <1>7, Zenon DEF startvars, sizes
    <2> QED
      BY <1>1, <1>2, <1>7, <2>1, Zenon DEF IInv
  <1> QED
    BY <1>4, <1>5, <1>6, <1>7, Zenon DEF Next

LEMMA InitIInv ==
  ASSUME Init PROVE IInv
  <1>1. StartInv
    BY InitStartInv, Zenon DEF Init
  <1>2. Request /\ Progress
    BY Powers DEF Init, Request, Progress, Offsets
  <1> QED
    BY <1>1, <1>2, Zenon DEF IInv

LEMMA AlwaysIInv == Spec => []IInv
  <1> QED
    BY InitIInv, NextIInv, PTL DEF Spec

-----------------------------------------------------------------------------
(* What the invariant says of the bytes a request touches.                 *)

LEMMA CoversTouched ==
  ASSUME NEW a \in Nat, NEW b \in Nat, Covers(pieces, a, b)
  PROVE  Touched = a..(b - 1)
  <1>1. \A i \in DOMAIN pieces : BytesOf(pieces[i]) \subseteq a..(b - 1)
    BY Zenon DEF Covers
  <1>2. \A x \in a..(b - 1) : \E i \in DOMAIN pieces : x \in BytesOf(pieces[i])
    BY Zenon DEF Covers
  <1>3. \A x : x \in Touched <=> \E i \in DOMAIN pieces : x \in BytesOf(pieces[i])
    BY Zenon DEF Touched
  <1>4. \A x : x \in Touched <=> x \in a..(b - 1)
    BY <1>1, <1>2, <1>3, Zenon
  <1> QED
    BY <1>4, Zenon

LEMMA NoneTouched ==
  ASSUME pieces = <<>>
  PROVE  Touched = {}
  BY DEF Touched

(* A block's bytes, and the first block at or after a byte.                *)
LEMMA BlockBytes ==
  ASSUME NEW k \in Nat
  PROVE  /\ k * CBLK_SIZE \in Nat
         /\ BytesOf(Part(k, 0, CBLK_SIZE)) = (k * CBLK_SIZE)..((k * CBLK_SIZE + CBLK_SIZE) - 1)
  <1> DEFINE o == k * CBLK_SIZE
             p == Part(k, 0, CBLK_SIZE)
  <1>1. o \in Nat
    BY Constants
  <1>2. p.blk = k /\ p.at = 0 /\ p.cnt = CBLK_SIZE
    BY Zenon DEF Part
  <1>3. BytesOf(p) = (p.blk * CBLK_SIZE + p.at)..(p.blk * CBLK_SIZE + p.at + p.cnt - 1)
    BY Zenon DEF BytesOf
  <1>4. p.blk * CBLK_SIZE = o
    BY <1>2, Zenon
  <1> HIDE DEF o, p
  <1>5. BytesOf(p) = o..((o + CBLK_SIZE) - 1)
    BY <1>1, <1>2, <1>3, <1>4, Constants
  <1> QED
    BY <1>1, <1>5, Zenon DEF o, p

LEMMA RoundUp ==
  ASSUME NEW x \in Nat, NEW k \in Nat
  PROVE  /\ (x + (CBLK_SIZE - 1)) \div CBLK_SIZE \in Nat
         /\ x <= k * CBLK_SIZE <=> (x + (CBLK_SIZE - 1)) \div CBLK_SIZE <= k
  <1> DEFINE y == x + (CBLK_SIZE - 1)
             q == y \div CBLK_SIZE
             r == y % CBLK_SIZE
  <1>1. y \in Nat
    BY Constants
  <1>2. q \in Nat /\ r \in Nat /\ r < CBLK_SIZE /\ y = q * CBLK_SIZE + r
    <2> HIDE DEF y
    <2> QED
      BY <1>1, Constants, Division, Zenon
  <1> HIDE DEF q, r
  <1>3. q * CBLK_SIZE \in Nat /\ k * CBLK_SIZE \in Nat /\ (k + 1) * CBLK_SIZE = k * CBLK_SIZE + CBLK_SIZE
    BY <1>2, Constants
  <1>4. ASSUME x <= k * CBLK_SIZE PROVE q <= k
    <2>1. q * CBLK_SIZE < (k + 1) * CBLK_SIZE
      BY <1>2, <1>3, <1>4, Constants
    <2>2. q < k + 1
      BY <1>2, <2>1, Constants
    <2> QED
      BY <1>2, <2>2
  <1>5. ASSUME q <= k PROVE x <= k * CBLK_SIZE
    <2>1. k * CBLK_SIZE = q * CBLK_SIZE + (k - q) * CBLK_SIZE /\ (k - q) * CBLK_SIZE \in Nat
      BY <1>2, <1>5, Constants
    <2> QED
      BY <1>2, <1>3, <2>1, Constants
  <1> QED
    BY <1>2, <1>4, <1>5, Zenon DEF q

LEMMA RoundDown ==
  ASSUME NEW x \in Nat, NEW k \in Nat
  PROVE  /\ x \div CBLK_SIZE \in Nat
         /\ k * CBLK_SIZE <= x <=> k <= x \div CBLK_SIZE
  <1> DEFINE q == x \div CBLK_SIZE
             r == x % CBLK_SIZE
  <1>1. q \in Nat /\ r \in Nat /\ r < CBLK_SIZE /\ x = q * CBLK_SIZE + r
    BY Constants, Division, Zenon
  <1> HIDE DEF q, r
  <1>2. q * CBLK_SIZE \in Nat /\ k * CBLK_SIZE \in Nat /\ (q + 1) * CBLK_SIZE = q * CBLK_SIZE + CBLK_SIZE
    BY <1>1, Constants
  <1>3. ASSUME k * CBLK_SIZE <= x PROVE k <= q
    <2>1. k * CBLK_SIZE < (q + 1) * CBLK_SIZE
      BY <1>1, <1>2, <1>3, Constants
    <2>2. k < q + 1
      BY <1>1, <2>1, Constants
    <2> QED
      BY <1>1, <2>2
  <1>4. ASSUME k <= q PROVE k * CBLK_SIZE <= x
    <2>1. q * CBLK_SIZE = k * CBLK_SIZE + (q - k) * CBLK_SIZE /\ (q - k) * CBLK_SIZE \in Nat
      BY <1>1, <1>4, Constants
    <2> QED
      BY <1>1, <1>2, <2>1
  <1> QED
    BY <1>1, <1>3, <1>4, Zenon DEF q

(* The device ends a block before sizes wrap.                              *)
LEMMA RoomToRound ==
  ASSUME NEW d \in Nat, d % CBLK_SIZE = 0, d < 2^SIZE_BITS
  PROVE  d + CBLK_SIZE <= 2^SIZE_BITS
  <1>1. PICK k \in Nat : d = k * CBLK_SIZE
    BY Constants, Factor, Zenon
  <1>2. PICK l \in Nat : 2^SIZE_BITS = l * CBLK_SIZE
    <2>1. 2^SIZE_BITS \in Nat /\ CBLK_SIZE \in Nat \ {0} /\ 2^SIZE_BITS % CBLK_SIZE = 0
      BY Constants, Powers, Zenon
    <2> QED
      BY <2>1, Factor, Zenon
  <1>3. k < l
    BY <1>1, <1>2, Constants
  <1>4. l * CBLK_SIZE = k * CBLK_SIZE + CBLK_SIZE + (l - k - 1) * CBLK_SIZE /\ (l - k - 1) * CBLK_SIZE \in Nat
    BY <1>3, Constants
  <1>5. k * CBLK_SIZE \in Nat
    BY Constants
  <1> QED
    BY <1>1, <1>2, <1>4, <1>5, Constants

(* trim_range: the blocks from the first boundary in the range to the last.*)
LEMMA TrimmedBlocks ==
  ASSUME NEW o \in Nat, NEW n \in Nat, o + n <= g_disk_size, StartInv, main = "join"
  PROVE  \E b0 \in Nat, b1 \in Nat :
           /\ \A k \in Nat : o <= k * CBLK_SIZE <=> b0 <= k
           /\ \A k \in Nat : k * CBLK_SIZE <= o + n <=> k <= b1
           /\ b1 <= g_nblocks
           /\ Trimmed(o, n) = [i \in 1..(b1 - b0) |-> Part(b0 + i - 1, 0, CBLK_SIZE)]
  <1> DEFINE b0 == (o + (CBLK_SIZE - 1)) \div CBLK_SIZE
             b1 == (o + n) \div CBLK_SIZE
  <1>1. /\ g_disk_size \in Nat /\ g_disk_size % CBLK_SIZE = 0 /\ g_disk_size < 2^SIZE_BITS
        /\ g_nblocks \in Nat /\ g_nblocks = g_disk_size \div CBLK_SIZE
        /\ g_nblocks * CBLK_SIZE = g_disk_size
    BY Constants, Exact DEF StartInv, Typed, Sized
  <1>2. o + (CBLK_SIZE - 1) < 2^SIZE_BITS /\ o + n < 2^SIZE_BITS /\ o + n \in Nat
    BY <1>1, Constants, Powers, RoomToRound
  <1>3. Plus(o, CBLK_SIZE - 1) = o + (CBLK_SIZE - 1) /\ Plus(o, n) = o + n
    BY <1>2, Constants, NoWrap
  <1>4. b0 \in Nat /\ \A k \in Nat : o <= k * CBLK_SIZE <=> b0 <= k
    BY RoundUp, Zenon
  <1>5. b1 \in Nat /\ \A k \in Nat : k * CBLK_SIZE <= o + n <=> k <= b1
    BY <1>2, RoundDown, Zenon
  <1>6. b1 <= g_nblocks
    <2> HIDE DEF b1
    <2>1. b1 * CBLK_SIZE <= o + n
      BY <1>5
    <2>2. b1 * CBLK_SIZE <= g_nblocks * CBLK_SIZE
      <3>1. b1 * CBLK_SIZE \in Nat
        BY <1>5, Constants
      <3> QED
        BY <1>1, <1>2, <2>1, <3>1
    <2> QED
      BY <1>1, <1>5, <2>2, Constants, Cancel, Zenon
  <1>7. TrimFirst(o) = b0
    BY <1>3, Zenon DEF TrimFirst
  <1>8. Smaller(Plus(o, n) \div CBLK_SIZE, g_nblocks) = b1
    <2>1. Plus(o, n) \div CBLK_SIZE = b1
      BY <1>3, Zenon
    <2> HIDE DEF b1
    <2> QED
      BY <1>1, <1>5, <1>6, <2>1 DEF Smaller
  <1> HIDE DEF b0, b1
  <1>9. Trimmed(o, n) = [i \in 1..(b1 - b0) |-> Part(b0 + i - 1, 0, CBLK_SIZE)]
    BY <1>7, <1>8, Zenon DEF Trimmed
  <1> QED
    BY <1>4, <1>5, <1>6, <1>9, Zenon

LEMMA TrimIsWhole ==
  ASSUME IInv, pc = "done", error = "ok", cmd = "TRIM"
  PROVE  /\ Touched = UNION {BytesOf(Part(b, 0, CBLK_SIZE)) :
                               b \in {c \in 0..(g_nblocks - 1) :
                                        BytesOf(Part(c, 0, CBLK_SIZE)) \subseteq Asked}}
         /\ \A i, j \in DOMAIN pieces : i < j => pieces[i].blk < pieces[j].blk
         /\ Touched \subseteq 0..(g_disk_size - 1)
  <1> DEFINE B(c) == BytesOf(Part(c, 0, CBLK_SIZE))
             W == {c \in 0..(g_nblocks - 1) : B(c) \subseteq Asked}
  <1>1. /\ offset \in Nat /\ length \in Nat /\ g_disk_size \in Nat /\ g_nblocks \in Nat
        /\ main = "join" /\ offset + length <= g_disk_size /\ pieces = Trimmed(offset, length)
        /\ g_nblocks * CBLK_SIZE = g_disk_size
    <2>1. main = "join" /\ g_disk_size \in Nat /\ g_nblocks \in Nat /\ SizesAgree
      BY StartSizes, Zenon DEF IInv, Request, StartInv, Typed
    <2>2. offset \in Nat /\ length \in Nat
      BY RequestNumbers, Zenon DEF IInv
    <2>3. ~(offset + length > g_disk_size) /\ pieces = Trimmed(offset, length)
      BY Zenon DEF IInv, Request, Progress
    <2> QED
      BY <2>1, <2>2, <2>3 DEF SizesAgree
  <1>2. PICK b0 \in Nat, b1 \in Nat :
           /\ \A k \in Nat : offset <= k * CBLK_SIZE <=> b0 <= k
           /\ \A k \in Nat : k * CBLK_SIZE <= offset + length <=> k <= b1
           /\ b1 <= g_nblocks
           /\ Trimmed(offset, length) = [i \in 1..(b1 - b0) |-> Part(b0 + i - 1, 0, CBLK_SIZE)]
    BY <1>1, TrimmedBlocks, Zenon DEF IInv
  <1>3. /\ DOMAIN pieces = 1..(b1 - b0)
        /\ \A i \in 1..(b1 - b0) : pieces[i] = Part(b0 + i - 1, 0, CBLK_SIZE)
    BY <1>1, <1>2, Zenon
  <1>4. \A i, j \in DOMAIN pieces : i < j => pieces[i].blk < pieces[j].blk
    <2>1. \A i \in 1..(b1 - b0) : pieces[i].blk = b0 + i - 1
      BY <1>3 DEF Part
    <2> QED
      BY <1>3, <2>1
  <1>5. ASSUME NEW c \in Nat
        PROVE  c \in W <=> b0 <= c /\ c < b1
    <2> DEFINE o == c * CBLK_SIZE
    <2>1. o \in Nat /\ B(c) = o..((o + CBLK_SIZE) - 1) /\ (c + 1) * CBLK_SIZE = o + CBLK_SIZE
      BY BlockBytes, Constants
    <2>2. (offset <= o <=> b0 <= c) /\ (o + CBLK_SIZE <= offset + length <=> c + 1 <= b1)
      BY <1>2, <2>1
    <2> HIDE DEF o, B
    <2>3. B(c) \subseteq Asked <=> offset <= o /\ o + CBLK_SIZE <= offset + length
      <3>1. ASSUME B(c) \subseteq Asked PROVE offset <= o /\ o + CBLK_SIZE <= offset + length
        <4>1. o \in Asked /\ (o + CBLK_SIZE) - 1 \in Asked
          BY <2>1, <3>1, Constants
        <4> QED
          BY <1>1, <2>1, <4>1, Constants DEF Asked
      <3>2. ASSUME offset <= o, o + CBLK_SIZE <= offset + length PROVE B(c) \subseteq Asked
        BY <1>1, <2>1, <3>2, Constants DEF Asked
      <3> QED
        BY <3>1, <3>2, Zenon
    <2>4. c < b1 => c \in 0..(g_nblocks - 1)
      BY <1>1, <1>2
    <2>5. c + 1 <= b1 <=> c < b1
      OBVIOUS
    <2> QED
      BY <2>2, <2>3, <2>4, <2>5, Zenon
  <1>6. \A x : x \in Touched <=> \E c \in W : x \in B(c)
    <2> HIDE DEF B, W
    <2>0. \A x : x \in Touched <=> \E i \in DOMAIN pieces : x \in BytesOf(pieces[i])
      BY Zenon DEF Touched
    <2>1. ASSUME NEW x, NEW i \in DOMAIN pieces, x \in BytesOf(pieces[i])
          PROVE  \E c \in W : x \in B(c)
      <3>1. b0 + i - 1 \in W
        <4>1. b0 + i - 1 \in Nat /\ b0 <= b0 + i - 1 /\ b0 + i - 1 < b1
          BY <1>3
        <4> QED
          BY <1>5, <4>1, Zenon
      <3>2. x \in B(b0 + i - 1)
        BY <1>3, <2>1, Zenon DEF B
      <3> QED
        BY <3>1, <3>2, Zenon
    <2>2. ASSUME NEW c \in W, NEW x \in B(c)
          PROVE  \E i \in DOMAIN pieces : x \in BytesOf(pieces[i])
      <3>1. c \in Nat /\ b0 <= c /\ c < b1
        <4>1. c \in Nat
          BY <1>1 DEF W
        <4> QED
          BY <1>5, <4>1, Zenon
      <3> DEFINE i == c - b0 + 1
      <3>2. i \in 1..(b1 - b0) /\ b0 + i - 1 = c
        BY <3>1
      <3> HIDE DEF i
      <3>3. i \in DOMAIN pieces /\ pieces[i] = Part(c, 0, CBLK_SIZE)
        BY <1>3, <3>2, Zenon
      <3> QED
        BY <3>3, Zenon DEF B
    <2> QED
      BY <2>0, <2>1, <2>2, Zenon
  <1>7. Touched = UNION {B(c) : c \in W}
    <2> HIDE DEF B, W
    <2>1. \A x : x \in UNION {B(c) : c \in W} <=> \E c \in W : x \in B(c)
      BY Zenon
    <2> QED
      BY <1>6, <2>1, Zenon
  <1>8. Touched \subseteq 0..(g_disk_size - 1)
    <2>1. \A c \in W : B(c) \subseteq Asked
      BY Zenon DEF W
    <2>2. Asked \subseteq 0..(g_disk_size - 1)
      BY <1>1 DEF Asked
    <2> HIDE DEF B, W
    <2> QED
      BY <1>6, <2>1, <2>2, Zenon
  <1> QED
    BY <1>4, <1>7, <1>8, Zenon

LEMMA PiecesRight ==
  ASSUME IInv
  PROVE  TouchesExactly /\ TrimsWhole /\ RefusedExactly
  <1>1. RefusedExactly
    BY Zenon DEF IInv, Request, RefusedExactly
  <1>2. TrimsWhole
    BY TrimIsWhole, Zenon DEF TrimsWhole
  <1>3. pc = "window" /\ remaining > 0 => Chunk(voff, remaining) <= IO_BUF_SIZE
    BY Chunks, Zenon DEF IInv, Request
  <1>4. offset \in Nat /\ length \in Nat /\ voff \in Nat /\ remaining \in Nat /\ g_disk_size \in Nat
    BY RequestNumbers, Zenon DEF IInv, StartInv, Typed
  <1>5. pc = "done" /\ error = "ok" /\ cmd # "TRIM" => Touched = Asked
    <2> SUFFICES ASSUME pc = "done", error = "ok", cmd # "TRIM" PROVE Touched = Asked
      BY Zenon
    <2>1. Covers(pieces, offset, offset + length)
      BY Zenon DEF IInv, Progress
    <2>2. Touched = offset..((offset + length) - 1)
      BY <1>4, <2>1, CoversTouched
    <2> QED
      BY <1>4, <2>2 DEF Asked
  <1>6. \/ pieces = <<>>
        \/ \E b \in Nat : Covers(pieces, offset, b) /\ b <= offset + length /\ offset + length <= g_disk_size
        \/ pc = "done" /\ error = "ok" /\ cmd = "TRIM"
    <2>1. CASE pc \in {"idle", "start", "trim"} \/ error # "ok"
      BY <2>1, Zenon DEF IInv, Request
    <2>2. CASE pc = "window" /\ error = "ok"
      <3>1. Covers(pieces, offset, voff) /\ voff <= offset + length
        BY <1>4, <2>2 DEF IInv, Progress
      <3>2. offset + length <= g_disk_size
        BY <1>4, <2>2 DEF IInv, Request
      <3> QED
        BY <1>4, <3>1, <3>2, Zenon
    <2>3. CASE pc = "done" /\ error = "ok" /\ cmd # "TRIM"
      <3>1. Covers(pieces, offset, offset + length) /\ offset + length \in Nat /\ offset + length <= offset + length
        BY <1>4, <2>3 DEF IInv, Progress
      <3>2. offset + length <= g_disk_size
        BY <1>4, <2>3 DEF IInv, Request
      <3> QED
        BY <3>1, <3>2, Zenon
    <2> QED
      BY <2>1, <2>2, <2>3, Zenon DEF IInv, Request
  <1>7. /\ \A i, j \in DOMAIN pieces : i < j => pieces[i].blk < pieces[j].blk
        /\ Touched \subseteq 0..(g_disk_size - 1)
    <2>1. CASE pieces = <<>>
      BY <2>1, NoneTouched
    <2>2. ASSUME NEW b \in Nat, Covers(pieces, offset, b), b <= offset + length, offset + length <= g_disk_size
          PROVE  /\ \A i, j \in DOMAIN pieces : i < j => pieces[i].blk < pieces[j].blk
                 /\ Touched \subseteq 0..(g_disk_size - 1)
      <3>1. Touched = offset..(b - 1)
        BY <1>4, <2>2, CoversTouched, Zenon
      <3>2. Touched \subseteq 0..(g_disk_size - 1)
        BY <1>4, <2>2, <3>1
      <3> QED
        BY <2>2, <3>2, Zenon DEF Covers
    <2>3. CASE pc = "done" /\ error = "ok" /\ cmd = "TRIM"
      BY <2>3, TrimIsWhole, Zenon
    <2> QED
      BY <1>6, <2>1, <2>2, <2>3, Zenon
  <1>8. TouchesExactly
    BY <1>3, <1>5, <1>7, Zenon DEF TouchesExactly
  <1> QED
    BY <1>1, <1>2, <1>8, Zenon

-----------------------------------------------------------------------------
(* The theorems.                                                           *)

(* Whichever step fails, and with any number of workers, main gives back   *)
(* nothing a worker still uses (main, its cleanup and its joins,           *)
(* worker_init).                                                           *)
THEOREM OrderlyStartup == Spec => []NeverUnderUse
  <1> QED
    BY AlwaysIInv, StartHeld, PTL DEF IInv

(* Whichever step fails, a worker that has ended and a program that has    *)
(* ended leave nothing they took, but for the libraries of a program that  *)
(* never came to ask for memory (worker_fini, main's cleanup).             *)
THEOREM CleanEnd == Spec => []NothingLeft
  <1> QED
    BY AlwaysIInv, StartHeld, PTL DEF IInv

(* The sizes main negotiates fit one another: the slots' numbers the       *)
(* index's entries, the extents the memory, the index the device (main,    *)
(* store_init).                                                            *)
THEOREM SizesFit == Spec => []SizesAgree
  <1> QED
    BY AlwaysIInv, StartSizes, PTL DEF IInv

(* A request is refused exactly when it reaches past the device, wherever  *)
(* its sum wraps (oob).                                                    *)
THEOREM RefusalsRight == Spec => []RefusedExactly
  <1> QED
    BY AlwaysIInv, PiecesRight, PTL

(* A read or a write touches each byte asked for, no other, and no block   *)
(* twice, for every size of block, window and device (handle_one,          *)
(* store_range, load_range).                                               *)
THEOREM BytesRight == Spec => []TouchesExactly
  <1> QED
    BY AlwaysIInv, PiecesRight, PTL

(* A discard frees the blocks that lie wholly in its range and no other    *)
(* (trim_range).                                                           *)
THEOREM TrimsRight == Spec => []TrimsWhole
  <1> QED
    BY AlwaysIInv, PiecesRight, PTL

=============================================================================

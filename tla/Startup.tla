------------------------------ MODULE Startup -------------------------------
(***************************************************************************)
(* How nbd-vram.c comes up and how it takes itself down: main negotiates   *)
(* the sizes with the driver, builds the store, opens the socket and       *)
(* starts the workers; each worker equips itself and proves its codec; and *)
(* whichever step fails, what was obtained before it is given back.        *)
(*                                                                         *)
(* Sizes have a width and wrap, as size_t and uint64_t do.  The settings   *)
(* and the machine are read where the code reads them: any of their values *)
(* may be found there.                                                     *)
(***************************************************************************)
EXTENDS Integers, FiniteSets

CONSTANTS
  NThreads,        \* g_nbd_threads
  CBLK_SIZE,       \* bytes in a block (4096)
  MIB,             \* bytes in the unit of the settings (2^20)
  SIZE_BITS,       \* the width of a size (64)
  SIZE_ALIGN, EXTENT_SIZE, ALLOC_GRAIN, ENT_GRAIN_BITS,
  MIN_MB, STEP_MB, \* the least that is asked for, the step of the back-off
  INIT_TRIES,      \* how often cuInit is tried (10)
  SetupMB,         \* values of VRAM_SETUP_SIZE_MB
  DiskMB           \* values of VRAM_DISK_SIZE_MB, Unset among them

Unset == -1

ASSUME StartupAssumption ==
  /\ {NThreads, CBLK_SIZE, MIB, SIZE_BITS, SIZE_ALIGN, EXTENT_SIZE, ALLOC_GRAIN,
      ENT_GRAIN_BITS, MIN_MB, STEP_MB, INIT_TRIES} \subseteq Nat \ {0}
  /\ STEP_MB <= MIN_MB
  /\ MIB % SIZE_ALIGN = 0 /\ MIB % EXTENT_SIZE = 0 /\ MIB % CBLK_SIZE = 0
  /\ EXTENT_SIZE % CBLK_SIZE = 0 /\ CBLK_SIZE % ALLOC_GRAIN = 0
  /\ 2^SIZE_BITS > 0 /\ 2^SIZE_BITS % MIB = 0
  /\ SetupMB \subseteq Nat /\ DiskMB \subseteq Nat \cup {Unset}

Size(n) == n % 2^SIZE_BITS
Threads == 0..(NThreads - 1)

VARIABLES
  main,         \* where main is
  tries, mb,    \* of main: calls of cuInit so far, the size asked for
  g_codec, g_static_ctx,
  g_vram_size, g_disk_size, g_nblocks, g_n_extents,
  held,         \* what main has obtained and not given back
  worker,       \* where each worker is
  kit,          \* what each worker has obtained and not given back
  failed        \* g_worker_failed

sizes == <<g_vram_size, g_disk_size, g_nblocks, g_n_extents>>
codec == <<g_codec, g_static_ctx>>
startvars == <<main, tries, mb, codec, sizes, held, worker, kit, failed>>

StartInit ==
  /\ main = "cuda" /\ tries = 0 /\ mb = 0
  /\ g_codec = "none" /\ g_static_ctx = FALSE
  /\ g_vram_size = 0 /\ g_disk_size = 0 /\ g_nblocks = 0 /\ g_n_extents = 0
  /\ held = {} /\ failed = FALSE
  /\ worker = [t \in Threads |-> "none"] /\ kit = [t \in Threads |-> {}]

Obtain(S) == held' = held \cup S
Workers == <<worker, kit, failed>>

-----------------------------------------------------------------------------
(* main, until the sizes are known.                                        *)

(* A symbol that is missing leaves the library loaded, and ends main.      *)
load_libcuda ==
  /\ main = "cuda"
  /\ \/ Obtain({"libcuda"}) /\ main' = "codec"
     \/ held' \in {held, held \cup {"libcuda"}} /\ main' = "exit"
  /\ UNCHANGED <<tries, mb, codec, sizes, Workers>>

(* The codec chosen for a setting, given the libraries that can be used.   *)
Chosen(want, usable) ==
  LET first == IF want \in {"unset", "zstd"} THEN <<"zstd", "lz4">>
               ELSE IF want = "lz4" THEN <<"lz4", "zstd">>
               ELSE IF want = "off" THEN <<"none", "none">> ELSE <<"lz4", "lz4">>
  IN  IF first[1] \in usable THEN first[1]
      ELSE IF first[2] \in usable THEN first[2] ELSE "none"

(* try_zstd and try_lz4 also find out whether the library can work in      *)
(* memory of the caller's.                                                 *)
load_libcompress ==
  /\ main = "codec"
  /\ \E want \in {"unset", "zstd", "lz4", "off", "other"}, usable \in SUBSET {"zstd", "lz4"} :
       g_codec' = Chosen(want, usable)
  /\ g_static_ctx' \in IF g_codec' = "none" THEN {FALSE} ELSE BOOLEAN
  /\ Obtain(IF g_codec' = "none" THEN {} ELSE {"libcomp"})
  /\ main' = "init"
  /\ UNCHANGED <<tries, mb, sizes, Workers>>

cuInit ==
  /\ main = "init"
  /\ \/ main' = "context" /\ tries' = 0
     \/ /\ tries' = tries + 1
        /\ main' = IF tries' = INIT_TRIES THEN "exit" ELSE "init"
  /\ UNCHANGED <<mb, codec, sizes, held, Workers>>

cuCtxCreate ==
  /\ main = "context"
  /\ \/ Obtain({"context"}) /\ main' = "alloc" /\ mb' \in SetupMB
     \/ main' = "exit" /\ UNCHANGED <<held, mb>>
  /\ UNCHANGED <<tries, codec, sizes, Workers>>

Asks == mb >= MIN_MB

(* One turn of the back-off.                                               *)
cuMemAlloc ==
  /\ main = "alloc" /\ Asks
  /\ g_vram_size' = (Size(mb * MIB) \div SIZE_ALIGN) * SIZE_ALIGN
  /\ \/ Obtain({"vram"}) /\ main' = "check" /\ mb' = 0
     \/ mb' = Size(mb - STEP_MB) /\ UNCHANGED <<held, main>>
  /\ UNCHANGED <<tries, codec, g_disk_size, g_nblocks, g_n_extents, Workers>>

AllocFailed ==
  /\ main = "alloc" /\ ~Asks
  /\ main' = "cleanup"
  /\ UNCHANGED <<tries, mb, codec, sizes, held, Workers>>

(* A variant that lets any size pass.                                      *)
TooLargeNever == FALSE

TooLarge == g_vram_size \div ALLOC_GRAIN >= 2^ENT_GRAIN_BITS

(* Without a codec the device is no larger than the memory behind it.      *)
Capped(want) ==
  LET size == IF want = Unset THEN Size(g_vram_size * 2) ELSE Size(want * MIB)
  IN  IF g_codec = "none" /\ size > g_vram_size THEN g_vram_size ELSE size

ChooseSize ==
  /\ main = "check"
  /\ \/ /\ TooLarge /\ main' = "cleanup" /\ UNCHANGED g_disk_size
     \/ /\ ~TooLarge
        /\ \E want \in DiskMB :
             g_disk_size' = (Capped(want) \div CBLK_SIZE) * CBLK_SIZE
        /\ main' = IF g_disk_size' < CBLK_SIZE THEN "cleanup" ELSE "store"
  /\ UNCHANGED <<tries, mb, codec, g_vram_size, g_nblocks, g_n_extents, held, Workers>>

-----------------------------------------------------------------------------
(* main, until it waits for the workers.                                   *)

(* The index is mapped first; the tables of the extents may be missing.    *)
store_init ==
  /\ main = "store"
  /\ g_nblocks' = g_disk_size \div CBLK_SIZE
  /\ \/ main' = "cleanup" /\ UNCHANGED <<held, g_n_extents>>
     \/ /\ g_n_extents' = g_vram_size \div EXTENT_SIZE
        /\ \/ g_n_extents' # 0 /\ Obtain({"index", "ext", "extbm"}) /\ main' = "listen"
           \/ Obtain({"index"}) /\ main' = "cleanup"
           \/ /\ g_n_extents' # 0 /\ main' = "cleanup"
              /\ \E e \in {"ext", "extbm"} : Obtain({"index", e})
  /\ UNCHANGED <<tries, mb, codec, g_vram_size, g_disk_size, Workers>>

(* socket, bind and listen; the path exists once bind() has succeeded.     *)
Listen ==
  /\ main = "listen"
  /\ \/ Obtain({"listen_fd", "path"}) /\ main' = "spawn"
     \/ held' \in {held \cup S : S \in {{}, {"listen_fd"}, {"listen_fd", "path"}}}
        /\ main' = "cleanup"
  /\ UNCHANGED <<tries, mb, codec, sizes, Workers>>

Spawn ==
  /\ main = "spawn"
  /\ worker' = [t \in Threads |-> "stream"]
  /\ main' = "join"
  /\ UNCHANGED <<tries, mb, codec, sizes, held, kit, failed>>

(* A variant that waits for the first worker only.                         *)
JoinedFirst == worker[0] = "done"

Joined == \A t \in Threads : worker[t] = "done"

Join ==
  /\ main = "join" /\ Joined
  /\ main' = "cleanup"
  /\ UNCHANGED <<tries, mb, codec, sizes, held, Workers>>

(* The order in which main gives back what it holds.                       *)
GivenBack ==
  <<"listen_fd", "path", "index", "ext", "extbm", "vram", "context", "libcuda", "libcomp">>

Cleanup ==
  LET left == {i \in DOMAIN GivenBack : GivenBack[i] \in held} IN
  /\ main = "cleanup"
  /\ IF left = {} THEN main' = "exit" /\ UNCHANGED held
     ELSE /\ \E i \in left : (\A j \in left : i <= j) /\ held' = held \ {GivenBack[i]}
          /\ UNCHANGED main
  /\ UNCHANGED <<tries, mb, codec, sizes, Workers>>

-----------------------------------------------------------------------------
(* thread_worker: worker_init one call after another, and worker_fini.     *)

Aside == UNCHANGED <<main, tries, mb, codec, sizes, held>>
Goes(t, l) == worker' = [worker EXCEPT ![t] = l]
Equip(t, S) == kit' = [kit EXCEPT ![t] = @ \cup S]

Heap == g_codec = "zstd" /\ ~g_static_ctx

(* Each step of worker_init: where it is taken, what it asks for, and what *)
(* comes next.  "host" stands for the buffers that are not pinned.         *)
Steps ==
  {[at |-> "stream", asks |-> {"stream"}, next |-> "space"],
   [at |-> "space", next |-> "context",
    asks |-> IF ~g_static_ctx THEN {} ELSE IF g_codec = "zstd" THEN {"cws", "dws"} ELSE {"cws"}],
   [at |-> "context", asks |-> IF Heap THEN {"cctx", "dctx"} ELSE {}, next |-> "buffers"],
   [at |-> "buffers", asks |-> {"cstage", "cscratch", "host"}, next |-> "selftest"]}

worker_init(t) == \E s \in Steps :
  /\ worker[t] = s.at
  /\ \E got \in SUBSET s.asks :
       /\ Equip(t, got)
       /\ Goes(t, IF got = s.asks THEN s.next ELSE "failing")
  /\ Aside /\ UNCHANGED failed

(* A library may also refuse to set up its contexts in the caller's memory.*)
ContextRefused(t) ==
  /\ worker[t] = "context" /\ g_codec = "zstd" /\ g_static_ctx
  /\ Goes(t, "failing")
  /\ Aside /\ UNCHANGED <<kit, failed>>

(* Without a codec blocks are copied, and the test cannot fail.            *)
comp_selftest(t) ==
  /\ worker[t] = "selftest"
  /\ Goes(t, "serve") \/ (g_codec # "none" /\ Goes(t, "failing"))
  /\ Aside /\ UNCHANGED <<kit, failed>>

(* A variant that frees the contexts of the other kind of library.         *)
FreedStatic == {"stream", "cws", "dws", "cstage", "cscratch", "host"}
                 \cup (IF g_static_ctx THEN {"cctx", "dctx"} ELSE {})

(* comp_ctx_fini and the rest of worker_fini.                              *)
Freed == {"stream", "cws", "dws", "cstage", "cscratch", "host"}
           \cup (IF Heap THEN {"cctx", "dctx"} ELSE {})

(* After a failure, or once the loop over connections has ended.           *)
worker_fini(t) ==
  /\ worker[t] \in {"failing", "serve"}
  /\ kit' = [kit EXCEPT ![t] = @ \ Freed]
  /\ failed' = (failed \/ worker[t] = "failing")
  /\ Goes(t, "done")
  /\ Aside

Main ==
  \/ load_libcuda \/ load_libcompress \/ cuInit \/ cuCtxCreate \/ cuMemAlloc
  \/ AllocFailed \/ ChooseSize \/ store_init \/ Listen \/ Spawn \/ Join \/ Cleanup

Work(t) ==
  worker_init(t) \/ ContextRefused(t) \/ comp_selftest(t) \/ worker_fini(t)

-----------------------------------------------------------------------------
(* Properties.                                                             *)

(* Nothing is taken away while something obtained from it remains: not the *)
(* driver under its context, the context under memory or a stream, a       *)
(* codec's library under a codec's context, nor the store and the socket   *)
(* under a worker that serves, whichever worker fails when (main's joins,  *)
(* the order of its cleanup, worker_fini).                                 *)
NeverUnderUse ==
  /\ "vram" \in held => "context" \in held
  /\ "context" \in held => "libcuda" \in held
  /\ \A t \in Threads :
       /\ kit[t] \cap {"stream", "cstage", "cscratch"} # {} => "context" \in held
       /\ kit[t] \cap {"cctx", "dctx"} # {} => "libcomp" \in held
       /\ worker[t] = "serve" =>
            {"vram", "index", "ext", "extbm", "listen_fd"} \subseteq held

(* A program that ends has given back all it obtained, at whichever step   *)
(* it failed and however far each worker had come.  Only one that ends     *)
(* before it has asked the driver for memory jumps past that cleanup, and  *)
(* may leave the libraries loaded (main's out_cuda and out, store_fini,    *)
(* worker_fini, comp_ctx_fini).                                            *)
NothingLeft ==
  /\ main = "exit" => held \subseteq {"libcuda", "libcomp"}
  /\ main = "exit" /\ g_vram_size # 0 => held = {}
  /\ \A t \in Threads : worker[t] = "done" => kit[t] = {}

(* Every slot that will ever be handed out has a number the index can      *)
(* hold, the extents are all of the memory, and the index has an entry for *)
(* every byte of the device, whatever was asked for and however much the   *)
(* driver gave; and where nothing is compressed, each block of the device  *)
(* has a slot of its own, so that filling it once is never refused for     *)
(* want of memory (main's check against ENT_GRAIN_BITS and its cap without *)
(* a codec, store_init).                                                   *)
SizesAgree ==
  main = "join" =>
    /\ g_n_extents * (EXTENT_SIZE \div ALLOC_GRAIN) <= 2^ENT_GRAIN_BITS
    /\ g_n_extents * EXTENT_SIZE = g_vram_size /\ g_n_extents # 0
    /\ g_nblocks * CBLK_SIZE = g_disk_size /\ g_nblocks # 0
    /\ g_codec = "none" => g_nblocks <= g_n_extents * (EXTENT_SIZE \div CBLK_SIZE)

=============================================================================

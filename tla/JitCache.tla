------------------------------ MODULE JitCache ------------------------------
(***************************************************************************)
(* The persistent JIT cache (upstream-discio-worker.js).  Blocks compiled  *)
(* by the core's pthreads are kept in IndexedDB, under a stamp that names  *)
(* the build they belong to.  loadCore reconciles the stamp with its       *)
(* build, loads rows into the worker's map, seeds the store from a         *)
(* prebuilt file, hands the map to the pthreads, fills in the rest, and    *)
(* waits at a fence for every pthread to acknowledge.  The tab may be      *)
(* closed at any point and opened again with another build.  loadCore does *)
(* not know of a load under way (see Session), so two may overlap: they    *)
(* share all but their pthreads and their progress.                        *)
(*                                                                         *)
(* A key is the hash of a block's bytes.  A row whose bytes do not match   *)
(* its key, or do not compile, is skipped: it may be any row if setup says *)
(* so.  IndexedDB is there, and the pool has at least one pthread.         *)
(***************************************************************************)
EXTENDS Integers, Sequences, FiniteSetsExt, Functions

CONSTANTS
  Keys,         \* blocks
  Builds,       \* builds of the core
  BootMax,      \* DOLPHIN_JIT_IDB_BOOT_LOAD_MAX (8192)
  CacheMax,     \* DOLPHIN_JIT_CACHE_MAX         (49152)
  Threshold,    \* DOLPHIN_JIT_PREWARM_THRESHOLD (50)
  Batch,        \* COMPILE_BATCH (64) and LAZY_BATCH (16)
  Threads,      \* pthreads of one core module
  Files,        \* what a build's prebuilt file may hold (<<>>: there is none)
  Setups,       \* scenarios: [loads, threads, sessions, compiles, fails]
  None

ASSUME JitCacheAssumption ==
  /\ Builds # {} /\ None \notin Builds \cup Keys \cup Nat
  /\ \A keys \in SUBSET Keys : keys # None
  /\ Files \subseteq UNION {Injection(1 .. n, Keys) : n \in 0 .. Cardinality(Keys)}
  /\ {BootMax, CacheMax, Threshold, Batch, Threads} \subseteq Nat \ {0}
  /\ Setups \subseteq
       [loads : 1 .. 2, threads : 1 .. Threads, sessions : Nat, compiles : Nat,
        fails : SUBSET {"store", "post"}]

VARIABLES
  setup,
  sessions, compiles,  \* bounds: tabs still to be opened, blocks to be compiled
  build, prebuilt,     \* this session's build, and the blocks in its prebuilt file
  store, stamp,        \* IndexedDB: the build that wrote each row; the metadata
  unclean,             \* history: a clear or a stamp has failed
  modules, reserved,   \* dolphinJitCacheMap: keys with a module, keys with null
  overflow,            \* dolphinJitPrebuiltOverflow
  bootDone,            \* dolphinJitBootLoadComplete
  load,                \* the calls of loadCore
  fill,                \* the lazy fill
  verifying, compiling,\* new blocks: identity being verified, being compiled
  writing, putting,    \* rows to write: being verified, handed to IndexedDB
  workers, runtime,    \* dolphinJitPthreadWorkers; the load last installed
  barrier, acks,       \* the fence, and the generation each pthread acknowledged
  thread,              \* pthreads: messages to and from, and their own cache
  listened, running,   \* those the worker listens to; PThread.runningWorkers
  shared               \* history: keys from the store and the file

disk == <<store, stamp, unclean>>
master == <<modules, reserved, overflow>>
async == <<verifying, compiling, writing, putting>>
fence == <<workers, runtime, barrier, acks>>
pthreads == <<thread, listened, running>>
given == <<setup, sessions, build, prebuilt>>
volatile == <<master, bootDone, load, fill, async, fence, pthreads, shared>>
vars == <<given, compiles, disk, volatile>>

Loads == 1 .. 2
Thread == Loads \X (1 .. Threads)
NoRows == [k \in Keys |-> None]
Cached == modules \cup reserved
Stored == {k \in Keys : store[k] # None}
Parts == {"fingerprint", "schema"}

(* Rows that may be unusable, and pthreads a post may fail to reach.        *)
Bad(rows) == IF "store" \in setup.fails THEN SUBSET rows ELSE {{}}
Unsent(to) == IF "post" \in setup.fails THEN SUBSET to ELSE {{}}
BatchesOf(s) == kSubset(Min({Batch, Cardinality(s)}), s)

NewLoad == [pc |-> "idle", rows |-> {}, todo |-> {}, pool |-> {}, fenced |-> FALSE]
NewFill == [at |-> "not-started", left |-> {}, writeBack |-> FALSE, failed |-> FALSE]
NewBarrier == [generation |-> 0, targets |-> {}, acked |-> 0,
               invalid |-> FALSE, postFailed |-> FALSE]
NewThread == [in |-> <<>>, out |-> <<>>, cache |-> None]

(* A fresh profile, or what a build has left there in an earlier life.  As *)
(* builds are alike, it does not matter which one is the first.            *)
Init ==
  /\ setup \in Setups /\ sessions = setup.sessions /\ compiles = setup.compiles
  /\ build = CHOOSE b \in Builds : TRUE
  /\ prebuilt \in Files
  /\ \E b \in Builds \cup {None} :
       /\ stamp = [fingerprint |-> b, schema |-> b # None]
       /\ store \in [Keys -> {None, b}]
  /\ unclean = FALSE
  /\ modules = {} /\ reserved = {} /\ overflow = {} /\ bootDone = FALSE
  /\ load = [l \in Loads |-> NewLoad] /\ fill = NewFill
  /\ verifying = {} /\ compiling = {} /\ writing = {} /\ putting = {}
  /\ workers = {} /\ runtime = 0
  /\ barrier = NewBarrier /\ acks = [t \in Thread |-> None]
  /\ thread = [t \in Thread |-> NewThread] /\ listened = {} /\ running = {}
  /\ shared = {}

-----------------------------------------------------------------------------
(* loadCore, up to the factory.                                            *)
Goes(l, pc) == load' = [load EXCEPT ![l].pc = pc]
At(l, pcs) == load[l].pc \in pcs

StartLoad(l) ==
  /\ l <= setup.loads /\ At(l, {"idle"}) /\ runtime = 0
  /\ \A m \in Loads : m < l => load[m].pc # "idle"
  /\ Goes(l, "fetching")
  /\ UNCHANGED <<given, compiles, disk, master, bootDone,
                 fill, async, fence, pthreads, shared>>

(* reconcileJitCacheWithBuild: classifyJitCacheIdentity ...                *)
Matches_Faulty == stamp.schema
Matches == stamp.fingerprint = build /\ stamp.schema
Reconcile(l) ==
  /\ At(l, {"fetching"})
  /\ bootDone' = FALSE
  /\ load' = [load EXCEPT ![l].pc = IF Matches THEN "stamp" ELSE "clear",
                          ![l].todo = Parts]
  /\ UNCHANGED <<given, compiles, disk, master,
                 fill, async, fence, pthreads, shared>>

(* ... clear what does not belong to this build; nobody looks whether that *)
(* worked ...                                                              *)
Clear(l) ==
  /\ At(l, {"clear"})
  /\ \/ store' = NoRows /\ UNCHANGED unclean
     \/ "store" \in setup.fails /\ store' = store /\ unclean' = TRUE
  /\ modules' = {} /\ reserved' = {} /\ overflow' = {} /\ shared' = {}
  /\ Goes(l, "stamp")
  /\ UNCHANGED <<given, compiles, stamp, bootDone,
                 fill, async, fence, pthreads>>

(* ... and stamp the store, in two transactions; after seeding again.      *)
Stamp(l, part) ==
  /\ At(l, {"stamp", "restamp"}) /\ part \in load[l].todo
  /\ At(l, {"restamp"}) /\ part = "schema" => "fingerprint" \notin load[l].todo
  /\ \/ stamp' = [stamp EXCEPT ![part] = IF part = "schema" THEN TRUE ELSE build]
        /\ UNCHANGED unclean
     \/ "store" \in setup.fails /\ UNCHANGED stamp /\ unclean' = TRUE
  /\ LET rest == load[l].todo \ {part}
         next == IF At(l, {"stamp"}) THEN "rows" ELSE "rerows"
     IN  load' = [load EXCEPT ![l].todo = rest,
                              ![l].pc = IF rest = {} THEN next ELSE @]
  /\ UNCHANGED <<given, compiles, store, master,
                 bootDone, fill, async, fence, pthreads, shared>>

(* loadDolphinJitCacheFromIdb: a cursor, which on error keeps what it has, *)
ReadRows(l) ==
  /\ At(l, {"rows", "rerows"})
  /\ \E lost \in Bad(Stored) :
       load' = [load EXCEPT ![l].rows = Stored \ lost,
                            ![l].pc = IF @ = "rows" THEN "boot" ELSE "reboot"]
  /\ UNCHANGED <<given, compiles, disk, master, bootDone,
                 fill, async, fence, pthreads, shared>>

(* and batches that are verified and compiled.                             *)
BootBatch(l) ==
  /\ At(l, {"boot", "reboot"}) /\ load[l].rows # {} /\ Cardinality(Cached) < BootMax
  /\ \E batch \in BatchesOf(load[l].rows) : \E lost \in Bad(batch) :
       /\ modules' = modules \cup ((batch \ lost) \ reserved)
       /\ shared' = shared \cup (batch \ lost)
       /\ load' = [load EXCEPT ![l].rows = @ \ batch]
  /\ UNCHANGED <<given, compiles, disk, reserved, overflow,
                 bootDone, fill, async, fence, pthreads>>

Booted(l) ==
  /\ At(l, {"boot", "reboot"}) /\ (load[l].rows = {} \/ Cardinality(Cached) >= BootMax)
  /\ load' = [load EXCEPT ![l].pc = IF @ = "boot" THEN "count" ELSE "factory",
                          ![l].rows = {}]
  /\ bootDone' = (bootDone \/ At(l, {"reboot"}))
  /\ UNCHANGED <<given, compiles, disk, master,
                 fill, async, fence, pthreads, shared>>

(* maybeSeedIdbFromPrebuiltCache: not if the store has rows enough, or     *)
(* there is no file for this build, or it cannot be fetched.  What exceeds *)
(* the boot load is kept for the lazy fill.                                *)
SkipSeed(l) ==
  /\ At(l, {"count"})
  /\ Goes(l, "factory") /\ bootDone' = TRUE
  /\ UNCHANGED <<given, compiles, disk, master,
                 fill, async, fence, pthreads, shared>>
StartSeed(l) ==
  /\ At(l, {"count"}) /\ (stamp.fingerprint # build \/ Cardinality(Stored) < Threshold)
  /\ prebuilt # <<>>
  /\ LET rest == Range(SubSeq(prebuilt, BootMax + 1, Len(prebuilt)))
     IN  /\ overflow' = IF rest = {} THEN overflow ELSE rest
         /\ load' = [load EXCEPT ![l].pc = "seed", ![l].rows = Range(prebuilt) \ rest]
  /\ UNCHANGED <<given, compiles, disk, modules, reserved,
                 bootDone, fill, async, fence, pthreads, shared>>

(* One transaction for all of it.                                          *)
Seeded(l) ==
  /\ At(l, {"seed"})
  /\ store' = [k \in Keys |-> IF k \in load[l].rows THEN build ELSE store[k]]
  /\ load' = [load EXCEPT ![l].pc = "restamp", ![l].todo = Parts, ![l].rows = {}]
  /\ UNCHANGED <<given, compiles, stamp, unclean, master,
                 bootDone, fill, async, fence, pthreads, shared>>
SeedFails(l) ==
  /\ "store" \in setup.fails /\ At(l, {"seed"})
  /\ load' = [load EXCEPT ![l].pc = "factory", ![l].rows = {}]
  /\ bootDone' = TRUE
  /\ UNCHANGED <<given, compiles, disk, master,
                 fill, async, fence, pthreads, shared>>

-----------------------------------------------------------------------------
(* The pthreads of a module.  A post to one may throw.                     *)
Posted(threads, to, message) ==
  [t \in Thread |-> IF t \in to THEN [threads[t] EXCEPT !.in = Append(@, message)]
                    ELSE threads[t]]

(* publishDolphinJitPthreadBarrier: a new generation, whatever the last    *)
(* one still waits for.                                                    *)
Publish(pool, threads, postFailed) ==
  \E lost \in Unsent(pool) :
    /\ barrier' = [generation |-> barrier.generation + 1, targets |-> pool, acked |-> 0,
                   invalid |-> FALSE, postFailed |-> postFailed \/ lost # {}]
    /\ thread' = Posted(threads, pool \ lost,
                        [type |-> "barrier", generation |-> barrier.generation + 1])

(* installDolphinPthreadChannels: the worker listens to the pthreads the   *)
(* pool has and sends them the map (null entries are misses there).  The   *)
(* lazy fill starts, with what the file had in excess, or else with a      *)
(* cursor; but it starts only once, and a second load is at its fence      *)
(* right away.                                                             *)
Install(l) ==
  /\ At(l, {"factory"})
  /\ \E size \in 1 .. setup.threads : LET pool == {l} \X (1 .. size) IN \E lost \in Unsent(pool) :
       LET sent == Posted(thread, pool \ lost, [type |-> "cache", keys |-> modules])
       IN  /\ workers' = pool /\ runtime' = l
           /\ listened' = listened \cup pool
           /\ load' = [load EXCEPT ![l].pool = pool,
                                   ![l].pc = IF fill.at = "not-started" THEN "fill" ELSE "wait"]
           /\ IF fill.at = "not-started"
              THEN thread' = sent /\ barrier' = [barrier EXCEPT !.postFailed = lost # {}]
              ELSE Publish(pool, sent, lost # {})
  /\ IF fill.at # "not-started" THEN UNCHANGED <<fill, overflow>>
     ELSE /\ overflow' = {}
          /\ fill' = IF overflow # {}
                     THEN [fill EXCEPT !.at = "running", !.left = overflow \ Cached,
                                       !.writeBack = TRUE]
                     ELSE [fill EXCEPT !.at = "cursor", !.left = Keys \ Cached]
  /\ UNCHANGED <<given, compiles, disk, modules, reserved, bootDone, async, acks, running,
                 shared>>

ScanRows(l) ==
  /\ At(l, {"fill"}) /\ fill.at = "cursor"
  /\ fill' = [fill EXCEPT !.at = "running", !.left = @ \cap Stored]
  /\ UNCHANGED <<given, compiles, disk, master, bootDone, load, async, fence, pthreads, shared>>

(* The fill is over: on to the fence, in the same task.                    *)
Fence(l, ended) ==
  /\ fill' = ended
  /\ Publish(load[l].pool, thread, barrier.postFailed)
  /\ Goes(l, "wait")
  /\ UNCHANGED <<given, compiles, disk, master, bootDone, async, workers, runtime, acks,
                 listened, running, shared>>
ScanFails(l) ==
  /\ "store" \in setup.fails /\ At(l, {"fill"}) /\ fill.at = "cursor"
  /\ Fence(l, [fill EXCEPT !.at = "incomplete", !.left = {}, !.failed = TRUE])

(* A batch: verified, compiled, and each module sent to the pthreads of    *)
(* whoever installed last; a block of the file is written to the store.    *)
FillBatch(l) ==
  /\ At(l, {"fill"}) /\ fill.at = "running"
  /\ fill.left # {} /\ Cardinality(Cached) < CacheMax
  /\ \E batch \in BatchesOf(fill.left) : \E lost \in Bad(batch), unsent \in Unsent(workers) :
       LET good == batch \ lost
       IN  /\ modules' = modules \cup good /\ reserved' = reserved \ good
           /\ shared' = shared \cup good
           /\ thread' = IF good = {} THEN thread
                        ELSE Posted(thread, workers \ unsent, [type |-> "add", keys |-> good])
           /\ writing' = IF fill.writeBack THEN writing \cup good ELSE writing
           /\ fill' = [fill EXCEPT !.left = @ \ batch,
                         !.failed = @ \/ lost # {} \/ (good # {} /\ unsent # {})]
  /\ UNCHANGED <<given, compiles, disk, overflow, bootDone, load,
                 verifying, compiling, putting, fence, listened, running>>

EndFill(l) ==
  /\ At(l, {"fill"}) /\ fill.at = "running"
  /\ fill.left = {} \/ Cardinality(Cached) >= CacheMax
  /\ Fence(l, [fill EXCEPT !.left = {},
              !.at = IF fill.left = {} /\ ~fill.failed THEN "complete" ELSE "incomplete"])

(* waitForDolphinJitPthreadBarrier looks every 10 ms, for 30 s; the load   *)
(* goes on either way.                                                     *)
Polled(l) ==
  /\ At(l, {"wait"})
  /\ barrier.postFailed \/ barrier.acked = Cardinality(barrier.targets)
  /\ load' = [load EXCEPT ![l].pc = "loaded", ![l].fenced = ~barrier.postFailed]
  /\ UNCHANGED <<given, compiles, disk, master, bootDone, fill,
                 async, fence, pthreads, shared>>
TimesOut_Faulty(l) == FALSE /\ UNCHANGED vars
TimesOut(l) ==
  /\ At(l, {"wait"})
  /\ Goes(l, "loaded")
  /\ UNCHANGED <<given, compiles, disk, master, bootDone, fill,
                 async, fence, pthreads, shared>>

(* A pthread handles a message (jit-cache-prejs.js).                       *)
Said(t, message) == IF t \in listened THEN Append(thread[t].out, message) ELSE thread[t].out
Receive(t) ==
  /\ thread[t].in # <<>>
  /\ LET th == thread[t]
         m == Head(th.in)
         rest == [th EXCEPT !.in = Tail(th.in)]
         added == IF th.cache = None THEN None ELSE th.cache \cup m.keys
         ack == [type |-> "ack", generation |-> m.generation, installed |-> th.cache # None]
     IN  thread' = [thread EXCEPT ![t] =
           CASE m.type = "cache" -> [rest EXCEPT !.cache = m.keys]
             [] m.type = "add" -> [rest EXCEPT !.cache = added]
             [] m.type = "barrier" -> [rest EXCEPT !.out = Said(t, ack)]]
  /\ UNCHANGED <<given, compiles, disk, master, bootDone, load,
                 fill, async, fence, listened, running, shared>>

(* A pthread is given work: one of the pool, or a new one that no load has *)
(* listened to.                                                            *)
Run(t) ==
  /\ t \notin running /\ t[2] <= setup.threads /\ load[t[1]].pool # {}
  /\ running' = running \cup {t}
  /\ UNCHANGED <<given, compiles, disk, master, bootDone, load,
                 fill, async, fence, thread, listened, shared>>

(* A running game compiles a block that its pthread's cache does not have. *)
Miss(t, k) ==
  /\ compiles > 0 /\ t \in running /\ At(t[1], {"loaded"})
  /\ thread[t].cache # None /\ k \notin thread[t].cache
  /\ compiles' = compiles - 1
  /\ thread' = [thread EXCEPT ![t].cache = @ \cup {k},
                              ![t].out = Said(t, [type |-> "new-compile", key |-> k])]
  /\ UNCHANGED <<given, disk, master, bootDone, load, fill,
                 async, fence, listened, running, shared>>

-----------------------------------------------------------------------------
(* The worker hears a pthread.  handleDolphinJitPthreadBarrierAck:         *)
Counts_Faulty(t, m) == acks[t] # m.generation
Counts(t, m) == m.generation = barrier.generation /\ acks[t] # m.generation
Hears(t, type) ==
  /\ thread[t].out # <<>> /\ Head(thread[t].out).type = type
  /\ thread' = [thread EXCEPT ![t].out = Tail(@)]

HandleAck(t) ==
  /\ Hears(t, "ack")
  /\ LET m == Head(thread[t].out)
     IN  IF ~Counts(t, m) THEN UNCHANGED <<barrier, acks>>
         ELSE IF ~m.installed
         THEN barrier' = [barrier EXCEPT !.invalid = TRUE] /\ UNCHANGED acks
         ELSE /\ acks' = [acks EXCEPT ![t] = m.generation]
              /\ barrier' = [barrier EXCEPT !.acked = @ + 1]
  /\ UNCHANGED <<given, compiles, disk, master, bootDone, load,
                 fill, async, workers, runtime, listened, running, shared>>

(* handleDolphinJitNewCompile: verify the block's identity first ...       *)
HandleNewCompile(t) ==
  /\ Hears(t, "new-compile")
  /\ LET k == Head(thread[t].out).key
     IN  verifying' = IF k \in Cached \/ Cardinality(Cached) >= CacheMax
                      THEN verifying ELSE verifying \cup {k}
  /\ UNCHANGED <<given, compiles, disk, master, bootDone, load,
                 fill, compiling, writing, putting, fence, listened, running, shared>>

(* ... then, unless the key has come meanwhile, reserve it, write the row  *)
(* and compile.                                                            *)
IsNew_Faulty(k) == TRUE
IsNew(k) == k \notin Cached
Verified(k) ==
  /\ k \in verifying /\ verifying' = verifying \ {k}
  /\ IF IsNew(k)
     THEN /\ reserved' = reserved \cup {k}
          /\ writing' = writing \cup {k} /\ compiling' = compiling \cup {k}
     ELSE UNCHANGED <<reserved, writing, compiling>>
  /\ UNCHANGED <<given, compiles, disk, modules, overflow, bootDone,
                 load, fill, putting, fence, pthreads, shared>>
Compiled(k) ==
  /\ k \in compiling /\ compiling' = compiling \ {k}
  /\ reserved' = reserved \ {k}
  /\ \/ modules' = modules \cup {k}
     \/ "store" \in setup.fails /\ modules' = modules \ {k}
  /\ UNCHANGED <<given, compiles, disk, overflow, bootDone, load,
                 fill, verifying, writing, putting, fence, pthreads, shared>>

(* writeDolphinJitEntryToIdb verifies too, and only then counts the write. *)
StartPut(k) ==
  /\ k \in writing /\ writing' = writing \ {k}
  /\ \/ putting' = putting \cup {k}
     \/ "store" \in setup.fails /\ UNCHANGED putting
  /\ UNCHANGED <<given, compiles, disk, master, bootDone, load,
                 fill, verifying, compiling, fence, pthreads, shared>>
Put(k) ==
  /\ k \in putting /\ putting' = putting \ {k}
  /\ \/ store' = [store EXCEPT ![k] = build]
     \/ "store" \in setup.fails /\ UNCHANGED store
  /\ UNCHANGED <<given, compiles, stamp, unclean, master, bootDone,
                 load, fill, verifying, compiling, writing, fence, pthreads, shared>>

(* The tab is closed: transactions under way are gone.  The next one may   *)
(* find another build.                                                     *)
CloseTab ==
  /\ sessions > 0 /\ sessions' = sessions - 1
  /\ build' \in Builds /\ prebuilt' \in Files
  /\ modules' = {} /\ reserved' = {} /\ overflow' = {} /\ bootDone' = FALSE
  /\ load' = [l \in Loads |-> NewLoad] /\ fill' = NewFill
  /\ verifying' = {} /\ compiling' = {} /\ writing' = {} /\ putting' = {}
  /\ workers' = {} /\ runtime' = 0
  /\ barrier' = NewBarrier /\ acks' = [t \in Thread |-> None]
  /\ thread' = [t \in Thread |-> NewThread] /\ listened' = {} /\ running' = {}
  /\ shared' = {}
  /\ UNCHANGED <<setup, compiles, disk>>

-----------------------------------------------------------------------------
LoadStep(l) ==
  \/ Reconcile(l) \/ Clear(l) \/ (\E part \in Parts : Stamp(l, part))
  \/ ReadRows(l) \/ BootBatch(l) \/ Booted(l)
  \/ SkipSeed(l) \/ StartSeed(l) \/ Seeded(l) \/ SeedFails(l)
  \/ Install(l) \/ ScanRows(l) \/ ScanFails(l) \/ FillBatch(l) \/ EndFill(l)
  \/ Polled(l) \/ TimesOut(l)
BlockStep(k) == Verified(k) \/ Compiled(k) \/ StartPut(k) \/ Put(k)
ThreadStep(t) ==
  \/ Receive(t) \/ Run(t) \/ HandleAck(t) \/ HandleNewCompile(t)
  \/ \E k \in Keys : Miss(t, k)

Next ==
  \/ \E l \in Loads : StartLoad(l) \/ LoadStep(l)
  \/ \E k \in Keys : BlockStep(k)
  \/ \E t \in Thread : ThreadStep(t)
  \/ CloseTab

(* Promises of the browser settle and timers fire.  A pthread that runs    *)
(* the game may never look at its messages.                                *)
Fairness ==
  /\ \A l \in Loads : WF_vars(LoadStep(l))
  /\ \A k \in Keys : WF_vars(Verified(k)) /\ WF_vars(Compiled(k))

Spec == Init /\ [][Next]_vars /\ Fairness

-----------------------------------------------------------------------------
Message == [type : {"cache", "add"}, keys : SUBSET Keys]
           \cup [type : {"barrier"}, generation : Nat]
Answer == [type : {"ack"}, generation : Nat, installed : BOOLEAN]
          \cup [type : {"new-compile"}, key : Keys]
Pcs == {"idle", "fetching", "clear", "stamp", "rows", "boot", "count", "seed", "restamp",
        "rerows", "reboot", "factory", "fill", "wait", "loaded"}

(* Types.  Besides: a reserved key is being compiled and has no module     *)
(* yet, and a fill runs exactly while the load that started it waits.      *)
TypeOK ==
  /\ setup \in Setups /\ build \in Builds /\ prebuilt \in Files
  /\ store \in [Keys -> Builds \cup {None}]
  /\ stamp \in [fingerprint : Builds \cup {None}, schema : BOOLEAN]
  /\ {unclean, bootDone} \subseteq BOOLEAN
  /\ modules \cap reserved = {} /\ reserved \subseteq compiling
  /\ UNION {modules, overflow, verifying, compiling, writing, putting, shared} \subseteq Keys
  /\ load \in [Loads -> [pc : Pcs, rows : SUBSET Keys, todo : SUBSET Parts,
                         pool : SUBSET Thread, fenced : BOOLEAN]]
  /\ fill \in [at : {"not-started", "cursor", "running", "complete", "incomplete"},
               left : SUBSET Keys, writeBack : BOOLEAN, failed : BOOLEAN]
  /\ fill.at \in {"cursor", "running"} <=> \E l \in Loads : At(l, {"fill"})
  /\ UNION {workers, listened, running} \subseteq Thread /\ runtime \in 0 .. 2
  /\ barrier \in [generation : Nat, targets : SUBSET Thread, acked : Nat,
                  invalid : BOOLEAN, postFailed : BOOLEAN]
  /\ acks \in [Thread -> (1 .. barrier.generation) \cup {None}]
  /\ thread \in [Thread -> [in : Seq(Message), out : Seq(Answer),
                            cache : (SUBSET Keys) \cup {None}]]

(* What validationReadJitCacheReadiness reports and                        *)
(* evaluateJitCacheReadiness makes of it.                                  *)
Required == {t \in running : t[1] = runtime}
Acknowledged_Faulty == barrier.acked = Cardinality(barrier.targets)
Acknowledged == \A t \in Required : acks[t] = barrier.generation
Ready ==
  /\ bootDone /\ fill.at = "complete" /\ ~fill.failed
  /\ verifying = {} /\ compiling = {} /\ putting = {}
  /\ workers # {} /\ Required # {} /\ Acknowledged
  /\ ~barrier.postFailed /\ ~barrier.invalid

(* When the cache is reported ready, every running pthread of the core has *)
(* every block that came from the store or the file, whatever posts failed *)
(* and pthreads were added.  (Not if loads overlap: one may be installed   *)
(* and filled before the other takes its rows from the store.)             *)
ReadyMeansDelivered ==
  Ready /\ setup.loads = 1 =>
    \A t \in Required : thread[t].cache # None /\ shared \subseteq thread[t].cache

(* "JIT cache readiness fails closed until all asynchronous work is        *)
(* complete" (tests/jit-cache-benchmark-readiness.test.mjs).               *)
ReadyMeansAtRest == Ready => writing = {} /\ verifying = {} /\ compiling = {} /\ putting = {}

(* Rows are never taken for another build's: whenever the tab was closed,  *)
(* while clearing, stamping, seeding or writing, a store with both parts   *)
(* of a stamp has rows of that build only, unless the code has overlooked  *)
(* that a clear or a stamp failed.                                         *)
StampedStoreIsCurrent ==
  ~unclean /\ stamp.schema /\ stamp.fingerprint # None =>
    \A k \in Stored : store[k] = stamp.fingerprint

(* A fence that reports completion was passed by every pthread it was      *)
(* published to: acknowledgements of an earlier fence do not count.        *)
FenceMeansInstalled ==
  [][\A l \in Loads : ~load[l].fenced /\ load'[l].fenced =>
       \A t \in barrier.targets :
         /\ thread[t].cache # None
         /\ \A i \in 1 .. Len(thread[t].in) :
              thread[t].in[i] # [type |-> "barrier", generation |-> barrier.generation]]_vars

(* A load always ends, even if no pthread ever answers, and no key stays   *)
(* reserved: later compilations of it would be dropped.                    *)
LoadsEnd == []<>(reserved = {} /\ \A l \in Loads : At(l, {"idle", "loaded"}))
=============================================================================

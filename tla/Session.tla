------------------------------- MODULE Session -------------------------------
(***************************************************************************)
(* How a disc reaches a running core: the page (app.js, core-host.js), the *)
(* worker adapter with its table of pending requests, the two message      *)
(* queues, the worker's handlers (async, started in the order of the       *)
(* messages but overlapping wherever they await) and the core behind       *)
(* them.  A worker can create more than one core module: each has its own  *)
(* file system, DiscIO volume and running game.                            *)
(***************************************************************************)
EXTENDS Integers, FiniteSets, Sequences

CONSTANTS
  Discs,        \* the disc images the user can open
  Readable,     \* those DiscIO accepts
  FullSize,     \* those of MIN_FULL_BOOT_BYTES and more, which are booted
  None,         \* no disc
  MaxMounts,    \* how often the user opens a disc
  MaxClicks,    \* clicks on pause, run and reset
  MaxPolls,     \* telemetry polls
  MaxProgress,  \* how far a game is followed
  Setups        \* what may happen besides: "overlap", a disc is opened while another
                \* one is being mounted; "trouble", loads fail and the worker reports an
                \* error; "refusal", the browser refuses to transfer the canvas, or an
                \* error names it; "clicks"; "polls"; "progress", games are followed

ASSUME SessionAssumption ==
  /\ Readable \subseteq Discs /\ FullSize \subseteq Discs /\ None \notin Discs
  /\ {MaxMounts, MaxClicks, MaxPolls, MaxProgress} \subseteq Nat
  /\ Setups \subseteq SUBSET {"overlap", "trouble", "refusal", "clicks", "polls", "progress"}

VARIABLES
  mounts,    \* the page's mountFile calls: [disc, at]
  host,      \* CoreHost: [mode, running, game], game being this.game.gameId
  adapter,   \* UpstreamWorkerAdapter: [loaded, pending, nextId, framePending]
  toWorker, toHost,  \* messages under way, oldest first
  worker,    \* [module, created, mounted, loads]
  cores,     \* the core modules created so far
  budget     \* what the user and the environment may still do; may: one of Setups

vars == <<mounts, host, adapter, toWorker, toHost, worker, cores, budget>>

Mounts == 1..MaxMounts
Modules == 1..MaxMounts
Ids == 1..(3 * MaxMounts + 2 * MaxClicks + MaxPolls + MaxMounts)
Types == {"load", "mountFile", "runFrame", "start", "pause", "reset"}
Loading == {"loading", "reloading"}
Waiting == {"probing", "retrying", "mounting", "starting"} \cup Loading
May(what) == what \in budget.may
ErrorEvents == IF May("trouble") THEN 1 ELSE 0

(* A request: the page's mountFile call that awaits it (0: none) and, for  *)
(* mountFile, the disc it carries.  A load is awaited while it is pending, *)
(* unless its message was never sent (OrphanLoad).                         *)
Request == [id: Ids, type: Types, mount: 0..MaxMounts, disc: Discs \cup {None}]
Reply == [id: Ids, ok: BOOLEAN, disc: Discs \cup {None}]

(* A module right after the factory: nothing mounted, not yet configured.  *)
NewCore == [ready |-> FALSE, fs |-> None, volume |-> None, game |-> None, paused |-> FALSE,
            progress |-> 0]

TypeOK ==
  /\ mounts \in [Mounts -> [disc: Discs \cup {None}, at: {"idle", "done"} \cup Waiting]]
  /\ host \in [mode: {"demo", "dolphin"}, running: BOOLEAN, game: Discs \cup {None}]
  /\ adapter \in [loaded: BOOLEAN, pending: SUBSET Request, nextId: Ids \cup {Cardinality(Ids) + 1},
                  framePending: BOOLEAN]
  /\ toWorker \in Seq(Request) /\ toHost \in Seq(Reply)
  /\ worker \in [module: 0..MaxMounts, created: 0..MaxMounts, mounted: BOOLEAN,
                 loads: SUBSET [id: Ids, at: {"fetching", "installing"}]]
  /\ cores \in Seq([ready: BOOLEAN, fs: Discs \cup {None}, volume: Discs \cup {None},
                    game: Discs \cup {None}, paused: BOOLEAN, progress: 0..MaxProgress])
  /\ budget \in [clicks: 0..MaxClicks, polls: 0..MaxPolls, errors: 0..1, may: Setups]

Init ==
  /\ mounts = [m \in Mounts |-> [disc |-> None, at |-> "idle"]]
  /\ host = [mode |-> "demo", running |-> TRUE, game |-> None]
  /\ adapter = [loaded |-> FALSE, pending |-> {}, nextId |-> 1, framePending |-> FALSE]
  /\ toWorker = <<>> /\ toHost = <<>>
  /\ worker = [module |-> 0, created |-> 0, mounted |-> FALSE, loads |-> {}]
  /\ cores = <<>>
  /\ \E setup \in Setups :
       budget = [clicks |-> IF "clicks" \in setup THEN MaxClicks ELSE 0,
                 polls |-> IF "polls" \in setup THEN MaxPolls ELSE 0,
                 errors |-> IF "trouble" \in setup THEN 1 ELSE 0, may |-> setup]

-----------------------------------------------------------------------------
(* The adapter's requests.                                                 *)

(* request(): a fresh id, an entry in pending, a message to the worker.    *)
Send(a, type, mount, disc) ==
  LET r == [id |-> a.nextId, type |-> type, mount |-> mount, disc |-> disc]
  IN  /\ adapter' = [a EXCEPT !.pending = @ \cup {r}, !.nextId = @ + 1]
      /\ toWorker' = Append(toWorker, r)

(* request() enters the request before it posts the message.  If posting   *)
(* throws, the promise is rejected and the entry stays: nobody awaits it,  *)
(* and no message will ever bring an answer.                               *)
OrphanLoad(id) == [id |-> id, type |-> "load", mount |-> 0, disc |-> None]
IsOrphan(r) == r.type = "load" /\ r.mount = 0

(* start(), pause(), reset(): nothing before the core is loaded.           *)
Command(type) ==
  IF adapter.loaded THEN Send(adapter, type, 0, None) ELSE UNCHANGED <<adapter, toWorker>>

(* mountGame: load() returns at once when the core is loaded, else it      *)
(* posts a load request, whether or not one is already under way.          *)
LoadThenMount(a, m, d) ==
  IF a.loaded
  THEN /\ Send(a, "mountFile", m, d)
       /\ mounts' = [mounts EXCEPT ![m].at = "mounting"]
  ELSE /\ Send(a, "load", m, None)
       /\ mounts' = [mounts EXCEPT ![m].at = "loading"]

AfterFailure_Faulty == host

(* core-host's catch: a mount that failed falls back to the demo core.     *)
AfterFailure == [host EXCEPT !.mode = "demo"]

(* A mount's load is rejected: load() sends it once more if the error's    *)
(* message names the canvas, else the mount has failed.                    *)
LoadRejected(m, again) ==
  /\ again => May("refusal") /\ mounts[m].at # "reloading"
  /\ mounts' = [mounts EXCEPT ![m].at = IF again THEN "retrying" ELSE "starting"]
  /\ host' = IF again THEN host ELSE AfterFailure

-----------------------------------------------------------------------------
(* The page.                                                               *)

(* A disc is opened or dropped: mountFile forgets the last game's identity *)
(* and looks (a fetch) whether the core's bundle is there.                 *)
OpenDisc(m, d) ==
  /\ mounts[m].at = "idle"
  /\ \A k \in Mounts : k < m => mounts[k].at # "idle"
  /\ May("overlap") \/ \A k \in Mounts : mounts[k].at \notin Waiting
  /\ mounts' = [mounts EXCEPT ![m] = [disc |-> d, at |-> "probing"]]
  /\ host' = [host EXCEPT !.game = None]
  /\ UNCHANGED <<adapter, toWorker, toHost, worker, cores, budget>>

(* The bundle is there: on to the adapter.                                 *)
Probed(m) ==
  /\ mounts[m].at = "probing"
  /\ LoadThenMount(adapter, m, mounts[m].disc)
  /\ UNCHANGED <<host, toHost, worker, cores, budget>>

(* The first request of all is a load that takes the canvas along.  The    *)
(* browser may refuse to transfer it, and postMessage throws.              *)
RefuseCanvas(m) ==
  /\ mounts[m].at = "probing" /\ May("refusal")
  /\ ~adapter.loaded /\ adapter.nextId = 1
  /\ adapter' = [adapter EXCEPT !.pending = @ \cup {OrphanLoad(1)}, !.nextId = 2]
  /\ \E again \in BOOLEAN : LoadRejected(m, again)
  /\ UNCHANGED <<toWorker, toHost, worker, cores, budget>>

(* load()'s catch sends the load again, without a canvas.                  *)
LoadAgain(m) ==
  /\ mounts[m].at = "retrying"
  /\ Send(adapter, "load", m, None)
  /\ mounts' = [mounts EXCEPT ![m].at = "reloading"]
  /\ UNCHANGED <<host, toHost, worker, cores, budget>>

(* app.js calls host.start() when host.mountFile is through, however that  *)
(* ended; it does nothing while the page's loop runs.                      *)
StartAfterMount(m) ==
  /\ mounts[m].at = "starting"
  /\ mounts' = [mounts EXCEPT ![m].at = "done"]
  /\ host' = [host EXCEPT !.running = TRUE]
  /\ IF host.running THEN UNCHANGED <<adapter, toWorker>> ELSE Command("start")
  /\ UNCHANGED <<toHost, worker, cores, budget>>

(* The run button pauses a running page and starts a paused one.           *)
ClickRun ==
  /\ budget.clicks > 0
  /\ budget' = [budget EXCEPT !.clicks = @ - 1]
  /\ host' = [host EXCEPT !.running = ~@]
  /\ Command(IF host.running THEN "pause" ELSE "start")
  /\ UNCHANGED <<mounts, toHost, worker, cores>>

ClickReset ==
  /\ budget.clicks > 0 /\ adapter.loaded
  /\ budget' = [budget EXCEPT !.clicks = @ - 1]
  /\ Command("reset")
  /\ UNCHANGED <<mounts, host, toHost, worker, cores>>

(* The page's loop asks for a frame, one request at a time.                *)
PollFrame ==
  /\ budget.polls > 0
  /\ host.running /\ host.mode = "dolphin"
  /\ adapter.loaded /\ ~adapter.framePending
  /\ budget' = [budget EXCEPT !.polls = @ - 1]
  /\ Send([adapter EXCEPT !.framePending = TRUE], "runFrame", 0, None)
  /\ UNCHANGED <<mounts, host, toHost, worker, cores>>

-----------------------------------------------------------------------------
(* The worker.                                                             *)

Current == cores[worker.module]
OnCurrent(core) == cores' = [cores EXCEPT ![worker.module] = core]

Answer(id, ok, disc) == toHost' = Append(toHost, [id |-> id, ok |-> ok, disc |-> disc])

Receives(type) == /\ toWorker # <<>> /\ Head(toWorker).type = type
                  /\ toWorker' = Tail(toWorker)
                  /\ UNCHANGED <<mounts, host, adapter, budget>>

LoadCore_Faulty(id) ==
  /\ worker' = [worker EXCEPT !.loads = @ \cup {[id |-> id, at |-> "fetching"]}]
  /\ UNCHANGED <<toHost, cores>>

LoadCore_Unawaited(id) ==
  IF worker.module # 0
  THEN Answer(id, TRUE, None) /\ UNCHANGED <<worker, cores>>
  ELSE /\ worker' = [worker EXCEPT !.loads = @ \cup {[id |-> id, at |-> "fetching"]}]
       /\ Answer(id, TRUE, None)
       /\ UNCHANGED cores

(* loadCore answers at once when there is a module, else it goes to fetch  *)
(* one: there is no record of a load that is under way.                    *)
LoadCore(id) ==
  IF worker.module # 0
  THEN Answer(id, TRUE, None) /\ UNCHANGED <<worker, cores>>
  ELSE /\ worker' = [worker EXCEPT !.loads = @ \cup {[id |-> id, at |-> "fetching"]}]
       /\ UNCHANGED <<toHost, cores>>

ServeLoad == Receives("load") /\ LoadCore(Head(toWorker).id)

(* The factory's promise resolves: moduleInstance and api are this module  *)
(* from now on, and the pthread channels are being installed.              *)
CreateModule(l) ==
  /\ l \in worker.loads /\ l.at = "fetching"
  /\ worker' = [worker EXCEPT !.created = @ + 1, !.module = worker.created + 1,
                              !.loads = (@ \ {l}) \cup {[l EXCEPT !.at = "installing"]}]
  /\ cores' = Append(cores, NewCore)
  /\ UNCHANGED <<mounts, host, adapter, toWorker, toHost, budget>>

(* The channels are installed: the rest of loadCore configures the core    *)
(* that api names by now and starts its loops.                             *)
FinishLoad(l) ==
  /\ l \in worker.loads /\ l.at = "installing"
  /\ worker' = [worker EXCEPT !.loads = @ \ {l}]
  /\ OnCurrent([Current EXCEPT !.ready = TRUE])
  /\ Answer(l.id, TRUE, None)
  /\ UNCHANGED <<mounts, host, adapter, toWorker, budget>>

(* The fetch, the hash, the import or the factory fails, or, with a module *)
(* there already, a check before the channels are installed, installing    *)
(* them, or a check after it.  The module stays, and nobody goes on        *)
(* configuring it.                                                         *)
FailLoad(l) ==
  /\ May("trouble")
  /\ l \in worker.loads
  /\ worker' = [worker EXCEPT !.loads = @ \ {l}]
  /\ Answer(l.id, FALSE, None)
  /\ UNCHANGED <<mounts, host, adapter, toWorker, cores, budget>>

(* fs.unmount of what this worker thinks is mounted, then fs.mount: each   *)
(* throws when the module's file system does not agree.                    *)
CanRemount == worker.mounted <=> Current.fs # None

MarkMounted_Faulty(d) == [worker EXCEPT !.mounted = d \in Readable]

(* What mountFile leaves in the worker once the file system is mounted.    *)
MarkMounted(d) == [worker EXCEPT !.mounted = TRUE]

Boot_Faulty(core, d, accepted) ==
  [core EXCEPT !.game = accepted, !.paused = FALSE, !.progress = 0]

(* BootDisc stops a running game and may still refuse the new one.         *)
Boot(core, d, accepted) ==
  [core EXCEPT !.game = IF accepted THEN d ELSE None, !.paused = FALSE, !.progress = 0]

(* mountFile: file system, DiscIO volume, boot, in one go.  A disc that is *)
(* too small is not booted and leaves the running game alone; so does one  *)
(* DiscIO refuses.                                                         *)
MountFile(id, d) ==
  IF worker.module = 0 \/ ~CanRemount
  THEN Answer(id, FALSE, None) /\ UNCHANGED <<worker, cores>>
  ELSE LET disc == [Current EXCEPT !.fs = d, !.volume = IF d \in Readable THEN d ELSE None]
       IN /\ worker' = MarkMounted(d)
          /\ Answer(id, d \in Readable, disc.volume)
          /\ IF d \in Readable \cap FullSize
             THEN \E accepted \in BOOLEAN : OnCurrent(Boot(disc, d, accepted))
             ELSE OnCurrent(disc)

ServeMount == Receives("mountFile") /\ MountFile(Head(toWorker).id, Head(toWorker).disc)

(* A reset clears DiscIO's frame counter and restores the buttons, a frame *)
(* request reads the counters: neither touches the running game.           *)
ServeFrame ==
  \E type \in {"runFrame", "reset"} :
    /\ Receives(type)
    /\ Answer(Head(toWorker).id, TRUE, None)
    /\ UNCHANGED <<worker, cores>>

(* The switch of handleMessage has no case for start and pause: the        *)
(* default throws, and the listener answers with the error.                *)
ServeUnknown ==
  \E type \in {"start", "pause"} :
    /\ Receives(type)
    /\ Answer(Head(toWorker).id, FALSE, None)
    /\ UNCHANGED <<worker, cores>>

(* The game runs, on its own threads, unless it is paused.                 *)
Emulate(c) ==
  /\ c \in DOMAIN cores
  /\ May("progress") /\ cores[c].progress < MaxProgress
  /\ cores[c].game # None /\ ~cores[c].paused
  /\ cores' = [cores EXCEPT ![c].progress = @ + 1]
  /\ UNCHANGED <<mounts, host, adapter, toWorker, toHost, worker, budget>>

-----------------------------------------------------------------------------
(* Back on the page.                                                       *)

(* What the promise of request r resolves or rejects with does.            *)
Settle(a, r, reply) ==
  CASE r.type = "load" /\ reply.ok ->
         /\ LoadThenMount([a EXCEPT !.loaded = TRUE], r.mount, mounts[r.mount].disc)
         /\ UNCHANGED host
    [] r.type = "mountFile" /\ reply.ok ->
         /\ host' = [host EXCEPT !.mode = "dolphin", !.game = reply.disc]
         /\ mounts' = [mounts EXCEPT ![r.mount].at = "starting"]
         /\ adapter' = a /\ UNCHANGED toWorker
    [] r.type = "load" /\ ~reply.ok ->
         /\ \E again \in BOOLEAN : LoadRejected(r.mount, again)
         /\ adapter' = a /\ UNCHANGED toWorker
    [] r.type = "mountFile" /\ ~reply.ok ->
         /\ host' = AfterFailure
         /\ mounts' = [mounts EXCEPT ![r.mount].at = "starting"]
         /\ adapter' = a /\ UNCHANGED toWorker
    [] OTHER ->
         /\ adapter' = [a EXCEPT !.framePending = @ /\ r.type # "runFrame"]
         /\ UNCHANGED <<host, mounts, toWorker>>

(* A reply settles the request it names and is dropped if none is pending. *)
Deliver ==
  /\ toHost # <<>>
  /\ toHost' = Tail(toHost)
  /\ LET known == {r \in adapter.pending : r.id = Head(toHost).id}
     IN  IF known = {}
         THEN UNCHANGED <<mounts, host, adapter, toWorker>>
         ELSE \E r \in known :
                Settle([adapter EXCEPT !.pending = @ \ {r}], r, Head(toHost))
  /\ UNCHANGED <<worker, cores, budget>>

RejectAll_Faulty ==
  /\ adapter' = [adapter EXCEPT !.pending = {}, !.framePending = FALSE]
  /\ UNCHANGED <<host, mounts>>

(* rejectAll: every pending promise is rejected, with the same message,    *)
(* and the table cleared; the worker goes on with what it was doing.       *)
RejectAll ==
  \E again \in BOOLEAN :
    LET retried == {m \in Mounts : again /\ mounts[m].at = "loading"}
        failed == {m \in Mounts : mounts[m].at \in Loading \cup {"mounting"}} \ retried
    IN  /\ again => May("refusal")
        /\ adapter' = [adapter EXCEPT !.pending = {}, !.framePending = FALSE]
        /\ host' = IF failed = {} THEN host ELSE AfterFailure
        /\ mounts' = [m \in Mounts |->
                        CASE m \in retried -> [mounts[m] EXCEPT !.at = "retrying"]
                          [] m \in failed -> [mounts[m] EXCEPT !.at = "starting"]
                          [] OTHER -> mounts[m]]

(* An exception nobody caught, in the worker or in one of the core's       *)
(* pthreads, raises the worker's error event.                              *)
WorkerError ==
  /\ budget.errors > 0 /\ worker.module # 0
  /\ budget' = [budget EXCEPT !.errors = @ - 1]
  /\ RejectAll
  /\ UNCHANGED <<toWorker, toHost, worker, cores>>

-----------------------------------------------------------------------------
LoadStep == \E l \in worker.loads : CreateModule(l) \/ FinishLoad(l) \/ FailLoad(l)
Serve == ServeLoad \/ ServeMount \/ ServeFrame \/ ServeUnknown
PageStep ==
  \E m \in Mounts : Probed(m) \/ RefuseCanvas(m) \/ LoadAgain(m) \/ StartAfterMount(m)

Next ==
  \/ \E m \in Mounts, d \in Discs : OpenDisc(m, d)
  \/ PageStep \/ ClickRun \/ ClickReset \/ PollFrame
  \/ Serve \/ LoadStep \/ Deliver \/ WorkerError
  \/ \E c \in 1..Len(cores) : Emulate(c)

(* Both event loops serve their messages, and promises that do not depend  *)
(* on the other side (fetches, the factory, the channels) resolve.         *)
Fairness ==
  /\ WF_vars(Serve) /\ WF_vars(Deliver)
  /\ \A m \in Mounts : /\ WF_vars(Probed(m) \/ RefuseCanvas(m)) /\ WF_vars(LoadAgain(m))
                        /\ WF_vars(StartAfterMount(m))
  /\ \A i \in Ids : WF_vars(\E l \in worker.loads : l.id = i /\
                              (CreateModule(l) \/ FinishLoad(l) \/ FailLoad(l)))

Spec == Init /\ [][Next]_vars
FairSpec == Spec /\ Fairness

-----------------------------------------------------------------------------
(* Properties.                                                             *)

(* As long as discs are opened one at a time, the worker never creates a   *)
(* second core.  Two guards see to it, loaded in the adapter and           *)
(* moduleInstance in loadCore; after an error event has rejected a load,   *)
(* only the second one is left.                                            *)
OneCore == ~May("overlap") => worker.created <= 1

(* "Upstream core must be loaded before mounting a disc" (worker:2312): a  *)
(* game is only ever booted on a core whose loadCore is through.           *)
BootsOnlyAReadyCore == \A c \in DOMAIN cores : cores[c].game # None => cores[c].ready

(* The check itself only looks for a module, which is there early.  Still  *)
(* no mountFile overtakes the awaits of loadCore as long as discs are      *)
(* opened one at a time and no error event has ended the wait for a load   *)
(* that goes on: what is booted is a core that loadCore is through with.   *)
(* It is ready if no load failed; a load that fails with its module made   *)
(* leaves a core that the next disc is booted on all the same.             *)
CalmPageBootsAReadyCore ==
  ~May("overlap") /\ budget.errors = ErrorEvents =>
    /\ (\E c \in DOMAIN cores : cores[c].game # None) => worker.loads = {}
    /\ ~May("trouble") => BootsOnlyAReadyCore

(* Whatever was mounted before (nothing, another game, a disc that was     *)
(* refused or was too small to boot) and whatever the last error event cut *)
(* short: a disc DiscIO can read mounts when the worker answers its        *)
(* mountFile, and the page does not fall back to the demo.                 *)
ReadableDiscsMount ==
  [][~May("overlap") => \A m \in Mounts :
       mounts[m].at = "mounting" /\ mounts'[m].at = "starting" /\ toHost' # toHost
       /\ mounts[m].disc \in Readable => host'.mode = "dolphin"]_vars

Quiet == /\ \A m \in Mounts : mounts[m].at \notin Waiting
         /\ toWorker = <<>> /\ toHost = <<>>

(* However mounts overlapped, or failed and were cut short, once all is    *)
(* quiet a page that is not in its demo mode shows the disc the worker has *)
(* mounted and opened.  When mounts overlap and an error event cuts off a  *)
(* load as well, that load may still replace the core behind the page.     *)
PageShowsTheMountedDisc ==
  ~(May("overlap") /\ May("trouble")) /\ Quiet /\ host.mode = "dolphin" =>
    /\ host.game = Current.volume
    /\ host.game = Current.fs

(* Every request is settled, an orphaned one apart, and every mount comes  *)
(* to its end, with success or with the fallback, whatever fails on the    *)
(* way and however often it is tried.                                      *)
EverythingSettles ==
  []<>(/\ \A p \in adapter.pending : IsOrphan(p)
       /\ \A m \in Mounts : mounts[m].at \notin Waiting)

(* The safety behind that: nobody waits for nothing.  A mount that waits   *)
(* for the worker has a request in the table, a frame that counts as       *)
(* pending has one too, and each request in the table is still with the    *)
(* worker's messages, with loadCore or with the page's messages.  Only the *)
(* load whose message the browser refused is with none of them, and nobody *)
(* waits for that one.                                                     *)
EveryWaitIsServed ==
  /\ \A m \in Mounts : mounts[m].at \in Loading \cup {"mounting"} =>
       \E p \in adapter.pending :
         p.mount = m /\ p.type = IF mounts[m].at = "mounting" THEN "mountFile" ELSE "load"
  /\ adapter.framePending => \E p \in adapter.pending : p.type = "runFrame"
  /\ \A p \in adapter.pending :
       \/ \E j \in 1..Len(toWorker) : toWorker[j] = p
       \/ \E l \in worker.loads : l.id = p.id
       \/ \E i \in 1..Len(toHost) : toHost[i].id = p.id
       \/ IsOrphan(p)

(* The run button says "Pause or resume emulation" (index.html:84): once   *)
(* the page is paused and all is quiet, the game stands still.             *)
PausedGameStandsStill ==
  [][Quiet /\ ~host.running /\ host.mode = "dolphin"
       => \A c \in DOMAIN cores : cores'[c].progress = cores[c].progress]_vars
=============================================================================

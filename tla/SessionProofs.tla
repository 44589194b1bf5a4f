---------------------------- MODULE SessionProofs ----------------------------
(***************************************************************************)
(* Proofs about Session, for any discs, any number of mounts, clicks and   *)
(* polls, and whatever loads fail, early or late, or are sent again: as    *)
(* long as discs are opened one at a time it never makes a second core,    *)
(* boots no game while a core is being loaded unless an error event has    *)
(* come, and mounts every disc DiscIO can read; the page shows the disc    *)
(* that is mounted, however mounts overlap; nobody waits for nothing; and  *)
(* there is a bound on the requests that are numbered and the cores that   *)
(* are made.                                                               *)
(***************************************************************************)
EXTENDS Session, FiniteSetTheorems, TLAPS

-----------------------------------------------------------------------------
(* Shapes of the state; and the last core made is the current one.         *)
Req == {r \in [id : Nat \ {0}, type : Types, mount : 0 .. MaxMounts, disc : Discs \cup {None}] :
          r.type \in {"load", "mountFile"} => r.mount \in Mounts}
Entry == Req \cup {OrphanLoad(1)}
Rep == [id : Nat \ {0}, ok : BOOLEAN, disc : Discs \cup {None}]
Load == [id : Nat \ {0}, at : {"fetching", "installing"}]
CoreType == [ready : BOOLEAN, fs : Discs \cup {None}, volume : Discs \cup {None},
             game : Discs \cup {None}, paused : BOOLEAN, progress : 0 .. MaxProgress]
MountType == [disc : Discs \cup {None}, at : {"idle", "done"} \cup Waiting]
AdapterType == [loaded : BOOLEAN, pending : SUBSET Entry, nextId : Nat \ {0},
                framePending : BOOLEAN]
WorkerType == [module : Nat, created : Nat, mounted : BOOLEAN, loads : SUBSET Load]
BudgetType == [clicks : 0 .. MaxClicks, polls : 0 .. MaxPolls, errors : 0 .. 1, may : Setups]

Shape ==
  /\ mounts \in [Mounts -> MountType]
  /\ adapter \in AdapterType
  /\ toWorker \in Seq(Req) /\ toHost \in Seq(Rep)
  /\ worker \in WorkerType /\ cores \in Seq(CoreType)
  /\ worker.module = Len(cores) /\ worker.created = Len(cores)
  /\ \A l \in worker.loads : l.at = "installing" => Len(cores) > 0
  /\ budget \in BudgetType

(* An orphan's number is its own: no message, load or reply carries it.    *)
(* It is the first number there is, given before anything was sent.        *)
Queued == {toWorker[j] : j \in 1 .. Len(toWorker)}
Replied == {toHost[i] : i \in 1 .. Len(toHost)}
Ascending == \A i, j \in 1 .. Len(toWorker) : i < j => toWorker[i].id < toWorker[j].id
Alone ==
  /\ \A p \in adapter.pending : IsOrphan(p) =>
       /\ p.id < adapter.nextId
       /\ \A x \in Queued \cup worker.loads \cup Replied : x.id # p.id
  /\ adapter.nextId = 1 =>
       adapter.pending = {} /\ Queued = {} /\ worker.loads = {} /\ Replied = {}

(* Until the adapter has seen a core loaded there is at most one request   *)
(* besides an orphan, a load, and it is in one place only: with the        *)
(* worker's messages, with loadCore before or after the factory, or with   *)
(* the page's messages.  There may be a core that a load failed to         *)
(* configure; the next load is answered without a look at it.              *)
ReadyCore == [NewCore EXCEPT !.ready = TRUE]
HalfMade == May("trouble") /\ cores = <<NewCore>>
Unmade == cores = <<>> \/ HalfMade
Posted(r) == toWorker = <<r>> /\ worker.loads = {} /\ toHost = <<>> /\ Unmade
Fetching(r) ==
  /\ toWorker = <<>> /\ worker.loads = {[id |-> r.id, at |-> "fetching"]} /\ toHost = <<>>
  /\ cores = <<>>
Installing(r) ==
  /\ toWorker = <<>> /\ worker.loads = {[id |-> r.id, at |-> "installing"]} /\ toHost = <<>>
  /\ cores = <<NewCore>>
Answered(r) ==
  /\ toWorker = <<>> /\ worker.loads = {}
  /\ Len(toHost) = 1 /\ toHost[1].id = r.id
  /\ IF toHost[1].ok THEN cores = <<ReadyCore>> \/ HalfMade ELSE Unmade

NoRequest ==
  /\ \A p \in adapter.pending : IsOrphan(p)
  /\ toWorker = <<>> /\ toHost = <<>> /\ worker.loads = {} /\ Unmade
  /\ \A m \in Mounts : mounts[m].at \notin Loading \cup {"mounting"}
OneRequest(r) ==
  /\ ~IsOrphan(r) /\ \A p \in adapter.pending : p = r \/ IsOrphan(p)
  /\ r.type = "load" /\ mounts[r.mount].at \in Loading
  /\ Posted(r) \/ Fetching(r) \/ Installing(r) \/ Answered(r)
OneWaits ==
  \A k, m \in Mounts : mounts[k].at \in Waiting /\ mounts[m].at \in Waiting => k = m
BeforeLoaded == OneWaits /\ (NoRequest \/ \E r \in adapter.pending : OneRequest(r))

(* Afterwards there is one core; and, while no error event has come, no    *)
(* load is under way, and the core is ready unless one has failed.         *)
Calm == budget.errors = ErrorEvents
OnlyCore == Len(cores) = 1 /\ \A l \in worker.loads : l.at # "fetching"
ReadyUnlessTrouble == ~May("trouble") => cores[1].ready

Order ==
  /\ budget.errors <= ErrorEvents
  /\ ~May("overlap") =>
       /\ ~Calm => OnlyCore
       /\ Calm /\ adapter.loaded => OnlyCore /\ worker.loads = {} /\ ReadyUnlessTrouble
       /\ Calm /\ ~adapter.loaded => BeforeLoaded

IInv == Shape /\ Alone /\ Order

-----------------------------------------------------------------------------
(* The bounds.                                                             *)
LEMMA Bounds ==
  MaxMounts \in Nat /\ MaxClicks \in Nat /\ MaxPolls \in Nat /\ MaxProgress \in Nat
BY SessionAssumption

(* Sequences of one element.                                               *)
LEMMA Singleton ==
  ASSUME NEW x
  PROVE  /\ Head(<<x>>) = x /\ Tail(<<x>>) = <<>> /\ <<x>> # <<>>
         /\ Append(<<>>, x) = <<x>> /\ Len(<<x>>) = 1 /\ <<x>>[1] = x
  OBVIOUS

(* The orphan is the one entry that is no request of a mount's.            *)
LEMMA Entries ==
  /\ IsOrphan(OrphanLoad(1)) /\ OrphanLoad(1).id = 1
  /\ \A r \in Req : ~IsOrphan(r)
  /\ \A p \in Entry : ~IsOrphan(p) => p \in Req
  /\ \A p \in Entry : IsOrphan(p) => p = OrphanLoad(1)
<1>1. IsOrphan(OrphanLoad(1)) /\ OrphanLoad(1).id = 1
  BY DEF OrphanLoad, IsOrphan
<1>2. ASSUME NEW r \in Req PROVE ~IsOrphan(r)
  <2>1. 0 \notin Mounts
    BY SessionAssumption DEF Mounts
  <2>2. QED BY <1>2, <2>1 DEF Req, IsOrphan
<1>3. QED BY <1>1, <1>2 DEF Entry

(* What a message does to a queue.                                         *)
LEMMA Queues ==
  ASSUME Shape
  PROVE  /\ \A q \in Queued : q \in Req /\ q.id \in Nat
         /\ \A t \in Replied : t \in Rep /\ t.id \in Nat
         /\ \A l \in worker.loads : l.id \in Nat
         /\ \A p \in adapter.pending : p \in Entry /\ p.id \in Nat /\ (IsOrphan(p) \/ p \in Req)
         /\ adapter.nextId \in Nat
<1>1. toWorker \in Seq(Req) /\ toHost \in Seq(Rep)
  BY DEF Shape
<1>2. /\ \A j \in 1 .. Len(toWorker) : toWorker[j] \in Req
      /\ \A i \in 1 .. Len(toHost) : toHost[i] \in Rep
  BY <1>1
<1>3. \A r \in Req : r.id \in Nat
  BY DEF Req
<1>4. \A t \in Rep : t.id \in Nat
  BY DEF Rep
<1>5. /\ adapter.pending \subseteq Entry /\ adapter.nextId \in Nat
      /\ \A l \in worker.loads : l.id \in Nat
  BY DEF Shape, WorkerType, Load, AdapterType
<1>6. \A p \in Entry : p.id \in Nat /\ (IsOrphan(p) \/ p \in Req)
  BY <1>3, Entries
<1>7. QED BY <1>2, <1>3, <1>4, <1>5, <1>6 DEF Queued, Replied

(* A request that is posted comes last.                                    *)
LEMMA Posts ==
  ASSUME Shape, NEW r, toWorker' = Append(toWorker, r)
  PROVE  /\ Queued' = Queued \cup {r}
         /\ Ascending /\ (\A q \in Queued : q.id < r.id) => Ascending'
<1>1. /\ toWorker \in Seq(Req) /\ Len(toWorker) \in Nat
      /\ Len(toWorker') = Len(toWorker) + 1 /\ toWorker'[Len(toWorker) + 1] = r
      /\ \A j \in 1 .. Len(toWorker) : toWorker'[j] = toWorker[j]
  BY DEF Shape
<1>2. 1 .. Len(toWorker') = 1 .. Len(toWorker) \cup {Len(toWorker) + 1}
  BY <1>1
<1>3. Queued' = Queued \cup {r}
  <2>1. Queued' = {toWorker'[j] : j \in 1 .. Len(toWorker')}
    BY DEF Queued
  <2>2. QED BY <1>1, <1>2, <2>1 DEF Queued
<1>4. ASSUME Ascending, \A q \in Queued : q.id < r.id PROVE Ascending'
  <2>1. SUFFICES ASSUME NEW i \in 1 .. Len(toWorker'), NEW j \in 1 .. Len(toWorker'), i < j
                 PROVE  toWorker'[i].id < toWorker'[j].id
    BY DEF Ascending
  <2>2. i \in 1 .. Len(toWorker) /\ toWorker'[i] = toWorker[i]
    BY <1>1, <1>2, <2>1
  <2>3. CASE j \in 1 .. Len(toWorker)
    BY <1>1, <1>4, <2>1, <2>2, <2>3 DEF Ascending
  <2>4. CASE j = Len(toWorker) + 1
    <3>1. toWorker[i] \in Queued
      BY <2>2 DEF Queued
    <3>2. QED BY <1>1, <1>4, <2>2, <2>4, <3>1
  <2>5. QED BY <1>2, <2>3, <2>4
<1>5. QED BY <1>3, <1>4

(* The worker takes the oldest.                                            *)
LEMMA Takes ==
  ASSUME Shape, toWorker # <<>>, toWorker' = Tail(toWorker)
  PROVE  /\ Head(toWorker) \in Queued /\ Queued' \subseteq Queued
         /\ Ascending => Ascending' /\ \A q \in Queued' : Head(toWorker).id < q.id
<1>1. /\ toWorker \in Seq(Req) /\ Len(toWorker) \in Nat /\ Len(toWorker) > 0
      /\ Head(toWorker) = toWorker[1]
      /\ Len(toWorker') = Len(toWorker) - 1
      /\ \A j \in 1 .. Len(toWorker') : toWorker'[j] = toWorker[j + 1]
  BY DEF Shape
<1>2. Queued' = {toWorker'[j] : j \in 1 .. Len(toWorker')}
  BY DEF Queued
<1>3. \A j \in 1 .. Len(toWorker') : j + 1 \in 1 .. Len(toWorker) /\ 1 < j + 1
  BY <1>1
<1>4. 1 \in 1 .. Len(toWorker)
  BY <1>1
<1>5. Head(toWorker) \in Queued /\ Queued' \subseteq Queued
  BY <1>1, <1>2, <1>3, <1>4 DEF Queued
<1>6. ASSUME Ascending PROVE Ascending' /\ \A q \in Queued' : Head(toWorker).id < q.id
  <2>1. \A q \in Queued' : Head(toWorker).id < q.id
    BY <1>1, <1>2, <1>3, <1>4, <1>6 DEF Ascending
  <2>2. \A i, j \in 1 .. Len(toWorker') : i < j => i + 1 < j + 1
    BY <1>1
  <2>3. QED BY <1>1, <1>3, <1>6, <2>1, <2>2 DEF Ascending
<1>7. QED BY <1>5, <1>6

(* An answer comes last.                                                   *)
LEMMA Answers ==
  ASSUME Shape, NEW id, NEW ok, NEW disc, Answer(id, ok, disc)
  PROVE  \E t : /\ t = [id |-> id, ok |-> ok, disc |-> disc]
                /\ toHost' = Append(toHost, t) /\ Replied' = Replied \cup {t}
                /\ Len(toHost) \in Nat /\ Len(toHost') = Len(toHost) + 1
                /\ 1 .. Len(toHost') = 1 .. Len(toHost) \cup {Len(toHost) + 1}
                /\ toHost'[Len(toHost) + 1] = t
                /\ \A i \in 1 .. Len(toHost) : toHost'[i] = toHost[i]
<1>1. PICK t : t = [id |-> id, ok |-> ok, disc |-> disc]
  OBVIOUS
<1>2. toHost' = Append(toHost, t)
  BY <1>1 DEF Answer
<1>3. /\ toHost \in Seq(Rep) /\ Len(toHost) \in Nat
      /\ Len(toHost') = Len(toHost) + 1 /\ toHost'[Len(toHost) + 1] = t
      /\ \A j \in 1 .. Len(toHost) : toHost'[j] = toHost[j]
  BY <1>2 DEF Shape
<1>4. 1 .. Len(toHost') = 1 .. Len(toHost) \cup {Len(toHost) + 1}
  BY <1>3
<1>5. Replied' = Replied \cup {t}
  <2>1. Replied' = {toHost'[j] : j \in 1 .. Len(toHost')}
    BY DEF Replied
  <2>2. QED BY <1>3, <1>4, <2>1 DEF Replied
<1>6. QED BY <1>1, <1>2, <1>3, <1>4, <1>5

(* The page takes the oldest.                                              *)
LEMMA Delivers ==
  ASSUME Shape, toHost # <<>>, toHost' = Tail(toHost)
  PROVE  /\ Head(toHost) = toHost[1] /\ toHost[1] \in Replied /\ Replied' \subseteq Replied
         /\ 1 \in 1 .. Len(toHost)
         /\ \A i \in 1 .. Len(toHost') : i + 1 \in 1 .. Len(toHost) /\ toHost'[i] = toHost[i + 1]
<1>1. /\ toHost \in Seq(Rep) /\ Len(toHost) \in Nat /\ Len(toHost) > 0
      /\ Head(toHost) = toHost[1]
      /\ Len(toHost') = Len(toHost) - 1
      /\ \A j \in 1 .. Len(toHost') : toHost'[j] = toHost[j + 1]
  BY DEF Shape
<1>2. Replied' = {toHost'[j] : j \in 1 .. Len(toHost')}
  BY DEF Replied
<1>3. \A j \in 1 .. Len(toHost') : j + 1 \in 1 .. Len(toHost)
  BY <1>1
<1>4. 1 \in 1 .. Len(toHost)
  BY <1>1
<1>5. QED BY <1>1, <1>2, <1>3, <1>4 DEF Replied

(* It holds at the start, when nobody has asked for anything.              *)
LEMMA InitInv == Init => IInv
<1> SUFFICES ASSUME Init PROVE IInv
  OBVIOUS
<1>1. Shape
  <2>1. PICK setup \in Setups :
          budget = [clicks |-> IF "clicks" \in setup THEN MaxClicks ELSE 0,
                    polls |-> IF "polls" \in setup THEN MaxPolls ELSE 0,
                    errors |-> IF "trouble" \in setup THEN 1 ELSE 0, may |-> setup]
    BY DEF Init
  <2>2. budget \in BudgetType
    BY <2>1, SessionAssumption DEF BudgetType
  <2>3. QED
    BY <2>2 DEF Init, Shape, MountType, AdapterType, WorkerType
<1>2. Calm /\ budget.errors <= ErrorEvents
  BY DEF Init, Calm, ErrorEvents, May
<1>3. BeforeLoaded
  BY DEF Init, BeforeLoaded, OneWaits, NoRequest, Unmade, Waiting, Loading
<1>4. Alone
  <2>1. Queued = {} /\ Replied = {}
    BY DEF Init, Queued, Replied
  <2>2. QED BY <2>1 DEF Init, Alone
<1>5. QED BY <1>1, <1>2, <1>3, <1>4 DEF IInv, Order, Init

-----------------------------------------------------------------------------
(* A request that is sent keeps the shapes.                                *)
LEMMA SendShape ==
  ASSUME Shape, NEW a \in AdapterType, NEW type \in Types, NEW mount \in 0 .. MaxMounts,
         NEW disc \in Discs \cup {None}, type \in {"load", "mountFile"} => mount \in Mounts,
         Send(a, type, mount, disc)
  PROVE  /\ adapter' \in AdapterType /\ toWorker' \in Seq(Req)
         /\ adapter'.loaded = a.loaded
<1> DEFINE r == [id |-> a.nextId, type |-> type, mount |-> mount, disc |-> disc]
<1>1. r \in Req /\ r \in Entry
  BY DEF Req, Entry, AdapterType
<1>2. adapter' = [a EXCEPT !.pending = @ \cup {r}, !.nextId = @ + 1]
      /\ toWorker' = Append(toWorker, r)
  BY DEF Send
<1> HIDE DEF r
<1>3. a.pending \cup {r} \in SUBSET Entry /\ a.nextId + 1 \in Nat \ {0}
  BY <1>1 DEF AdapterType
<1>4. adapter' \in AdapterType /\ adapter'.loaded = a.loaded
  BY <1>2, <1>3 DEF AdapterType
<1>5. toWorker' \in Seq(Req)
  BY <1>1, <1>2 DEF Shape
<1>6. QED BY <1>4, <1>5

(* So does a command.                                                      *)
LEMMA CommandShape ==
  ASSUME Shape, NEW type \in {"start", "pause", "reset"}, Command(type)
  PROVE  /\ adapter' \in AdapterType /\ toWorker' \in Seq(Req)
         /\ adapter'.loaded = adapter.loaded
         /\ ~adapter.loaded => UNCHANGED <<adapter, toWorker>>
<1>1. CASE adapter.loaded
  <2>1. Send(adapter, type, 0, None)
    BY <1>1 DEF Command
  <2>2. /\ adapter \in AdapterType /\ type \in Types /\ 0 \in 0 .. MaxMounts
        /\ type \notin {"load", "mountFile"}
    BY SessionAssumption DEF Shape, Types
  <2>3. QED BY <1>1, <2>1, <2>2, SendShape
<1>2. CASE ~adapter.loaded
  BY <1>2 DEF Command, Shape
<1>3. QED BY <1>1, <1>2

(* The page's steps, as far as the worker is concerned: they matter only   *)
(* before a core is loaded.                                                *)
LEMMA PageOrder ==
  ASSUME IInv, UNCHANGED <<worker, cores>>,
         budget'.errors = budget.errors, budget'.may = budget.may,
         adapter'.loaded = adapter.loaded,
         ~May("overlap") /\ ~adapter.loaded /\ BeforeLoaded => BeforeLoaded'
  PROVE  Order'
<1>1. May("overlap")' = May("overlap") /\ ErrorEvents' = ErrorEvents
      /\ Calm' = Calm /\ OnlyCore' = OnlyCore
      /\ ReadyUnlessTrouble' = ReadyUnlessTrouble
  BY DEF May, Calm, ErrorEvents, OnlyCore, ReadyUnlessTrouble
<1>2. QED BY <1>1 DEF IInv, Order

(* The one request there is before a core is loaded, and its mount.        *)
LEMMA TheRequest ==
  ASSUME Shape, NEW r \in adapter.pending, OneRequest(r)
  PROVE  r \in Req /\ r.mount \in Mounts /\ mounts[r.mount].at \in Waiting
<1>1. r \in Entry /\ ~IsOrphan(r) /\ r.type = "load" /\ mounts[r.mount].at \in Loading
  BY DEF OneRequest, Shape, AdapterType
<1>2. QED BY <1>1, Entries DEF Req, Waiting

(* The cores there may be before one is loaded.                            *)
LEMMA CoresBefore ==
  ASSUME BeforeLoaded
  PROVE  /\ cores \in {<<>>, <<NewCore>>, <<ReadyCore>>}
         /\ cores # <<>> => OnlyCore
<1>1. Len(<<NewCore>>) = 1 /\ Len(<<ReadyCore>>) = 1
  OBVIOUS
<1>2. CASE NoRequest
  BY <1>1, <1>2 DEF NoRequest, Unmade, HalfMade, OnlyCore
<1>3. ASSUME NEW r \in adapter.pending, OneRequest(r)
      PROVE  /\ cores \in {<<>>, <<NewCore>>, <<ReadyCore>>}
             /\ cores # <<>> => OnlyCore
  BY <1>1, <1>3 DEF OneRequest, Posted, Fetching, Installing, Answered, Unmade, HalfMade, OnlyCore
<1>4. QED BY <1>2, <1>3 DEF BeforeLoaded

(* A disc is picked: its check starts, and nothing is sent.                 *)
LEMMA OpenDiscInv ==
  ASSUME IInv, NEW m \in Mounts, NEW d \in Discs, OpenDisc(m, d)
  PROVE  Shape' /\ Order'
<1>1. /\ mounts' = [mounts EXCEPT ![m] = [disc |-> d, at |-> "probing"]]
      /\ UNCHANGED <<adapter, toWorker, toHost, worker, cores, budget>>
      /\ mounts \in [Mounts -> MountType]
  BY DEF OpenDisc, IInv, Shape
<1>2. Shape'
  BY <1>1 DEF IInv, Shape, MountType, Waiting
<1>3. ASSUME ~May("overlap"), BeforeLoaded PROVE BeforeLoaded'
  <2>1. \A k \in Mounts : mounts[k].at \notin Waiting
    BY <1>3 DEF OpenDisc
  <2>2. \A k \in Mounts : k # m => mounts'[k] = mounts[k]
    BY <1>1
  <2>3. mounts'[m].at = "probing"
    BY <1>1
  <2>4. NoRequest
    BY <1>3, <2>1, TheRequest DEF BeforeLoaded, IInv, Waiting
  <2>5. NoRequest'
    BY <1>1, <2>2, <2>3, <2>4 DEF NoRequest, Unmade, HalfMade, May, Loading
  <2>6. OneWaits'
    BY <2>1, <2>2 DEF OneWaits, Waiting
  <2>7. QED BY <2>5, <2>6 DEF BeforeLoaded
<1>4. QED BY <1>1, <1>2, <1>3, PageOrder DEF IInv

(* load() is asked for, or mountFile when it is through.                   *)
LEMMA LoadThenMountShape ==
  ASSUME Shape, NEW a \in AdapterType, NEW m \in Mounts,
         LoadThenMount(a, m, mounts[m].disc)
  PROVE  /\ adapter' \in AdapterType /\ toWorker' \in Seq(Req)
         /\ adapter'.loaded = a.loaded /\ mounts' \in [Mounts -> MountType]
<1>1. /\ m \in 0 .. MaxMounts /\ mounts[m].disc \in Discs \cup {None}
      /\ {"load", "mountFile"} \subseteq Types
  BY SessionAssumption DEF Shape, MountType, Mounts, Types
<1>2. CASE a.loaded
  <2>1. /\ Send(a, "mountFile", m, mounts[m].disc)
        /\ mounts' = [mounts EXCEPT ![m].at = "mounting"]
    BY <1>2 DEF LoadThenMount
  <2>2. mounts' \in [Mounts -> MountType]
    BY <2>1 DEF Shape, MountType, Waiting, Loading
  <2>3. QED BY <1>1, <2>1, <2>2, SendShape
<1>3. CASE ~a.loaded
  <2>1. /\ Send(a, "load", m, None)
        /\ mounts' = [mounts EXCEPT ![m].at = "loading"]
    BY <1>3 DEF LoadThenMount
  <2>2. mounts' \in [Mounts -> MountType]
    BY <2>1 DEF Shape, MountType, Waiting, Loading
  <2>3. QED BY <1>1, <2>1, <2>2, SendShape
<1>4. QED BY <1>2, <1>3

(* The only request there is before a core is loaded is posted.            *)
LEMMA AskFirst ==
  ASSUME IInv, BeforeLoaded, UNCHANGED <<toHost, worker, cores, budget>>,
         NEW m \in Mounts, mounts[m].at \in {"probing", "retrying"},
         NEW r, r.type = "load", r.mount = m, ~IsOrphan(r),
         adapter'.pending = adapter.pending \cup {r}, toWorker' = Append(toWorker, r),
         NEW at \in Loading, mounts' = [mounts EXCEPT ![m].at = at]
  PROVE  BeforeLoaded'
<1>1. NoRequest
  <2>1. SUFFICES ASSUME NEW s \in adapter.pending, OneRequest(s) PROVE FALSE
    BY DEF BeforeLoaded
  <2>2. s.mount \in Mounts /\ mounts[s.mount].at \in Loading
    BY <2>1, TheRequest DEF OneRequest, IInv
  <2>3. QED BY <2>2 DEF BeforeLoaded, OneWaits, Waiting, Loading
<1>2. toWorker' = <<r>>
  BY <1>1, Singleton DEF NoRequest
<1>3. mounts'[m].at = at /\ \A k \in Mounts : k # m => mounts'[k] = mounts[k]
  BY DEF IInv, Shape, MountType
<1>4. Unmade'
  BY <1>1 DEF NoRequest, Unmade, HalfMade, May
<1>5. Posted(r)'
  BY <1>1, <1>2, <1>4 DEF Posted, NoRequest
<1>6. OneRequest(r)'
  BY <1>1, <1>3, <1>5 DEF OneRequest, NoRequest
<1>7. OneWaits'
  BY <1>3 DEF BeforeLoaded, OneWaits, Waiting, Loading
<1>8. QED BY <1>6, <1>7 DEF BeforeLoaded

(* The disc was checked: a load is sent, or a mount to a loaded core.       *)
LEMMA ProbedInv ==
  ASSUME IInv, NEW m \in Mounts, Probed(m)
  PROVE  Shape' /\ Order'
<1>1. /\ LoadThenMount(adapter, m, mounts[m].disc) /\ adapter \in AdapterType
      /\ UNCHANGED <<toHost, worker, cores, budget>> /\ mounts[m].at = "probing"
  BY DEF Probed, IInv, Shape
<1>2. /\ adapter' \in AdapterType /\ toWorker' \in Seq(Req)
      /\ adapter'.loaded = adapter.loaded /\ mounts' \in [Mounts -> MountType]
  BY <1>1, LoadThenMountShape DEF IInv
<1>3. Shape'
  BY <1>1, <1>2 DEF IInv, Shape
<1>4. ASSUME ~adapter.loaded, BeforeLoaded PROVE BeforeLoaded'
  <2>4a. PICK r : r = [id |-> adapter.nextId, type |-> "load", mount |-> m, disc |-> None]
    OBVIOUS
  <2>1. /\ adapter' = [adapter EXCEPT !.pending = @ \cup {r}, !.nextId = @ + 1]
        /\ toWorker' = Append(toWorker, r)
        /\ mounts' = [mounts EXCEPT ![m].at = "loading"]
    BY <1>1, <1>4, <2>4a DEF LoadThenMount, Send
  <2>2. r.type = "load" /\ r.mount = m /\ ~IsOrphan(r)
    <3>1. m # 0
      BY SessionAssumption DEF Mounts
    <3>2. QED BY <2>4a, <3>1 DEF IsOrphan
  <2>3. adapter'.pending = adapter.pending \cup {r} /\ "loading" \in Loading
    BY <1>1, <2>1 DEF AdapterType, Loading
  <2>4. QED BY <1>1, <1>4, <2>1, <2>2, <2>3, AskFirst
<1>5. QED BY <1>1, <1>2, <1>3, <1>4, PageOrder DEF IInv

(* The load is sent again, to a core that may be loaded by now.             *)
LEMMA LoadAgainInv ==
  ASSUME IInv, NEW m \in Mounts, LoadAgain(m)
  PROVE  Shape' /\ Order'
<1>1. /\ Send(adapter, "load", m, None) /\ adapter \in AdapterType
      /\ UNCHANGED <<toHost, worker, cores, budget>> /\ mounts[m].at = "retrying"
      /\ mounts' = [mounts EXCEPT ![m].at = "reloading"]
  BY DEF LoadAgain, IInv, Shape
<1>2. adapter' \in AdapterType /\ toWorker' \in Seq(Req) /\ adapter'.loaded = adapter.loaded
  <2>1. "load" \in Types /\ m \in 0 .. MaxMounts
    BY SessionAssumption DEF Types, Mounts
  <2>2. QED BY <1>1, <2>1, SendShape DEF IInv
<1>3. mounts' \in [Mounts -> MountType]
  BY <1>1 DEF IInv, Shape, MountType, Waiting, Loading
<1>4. Shape'
  BY <1>1, <1>2, <1>3 DEF IInv, Shape
<1>5. ASSUME BeforeLoaded PROVE BeforeLoaded'
  <2>4a. PICK r : r = [id |-> adapter.nextId, type |-> "load", mount |-> m, disc |-> None]
    OBVIOUS
  <2>1. /\ adapter' = [adapter EXCEPT !.pending = @ \cup {r}, !.nextId = @ + 1]
        /\ toWorker' = Append(toWorker, r)
    BY <1>1, <2>4a DEF Send
  <2>2. r.type = "load" /\ r.mount = m /\ ~IsOrphan(r)
    <3>1. m # 0
      BY SessionAssumption DEF Mounts
    <3>2. QED BY <2>4a, <3>1 DEF IsOrphan
  <2>3. adapter'.pending = adapter.pending \cup {r} /\ "reloading" \in Loading
    BY <1>1, <2>1 DEF AdapterType, Loading
  <2>4. QED BY <1>1, <1>5, <2>1, <2>2, <2>3, AskFirst
<1>6. QED BY <1>1, <1>2, <1>4, <1>5, PageOrder DEF IInv

(* What becomes of a mount whose load is rejected.                         *)
LEMMA RejectedShape ==
  ASSUME Shape, NEW m \in Mounts, NEW again \in BOOLEAN, LoadRejected(m, again)
  PROVE  /\ mounts' \in [Mounts -> MountType]
         /\ mounts'[m].at \in {"retrying", "starting"}
         /\ \A k \in Mounts : k # m => mounts'[k] = mounts[k]
<1>1. mounts' = [mounts EXCEPT ![m].at = IF again THEN "retrying" ELSE "starting"]
  BY DEF LoadRejected
<1>2. PICK at \in {"retrying", "starting"} : mounts' = [mounts EXCEPT ![m].at = at]
  BY <1>1
<1>3. QED BY <1>2 DEF Shape, MountType, Waiting

(* The mount that waits has no request any more.                           *)
LEMMA NobodyAsks ==
  ASSUME OneWaits, NEW m \in Mounts, mounts[m].at \in Waiting,
         mounts'[m].at \in {"retrying", "starting"},
         \A k \in Mounts : k # m => mounts'[k] = mounts[k]
  PROVE  OneWaits' /\ \A k \in Mounts : mounts'[k].at \notin Loading \cup {"mounting"}
<1>1. OneWaits'
  BY DEF OneWaits
<1>2. \A k \in Mounts : k # m => mounts[k].at \notin Waiting
  BY DEF OneWaits
<1>3. QED BY <1>1, <1>2 DEF Waiting, Loading

(* The browser refuses the canvas: an orphan, and nothing under way.        *)
LEMMA RefuseCanvasInv ==
  ASSUME IInv, NEW m \in Mounts, RefuseCanvas(m)
  PROVE  Shape' /\ Order'
<1>1. /\ mounts[m].at = "probing" /\ adapter \in AdapterType /\ adapter.nextId = 1
      /\ adapter' = [adapter EXCEPT !.pending = @ \cup {OrphanLoad(1)}, !.nextId = 2]
      /\ UNCHANGED <<toWorker, toHost, worker, cores, budget>>
      /\ \E again \in BOOLEAN : LoadRejected(m, again)
  BY DEF RefuseCanvas, IInv, Shape
<1>2. /\ mounts' \in [Mounts -> MountType] /\ mounts'[m].at \in {"retrying", "starting"}
      /\ \A k \in Mounts : k # m => mounts'[k] = mounts[k]
  BY <1>1, RejectedShape DEF IInv
<1>3. /\ adapter' \in AdapterType /\ adapter'.loaded = adapter.loaded
      /\ adapter'.pending = adapter.pending \cup {OrphanLoad(1)}
  <2>1. PICK o : o = OrphanLoad(1)
    OBVIOUS
  <2>2. adapter.pending \cup {o} \in SUBSET Entry
    BY <1>1, <2>1 DEF AdapterType, Entry
  <2>3. adapter' = [adapter EXCEPT !.pending = @ \cup {o}, !.nextId = 2]
    BY <1>1, <2>1
  <2>4. PICK pending \in SUBSET Entry : pending = adapter.pending \cup {o}
    BY <2>2
  <2>5. adapter' = [adapter EXCEPT !.pending = pending, !.nextId = 2]
    BY <2>3, <2>4
  <2>6. PICK two \in Nat \ {0} : two = 2
    OBVIOUS
  <2>7. adapter' = [adapter EXCEPT !.pending = pending, !.nextId = two]
    BY <2>5, <2>6
  <2>8. /\ adapter' \in AdapterType /\ adapter'.loaded = adapter.loaded
        /\ adapter'.pending = pending
    BY <1>1, <2>7, two \in Nat \ {0}, pending \in SUBSET Entry DEF AdapterType
  <2>9. QED BY <2>1, <2>4, <2>8
<1>4. Shape'
  BY <1>1, <1>2, <1>3 DEF IInv, Shape
<1>5. ASSUME BeforeLoaded PROVE BeforeLoaded'
  <2>1. NoRequest
    <3>1. adapter.pending = {}
      BY <1>1 DEF IInv, Alone
    <3>2. QED BY <1>5, <3>1 DEF BeforeLoaded
  <2>2. OneWaits' /\ \A k \in Mounts : mounts'[k].at \notin Loading \cup {"mounting"}
    BY <1>1, <1>2, <1>5, NobodyAsks DEF BeforeLoaded, Waiting
  <2>3. Unmade'
    BY <1>1, <2>1 DEF NoRequest, Unmade, HalfMade, May
  <2>4. NoRequest'
    BY <1>1, <1>3, <2>1, <2>2, <2>3, Entries DEF NoRequest
  <2>5. QED BY <2>2, <2>4 DEF BeforeLoaded
<1>6. QED BY <1>1, <1>3, <1>4, <1>5, PageOrder DEF IInv

(* Before a core is loaded, clicks and the end of a mount change nothing.  *)
LEMMA BeforeKept ==
  ASSUME Shape, BeforeLoaded, UNCHANGED <<adapter, toWorker, toHost, worker, cores>>,
         budget'.may = budget.may,
         \A k \in Mounts : \/ mounts'[k].at = mounts[k].at
                           \/ mounts[k].at \notin Loading /\ mounts'[k].at \notin Waiting
  PROVE  BeforeLoaded'
<1>1. OneWaits'
  BY DEF BeforeLoaded, OneWaits
<1>2. (Unmade <=> Unmade') /\ (HalfMade <=> HalfMade')
  BY DEF Unmade, HalfMade, May
<1>3. CASE NoRequest
  BY <1>1, <1>2, <1>3 DEF BeforeLoaded, NoRequest, Waiting
<1>4. ASSUME NEW r \in adapter.pending, OneRequest(r) PROVE OneRequest(r)'
  <2>1. r.mount \in Mounts
    BY <1>4, TheRequest
  <2>2. mounts'[r.mount].at \in Loading
    BY <1>4, <2>1 DEF OneRequest
  <2>3. QED
    BY <1>2, <1>4, <2>2 DEF OneRequest, Posted, Fetching, Installing, Answered
<1>5. QED BY <1>1, <1>3, <1>4 DEF BeforeLoaded

(* The disc is mounted and the page starts the game.                        *)
LEMMA StartAfterMountInv ==
  ASSUME IInv, NEW m \in Mounts, StartAfterMount(m)
  PROVE  Shape' /\ Order'
<1>1. /\ mounts[m].at = "starting" /\ mounts' = [mounts EXCEPT ![m].at = "done"]
      /\ UNCHANGED <<toHost, worker, cores, budget>>
      /\ UNCHANGED <<adapter, toWorker>> \/ Command("start")
  BY DEF StartAfterMount
<1>2. /\ adapter' \in AdapterType /\ toWorker' \in Seq(Req)
      /\ adapter'.loaded = adapter.loaded
      /\ ~adapter.loaded => UNCHANGED <<adapter, toWorker>>
  BY <1>1, CommandShape DEF IInv, Shape
<1>3. mounts' \in [Mounts -> MountType]
  BY <1>1 DEF IInv, Shape, MountType
<1>4. Shape'
  BY <1>1, <1>2, <1>3 DEF IInv, Shape
<1>5. \A k \in Mounts : \/ mounts'[k].at = mounts[k].at
                        \/ mounts[k].at \notin Loading /\ mounts'[k].at \notin Waiting
  BY <1>1 DEF IInv, Shape, MountType, Waiting, Loading
<1>6. ~adapter.loaded /\ BeforeLoaded => BeforeLoaded'
  BY <1>1, <1>2, <1>5, BeforeKept DEF IInv
<1>7. QED BY <1>1, <1>2, <1>4, <1>6, PageOrder DEF IInv

(* The user clicks: a command, sent only to a loaded core.                  *)
LEMMA ClickInv ==
  ASSUME IInv, ClickRun \/ ClickReset
  PROVE  Shape' /\ Order'
<1>1. /\ budget.clicks > 0 /\ budget' = [budget EXCEPT !.clicks = @ - 1]
      /\ UNCHANGED <<mounts, toHost, worker, cores>>
      /\ \E type \in {"start", "pause", "reset"} : Command(type)
  BY DEF ClickRun, ClickReset
<1>2. /\ adapter' \in AdapterType /\ toWorker' \in Seq(Req)
      /\ adapter'.loaded = adapter.loaded
      /\ ~adapter.loaded => UNCHANGED <<adapter, toWorker>>
  BY <1>1, CommandShape DEF IInv
<1>3. budget' \in BudgetType /\ budget'.errors = budget.errors /\ budget'.may = budget.may
  <2>1. budget \in BudgetType /\ budget.clicks > 0
    BY <1>1 DEF IInv, Shape
  <2>2. PICK n \in 0 .. MaxClicks : n = budget.clicks - 1
    BY <2>1, Bounds DEF BudgetType
  <2>3. budget' = [budget EXCEPT !.clicks = n]
    BY <1>1, <2>2
  <2>4. QED BY ONLY <2>1, <2>3, n \in 0 .. MaxClicks DEF BudgetType
<1>4. Shape'
  BY <1>1, <1>2, <1>3 DEF IInv, Shape
<1>5. ~adapter.loaded /\ BeforeLoaded => BeforeLoaded'
  BY <1>1, <1>2, <1>3, BeforeKept DEF IInv
<1>6. QED BY <1>1, <1>2, <1>3, <1>4, <1>5, PageOrder DEF IInv

(* The page polls for a frame of a loaded core.                             *)
LEMMA PollFrameInv ==
  ASSUME IInv, PollFrame
  PROVE  Shape' /\ Order'
<1>0. PICK a : a = [adapter EXCEPT !.framePending = TRUE]
  OBVIOUS
<1>1. /\ budget.polls > 0 /\ budget' = [budget EXCEPT !.polls = @ - 1]
      /\ UNCHANGED <<mounts, toHost, worker, cores>>
      /\ adapter.loaded /\ Send(a, "runFrame", 0, None)
  BY <1>0 DEF PollFrame
<1>2. /\ a \in AdapterType /\ a.loaded /\ 0 \in 0 .. MaxMounts
      /\ "runFrame" \in Types /\ "runFrame" \notin {"load", "mountFile"}
  <2>1. a \in AdapterType /\ a.loaded
    BY <1>0, <1>1 DEF IInv, Shape, AdapterType
  <2>2. 0 \in 0 .. MaxMounts
    BY SessionAssumption
  <2>3. QED BY <2>1, <2>2 DEF Types
<1>3. adapter' \in AdapterType /\ toWorker' \in Seq(Req) /\ adapter'.loaded = a.loaded
  BY <1>1, <1>2, SendShape DEF IInv
<1>4. budget' \in BudgetType /\ budget'.errors = budget.errors /\ budget'.may = budget.may
  <2>1. budget \in BudgetType /\ budget.polls > 0
    BY <1>1 DEF IInv, Shape
  <2>2. PICK n \in 0 .. MaxPolls : n = budget.polls - 1
    BY <2>1, Bounds DEF BudgetType
  <2>3. budget' = [budget EXCEPT !.polls = n]
    BY <1>1, <2>2
  <2>4. QED BY ONLY <2>1, <2>3, n \in 0 .. MaxPolls DEF BudgetType
<1>5. Shape'
  BY <1>1, <1>3, <1>4 DEF IInv, Shape
<1>6. adapter'.loaded = adapter.loaded
  BY <1>1, <1>2, <1>3 DEF IInv, Shape, AdapterType
<1>7. QED BY <1>1, <1>4, <1>5, <1>6, PageOrder DEF IInv

-----------------------------------------------------------------------------
(* The worker's answers keep the shapes.                                   *)
LEMMA AnswerShape ==
  ASSUME Shape, NEW id \in Nat \ {0}, NEW ok \in BOOLEAN, NEW disc \in Discs \cup {None},
         Answer(id, ok, disc)
  PROVE  /\ toHost' \in Seq(Rep)
         /\ toHost = <<>> => Len(toHost') = 1 /\ toHost'[1].id = id /\ toHost'[1].ok = ok
<1> DEFINE reply == [id |-> id, ok |-> ok, disc |-> disc]
<1>1. reply \in Rep /\ reply.id = id /\ reply.ok = ok
  BY DEF Rep
<1>2. toHost' = Append(toHost, reply)
  BY DEF Answer
<1> HIDE DEF reply
<1>3. QED BY <1>1, <1>2, Singleton DEF Shape

(* The request that is served.                                             *)
LEMMA ReceivesShape ==
  ASSUME Shape, NEW type, Receives(type)
  PROVE  /\ toWorker' \in Seq(Req) /\ Head(toWorker) \in Req
         /\ Head(toWorker).type = type
         /\ UNCHANGED <<mounts, host, adapter, budget>>
  BY DEF Receives, Shape

(* Before a core is loaded that is a load, if any.                         *)
LEMMA ServesThePosted ==
  ASSUME Shape, BeforeLoaded, NEW type, Receives(type)
  PROVE  /\ type = "load"
         /\ \E r \in adapter.pending :
              /\ OneRequest(r) /\ Posted(r) /\ Head(toWorker) = r /\ toWorker' = <<>>
<1>1. toWorker # <<>>
  BY DEF Receives
<1>2. PICK r \in adapter.pending : OneRequest(r)
  BY <1>1 DEF BeforeLoaded, NoRequest
<1>3. Posted(r)
  BY <1>1, <1>2 DEF OneRequest, Fetching, Installing, Answered
<1>4. Head(toWorker) = r /\ toWorker' = <<>>
  BY <1>3, Singleton DEF Receives, Posted
<1>5. QED BY <1>2, <1>3, <1>4 DEF Receives, OneRequest

(* A step that leaves the ready core and the adapter alone.                *)
LEMMA WorkerOrder ==
  ASSUME IInv, UNCHANGED <<adapter, budget>>,
         OnlyCore => OnlyCore',
         OnlyCore /\ cores[1].ready => cores'[1].ready,
         OnlyCore /\ worker.loads = {} => worker'.loads = {},
         ~May("overlap") /\ BeforeLoaded => BeforeLoaded'
  PROVE  Order'
<1>1. May("overlap")' = May("overlap") /\ ErrorEvents' = ErrorEvents /\ Calm' = Calm
  BY DEF May, Calm, ErrorEvents
<1>2. OnlyCore /\ ReadyUnlessTrouble => ReadyUnlessTrouble'
  BY DEF ReadyUnlessTrouble, May
<1>3. QED BY <1>1, <1>2 DEF IInv, Order

(* The worker takes the load: it is under way, or there is a core.          *)
LEMMA ServeLoadInv ==
  ASSUME IInv, ServeLoad
  PROVE  Shape' /\ Order'
<1> DEFINE id == Head(toWorker).id
           l == [id |-> id, at |-> "fetching"]
<1>1. /\ Receives("load") /\ toWorker' \in Seq(Req) /\ id \in Nat \ {0}
      /\ UNCHANGED <<mounts, adapter, budget, cores>>
      /\ worker.module = Len(cores) /\ cores \in Seq(CoreType)
  BY ReceivesShape DEF ServeLoad, LoadCore, IInv, Shape, Req
<1>2. CASE worker.module # 0
  <2>1. Answer(id, TRUE, None) /\ UNCHANGED worker
    BY <1>2 DEF ServeLoad, LoadCore
  <2>2. toHost' \in Seq(Rep)
    BY <1>1, <2>1, AnswerShape DEF IInv
  <2>3. Shape'
    BY <1>1, <2>1, <2>2 DEF IInv, Shape
  <2>4. OnlyCore => OnlyCore'
    BY <1>1, <2>1 DEF OnlyCore
  <2>5. ASSUME BeforeLoaded PROVE BeforeLoaded'
    <3>1. PICK r \in adapter.pending :
            OneRequest(r) /\ Posted(r) /\ Head(toWorker) = r /\ toWorker' = <<>>
      BY <1>1, <2>5, ServesThePosted DEF IInv
    <3>2. HalfMade
      BY <1>1, <1>2, <3>1 DEF Posted, Unmade
    <3>3. Len(toHost') = 1 /\ toHost'[1].id = r.id /\ toHost'[1].ok
      BY <1>1, <2>1, <3>1, AnswerShape DEF IInv, Posted
    <3>4. Answered(r)'
      BY <1>1, <2>1, <3>1, <3>2, <3>3 DEF Answered, Posted, HalfMade, May
    <3>5. QED BY <1>1, <2>5, <3>1, <3>4 DEF BeforeLoaded, OneWaits, OneRequest
  <2>6. QED BY <1>1, <2>1, <2>3, <2>4, <2>5, WorkerOrder DEF IInv
<1>3. CASE worker.module = 0
  <2>1. /\ worker' = [worker EXCEPT !.loads = @ \cup {l}] /\ UNCHANGED toHost
    BY <1>3 DEF ServeLoad, LoadCore
  <2>2. l \in Load /\ l.at = "fetching"
    BY <1>1 DEF Load
  <2>3. Shape'
    <3> HIDE DEF l
    <3>1. worker.loads \cup {l} \in SUBSET Load
      BY <2>2 DEF IInv, Shape, WorkerType
    <3>2. /\ worker' \in WorkerType /\ worker'.loads = worker.loads \cup {l}
          /\ worker'.module = worker.module /\ worker'.created = worker.created
      BY <2>1, <3>1 DEF IInv, Shape, WorkerType
    <3>3. QED BY <1>1, <2>1, <2>2, <3>2 DEF IInv, Shape
  <2>4. ~OnlyCore
    BY <1>1, <1>3 DEF OnlyCore
  <2>5. ASSUME BeforeLoaded PROVE BeforeLoaded'
    <3>1. PICK r \in adapter.pending :
            OneRequest(r) /\ Posted(r) /\ Head(toWorker) = r /\ toWorker' = <<>>
      BY <1>1, <2>5, ServesThePosted DEF IInv
    <3>2. worker'.loads = {[id |-> r.id, at |-> "fetching"]}
      BY <2>1, <3>1 DEF Posted, IInv, Shape, WorkerType
    <3>3. cores = <<>>
      <4>1. Len(<<NewCore>>) # 0
        OBVIOUS
      <4>2. QED BY <1>1, <1>3, <3>1, <4>1 DEF Posted, Unmade, HalfMade
    <3>4. Fetching(r)'
      BY <1>1, <2>1, <3>1, <3>2, <3>3 DEF Fetching, Posted
    <3>5. QED BY <1>1, <2>5, <3>1, <3>4 DEF BeforeLoaded, OneWaits, OneRequest
  <2>6. QED BY <1>1, <2>3, <2>4, <2>5, WorkerOrder DEF IInv
<1>4. QED BY <1>2, <1>3

(* A message that is not a load comes only when one is through.            *)
LEMMA ServeMountInv ==
  ASSUME IInv, ServeMount
  PROVE  Shape' /\ Order'
<1> DEFINE id == Head(toWorker).id
           d == Head(toWorker).disc
           volume == IF d \in Readable THEN d ELSE None
           disc == [Current EXCEPT !.fs = d, !.volume = volume]
<1>1. /\ Receives("mountFile") /\ toWorker' \in Seq(Req) /\ id \in Nat \ {0}
      /\ d \in Discs \cup {None} /\ volume \in Discs \cup {None}
      /\ UNCHANGED <<mounts, adapter, budget>>
  BY ReceivesShape DEF ServeMount, IInv, Req
<1>2. ~BeforeLoaded
  BY <1>1, ServesThePosted DEF IInv
<1>3. CASE worker.module = 0 \/ ~CanRemount
  <2>1. Answer(id, FALSE, None) /\ UNCHANGED <<worker, cores>>
    BY <1>3 DEF ServeMount, MountFile
  <2>2. toHost' \in Seq(Rep)
    BY <1>1, <2>1, AnswerShape DEF IInv
  <2>3. Shape'
    BY <1>1, <2>1, <2>2 DEF IInv, Shape
  <2>4. QED BY <1>1, <1>2, <2>1, <2>3, WorkerOrder DEF IInv, OnlyCore
<1>4. CASE worker.module # 0 /\ CanRemount
  <2>1. /\ worker' = MarkMounted(d) /\ Answer(id, d \in Readable, volume)
        /\ \/ \E accepted \in BOOLEAN : OnCurrent(Boot(disc, d, accepted))
           \/ OnCurrent(disc)
    BY <1>4 DEF ServeMount, MountFile, IInv, Shape
  <2>2. toHost' \in Seq(Rep)
    <3> DEFINE ok == d \in Readable
    <3>1. Answer(id, ok, volume) /\ ok \in BOOLEAN
      BY <2>1
    <3> HIDE DEF ok, volume
    <3>2. QED BY <1>1, <3>1, AnswerShape DEF IInv
  <2>3. /\ worker' \in WorkerType /\ worker'.loads = worker.loads
        /\ worker'.module = worker.module /\ worker'.created = worker.created
    BY <2>1 DEF MarkMounted, IInv, Shape, WorkerType
  <2>4. worker.module \in 1 .. Len(cores) /\ Current \in CoreType
    BY <1>4 DEF IInv, Shape, WorkerType, Current
  <2> HIDE DEF volume
  <2>5. disc \in CoreType /\ disc.ready = Current.ready
    BY <1>1, <2>4 DEF CoreType
  <2> HIDE DEF disc
  <2>6. PICK core \in CoreType : OnCurrent(core) /\ core.ready = Current.ready
    <3>1. ASSUME NEW accepted \in BOOLEAN
          PROVE  /\ Boot(disc, d, accepted) \in CoreType
                 /\ Boot(disc, d, accepted).ready = disc.ready
      <4>1. PICK game \in Discs \cup {None} :
              Boot(disc, d, accepted) = [disc EXCEPT !.game = game, !.paused = FALSE, !.progress = 0]
        BY <1>1 DEF Boot
      <4>2. 0 \in 0 .. MaxProgress
        BY Bounds
      <4>3. QED BY <2>5, <4>1, <4>2 DEF CoreType
    <3>2. QED BY <2>1, <2>5, <3>1
  <2>7. /\ cores' \in Seq(CoreType) /\ Len(cores') = Len(cores)
        /\ Len(cores) = 1 => cores'[1].ready = cores[1].ready
    BY <2>4, <2>6 DEF OnCurrent, Current, IInv, Shape
  <2>8. Shape'
    BY <1>1, <2>2, <2>3, <2>7 DEF IInv, Shape
  <2>9. QED BY <1>1, <1>2, <2>3, <2>7, <2>8, WorkerOrder DEF IInv, OnlyCore
<1>5. QED BY <1>3, <1>4

(* The worker answers a poll or a command.                                  *)
LEMMA ServeOtherInv ==
  ASSUME IInv, ServeFrame \/ ServeUnknown
  PROVE  Shape' /\ Order'
<1>1. PICK type \in {"runFrame", "reset", "start", "pause"}, ok \in BOOLEAN :
        /\ Receives(type) /\ Answer(Head(toWorker).id, ok, None)
        /\ UNCHANGED <<worker, cores>>
  BY DEF ServeFrame, ServeUnknown
<1>2. /\ toWorker' \in Seq(Req) /\ Head(toWorker).id \in Nat \ {0}
      /\ UNCHANGED <<mounts, adapter, budget>>
  BY <1>1, ReceivesShape DEF IInv, Req
<1>3. toHost' \in Seq(Rep)
  BY <1>1, <1>2, AnswerShape DEF IInv
<1>4. Shape'
  BY <1>1, <1>2, <1>3 DEF IInv, Shape
<1>5. ~BeforeLoaded
  BY <1>1, ServesThePosted DEF IInv
<1>6. QED BY <1>1, <1>2, <1>4, <1>5, WorkerOrder DEF IInv, OnlyCore

-----------------------------------------------------------------------------
(* The load there is before one is through, when loadCore is at a place.   *)
LEMMA TheLoad ==
  ASSUME Shape, BeforeLoaded, NEW l \in worker.loads
  PROVE  \E r \in adapter.pending :
           /\ OneRequest(r) /\ l = [id |-> r.id, at |-> l.at] /\ worker.loads = {l}
           /\ toWorker = <<>> /\ toHost = <<>>
           /\ IF l.at = "fetching" THEN cores = <<>> ELSE cores = <<NewCore>>
<1>1. PICK r \in adapter.pending : OneRequest(r)
  BY DEF BeforeLoaded, NoRequest
<1>2. Fetching(r) \/ Installing(r)
  BY <1>1 DEF OneRequest, Posted, Answered
<1>3. QED BY <1>1, <1>2 DEF Fetching, Installing

(* A load that was fetching makes the only core.                            *)
LEMMA CreateModuleInv ==
  ASSUME IInv, NEW l \in worker.loads, CreateModule(l)
  PROVE  Shape' /\ Order'
<1> DEFINE there == [l EXCEPT !.at = "installing"]
<1>1. /\ l.at = "fetching" /\ l \in Load /\ l.id \in Nat \ {0}
      /\ there \in Load /\ there = [id |-> l.id, at |-> "installing"]
  BY DEF CreateModule, IInv, Shape, WorkerType, Load
<1>2. UNCHANGED <<mounts, host, adapter, toWorker, toHost, budget>>
  BY DEF CreateModule
<1>3. /\ worker' \in WorkerType /\ worker'.loads = (worker.loads \ {l}) \cup {there}
      /\ worker'.module = Len(cores) + 1 /\ worker'.created = Len(cores) + 1
  <2>1. /\ worker \in WorkerType /\ worker.created = Len(cores) /\ Len(cores) \in Nat
        /\ worker' = [worker EXCEPT !.created = @ + 1, !.module = worker.created + 1,
                                    !.loads = (@ \ {l}) \cup {there}]
    BY DEF CreateModule, IInv, Shape
  <2> DEFINE loads == (worker.loads \ {l}) \cup {there}
  <2>2. loads \in SUBSET Load
    BY <1>1, <2>1 DEF WorkerType
  <2> HIDE DEF loads, there
  <2>3. worker' = [module |-> Len(cores) + 1, created |-> Len(cores) + 1,
                   mounted |-> worker.mounted, loads |-> loads]
    BY <2>1 DEF WorkerType, loads
  <2>4. /\ worker' \in WorkerType /\ worker'.loads = loads
        /\ worker'.module = Len(cores) + 1 /\ worker'.created = Len(cores) + 1
    <3>1. worker.mounted \in BOOLEAN /\ Len(cores) + 1 \in Nat
      BY <2>1 DEF WorkerType
    <3>2. QED BY <2>2, <2>3, <3>1 DEF WorkerType
  <2>5. QED BY <2>4 DEF loads
<1>4. cores' = Append(cores, NewCore) /\ NewCore \in CoreType
  BY Bounds DEF CreateModule, NewCore, CoreType
<1>5. cores' \in Seq(CoreType) /\ Len(cores') = Len(cores) + 1 /\ Len(cores') > 0
  BY <1>4 DEF IInv, Shape
<1> HIDE DEF there
<1>6. Shape'
  BY <1>1, <1>2, <1>3, <1>5 DEF IInv, Shape
<1>7. ~OnlyCore
  BY <1>1 DEF OnlyCore
<1>8. ASSUME BeforeLoaded PROVE BeforeLoaded'
  <2>1. PICK r \in adapter.pending :
          /\ OneRequest(r) /\ l.id = r.id /\ worker.loads = {l}
          /\ toWorker = <<>> /\ toHost = <<>> /\ cores = <<>>
    BY <1>1, <1>8, TheLoad DEF IInv
  <2>2. worker'.loads = {[id |-> r.id, at |-> "installing"]} /\ cores' = <<NewCore>>
    BY <1>1, <1>3, <1>4, <2>1, Singleton
  <2>3. Installing(r)'
    BY <1>2, <2>1, <2>2 DEF Installing
  <2>4. QED BY <1>2, <1>8, <2>1, <2>3 DEF BeforeLoaded, OneWaits, OneRequest
<1>9. QED BY <1>2, <1>6, <1>7, <1>8, WorkerOrder DEF IInv

(* The load is answered, with the core ready.                               *)
LEMMA FinishLoadInv ==
  ASSUME IInv, NEW l \in worker.loads, FinishLoad(l)
  PROVE  Shape' /\ Order'
<1> DEFINE core == [Current EXCEPT !.ready = TRUE]
<1>1. /\ l.at = "installing" /\ l.id \in Nat \ {0}
      /\ UNCHANGED <<mounts, host, adapter, toWorker, budget>>
      /\ Answer(l.id, TRUE, None)
  BY DEF FinishLoad, IInv, Shape, WorkerType, Load
<1>2. /\ worker' \in WorkerType /\ worker'.loads = worker.loads \ {l}
      /\ worker'.module = worker.module /\ worker'.created = worker.created
  BY DEF FinishLoad, IInv, Shape, WorkerType
<1>3. worker.module \in 1 .. Len(cores) /\ Current \in CoreType
  BY <1>1 DEF IInv, Shape, WorkerType, Current
<1>4. core \in CoreType /\ core.ready
  BY <1>3 DEF CoreType
<1>5. cores' = [cores EXCEPT ![worker.module] = core]
  BY DEF FinishLoad, OnCurrent
<1>6. core = [cores[worker.module] EXCEPT !.ready = TRUE]
  BY DEF Current
<1> HIDE DEF core
<1>7. /\ cores' \in Seq(CoreType) /\ Len(cores') = Len(cores)
      /\ Len(cores) = 1 => cores'[1].ready
  BY <1>3, <1>4, <1>5 DEF IInv, Shape
<1>8. toHost' \in Seq(Rep)
  BY <1>1, AnswerShape DEF IInv
<1>9. Shape'
  BY <1>1, <1>2, <1>7, <1>8 DEF IInv, Shape
<1>10. ASSUME BeforeLoaded PROVE BeforeLoaded'
  <2>1. PICK r \in adapter.pending :
          /\ OneRequest(r) /\ l.id = r.id /\ worker.loads = {l}
          /\ toWorker = <<>> /\ toHost = <<>> /\ cores = <<NewCore>>
    BY <1>1, <1>10, TheLoad DEF IInv
  <2>2. worker'.loads = {}
    BY <1>2, <2>1
  <2>3. cores' = <<ReadyCore>>
    <3>1. worker.module = 1 /\ cores[1] = NewCore
      BY <1>3, <2>1, Singleton
    <3>2. core = ReadyCore
      BY <1>6, <3>1 DEF ReadyCore
    <3>3. QED BY <1>5, <1>7, <2>1, <3>1, <3>2, Singleton
  <2>4. Len(toHost') = 1 /\ toHost'[1].id = r.id /\ toHost'[1].ok
    BY <1>1, <2>1, AnswerShape DEF IInv
  <2>5. Answered(r)'
    BY <1>1, <2>1, <2>2, <2>3, <2>4 DEF Answered
  <2>6. QED BY <1>1, <1>10, <2>1, <2>5 DEF BeforeLoaded, OneWaits, OneRequest
<1>11. QED BY <1>1, <1>2, <1>7, <1>9, <1>10, WorkerOrder DEF IInv, OnlyCore

(* The load fails, with or without a core, and may be asked for again.      *)
LEMMA FailLoadInv ==
  ASSUME IInv, NEW l \in worker.loads, FailLoad(l)
  PROVE  Shape' /\ Order'
<1>1. /\ l.id \in Nat \ {0} /\ May("trouble")
      /\ UNCHANGED <<mounts, host, adapter, toWorker, cores, budget>>
      /\ Answer(l.id, FALSE, None)
  BY DEF FailLoad, IInv, Shape, WorkerType, Load
<1>2. /\ worker' \in WorkerType /\ worker'.loads = worker.loads \ {l}
      /\ worker'.module = worker.module /\ worker'.created = worker.created
  BY DEF FailLoad, IInv, Shape, WorkerType
<1>3. toHost' \in Seq(Rep)
  BY <1>1, AnswerShape DEF IInv
<1>4. Shape'
  BY <1>1, <1>2, <1>3 DEF IInv, Shape
<1>5. ASSUME BeforeLoaded PROVE BeforeLoaded'
  <2>1. PICK r \in adapter.pending :
          /\ OneRequest(r) /\ l.id = r.id /\ worker.loads = {l}
          /\ toWorker = <<>> /\ toHost = <<>> /\ cores \in {<<>>, <<NewCore>>}
    BY <1>1, <1>5, TheLoad DEF IInv
  <2>2. Len(toHost') = 1 /\ toHost'[1].id = r.id /\ ~toHost'[1].ok
    BY <1>1, <2>1, AnswerShape DEF IInv
  <2>3. Answered(r)'
    BY <1>1, <1>2, <2>1, <2>2 DEF Answered, Unmade, HalfMade, May
  <2>4. QED BY <1>1, <1>5, <2>1, <2>3 DEF BeforeLoaded, OneWaits, OneRequest
<1>6. QED BY <1>1, <1>2, <1>4, <1>5, WorkerOrder DEF IInv, OnlyCore

(* No game is booted before a core is loaded.                              *)
LEMMA EmulateInv ==
  ASSUME IInv, NEW c \in 1 .. Len(cores), Emulate(c)
  PROVE  Shape' /\ Order'
<1>1. /\ UNCHANGED <<mounts, host, adapter, toWorker, toHost, worker, budget>>
      /\ cores' = [cores EXCEPT ![c].progress = @ + 1] /\ cores[c].game # None
      /\ cores \in Seq(CoreType) /\ cores[c].progress < MaxProgress
  BY DEF Emulate, IInv, Shape
<1>2. /\ cores' \in Seq(CoreType) /\ Len(cores') = Len(cores)
      /\ Len(cores) = 1 => cores'[1].ready = cores[1].ready
  <2> DEFINE core == [cores[c] EXCEPT !.progress = @ + 1]
  <2>1. core \in CoreType /\ core.ready = cores[c].ready
    <3>1. cores[c] \in CoreType
      BY <1>1
    <3>2. PICK n \in 0 .. MaxProgress : n = cores[c].progress + 1
      BY <1>1, <3>1, Bounds DEF CoreType
    <3>3. core = [cores[c] EXCEPT !.progress = n]
      BY <3>2
    <3> HIDE DEF core
    <3>4. QED BY <3>1, <3>3 DEF CoreType
  <2>2. cores' = [cores EXCEPT ![c] = core]
    BY <1>1
  <2> HIDE DEF core
  <2>3. QED BY <1>1, <2>1, <2>2
<1>3. Shape'
  BY <1>1, <1>2 DEF IInv, Shape
<1>4. ~BeforeLoaded
  BY <1>1, CoresBefore, Singleton DEF NewCore, ReadyCore
<1>5. QED BY <1>1, <1>2, <1>3, <1>4, WorkerOrder DEF IInv, OnlyCore

-----------------------------------------------------------------------------
(* An error event leaves the one core there is by then.                    *)
LEMMA WorkerErrorInv ==
  ASSUME IInv, WorkerError
  PROVE  Shape' /\ Order'
<1>1. /\ budget.errors > 0 /\ budget' = [budget EXCEPT !.errors = @ - 1]
      /\ UNCHANGED <<toWorker, toHost, worker, cores>>
      /\ adapter' = [adapter EXCEPT !.pending = {}, !.framePending = FALSE]
      /\ \A m \in Mounts : \/ mounts'[m] = mounts[m]
                           \/ mounts'[m] = [mounts[m] EXCEPT !.at = "starting"]
                           \/ mounts'[m] = [mounts[m] EXCEPT !.at = "retrying"]
      /\ mounts' = [m \in Mounts |-> mounts'[m]]
      /\ Len(cores) > 0
  BY DEF WorkerError, RejectAll, IInv, Shape, WorkerType
<1>2. adapter' \in AdapterType
  <2>1. adapter' = [loaded |-> adapter.loaded, pending |-> {}, nextId |-> adapter.nextId,
                    framePending |-> FALSE]
    BY <1>1 DEF IInv, Shape, AdapterType
  <2>2. QED BY <2>1 DEF IInv, Shape, AdapterType
<1>3. /\ budget.errors = 1 /\ budget' \in BudgetType
      /\ budget'.errors = 0 /\ budget'.may = budget.may
  <2>1. budget \in BudgetType /\ budget.errors > 0 /\ budget' = [budget EXCEPT !.errors = @ - 1]
    BY <1>1 DEF IInv, Shape
  <2>2. budget.errors = 1
    BY <2>1 DEF BudgetType
  <2>3. budget' = [budget EXCEPT !.errors = 0]
    BY <2>1, <2>2
  <2>4. QED BY <2>1, <2>2, <2>3 DEF BudgetType
<1>4. mounts' \in [Mounts -> MountType]
  <2>1. \A m \in Mounts : mounts'[m] \in MountType
    BY <1>1 DEF IInv, Shape, MountType, Waiting
  <2>2. QED BY <1>1, <2>1
<1>5. Shape'
  BY <1>1, <1>2, <1>3, <1>4 DEF IInv, Shape
<1>6. ErrorEvents = 1 /\ ErrorEvents' = 1 /\ May("overlap")' = May("overlap")
  BY <1>3 DEF IInv, Order, ErrorEvents, May
<1>7. Calm /\ ~Calm'
  BY <1>3, <1>6 DEF Calm
<1>8. ASSUME ~May("overlap") PROVE OnlyCore
  <2>1. CASE adapter.loaded
    BY <1>7, <1>8, <2>1 DEF IInv, Order
  <2>2. CASE ~adapter.loaded
    <3>1. BeforeLoaded
      BY <1>7, <1>8, <2>2 DEF IInv, Order
    <3>2. cores # <<>>
      BY <1>1
    <3>3. QED BY <3>1, <3>2, CoresBefore
  <2>3. QED BY <2>1, <2>2
<1>9. OnlyCore' = OnlyCore
  BY <1>1 DEF OnlyCore
<1>10. Order'
  BY <1>3, <1>6, <1>7, <1>8, <1>9 DEF Order
<1>11. QED BY <1>5, <1>10 DEF IInv

(* A reply to a request nobody waits for; there is none before a core is   *)
(* loaded.                                                                 *)
LEMMA DeliverDropInv ==
  ASSUME IInv, Deliver, \A r \in adapter.pending : r.id # Head(toHost).id
  PROVE  Shape' /\ Order'
<1>1. /\ toHost # <<>> /\ toHost' = Tail(toHost)
      /\ UNCHANGED <<mounts, host, adapter, toWorker, worker, cores, budget>>
  BY DEF Deliver
<1>2. Shape'
  BY <1>1 DEF IInv, Shape
<1>3. ASSUME BeforeLoaded PROVE FALSE
  <2>1. PICK r \in adapter.pending : OneRequest(r)
    BY <1>1, <1>3 DEF BeforeLoaded, NoRequest
  <2>2. Answered(r)
    BY <1>1, <2>1 DEF OneRequest, Posted, Fetching, Installing
  <2>3. Head(toHost).id = r.id
    BY <2>2 DEF Answered, IInv, Shape
  <2>4. QED BY <2>3
<1>4. QED BY <1>1, <1>2, <1>3, WorkerOrder DEF IInv, OnlyCore

(* A reply that settles request r.                                         *)
LEMMA DeliverInv ==
  ASSUME IInv, Deliver, NEW r \in adapter.pending, r.id = Head(toHost).id,
         Settle([adapter EXCEPT !.pending = @ \ {r}], r, Head(toHost))
  PROVE  Shape' /\ Order'
<1>0. PICK a : a = [adapter EXCEPT !.pending = @ \ {r}]
  OBVIOUS
<1>1. /\ toHost # <<>> /\ toHost' = Tail(toHost) /\ UNCHANGED <<worker, cores, budget>>
      /\ Settle(a, r, Head(toHost))
  BY <1>0 DEF Deliver
<1>2. /\ a \in AdapterType /\ a.loaded = adapter.loaded /\ a.pending = adapter.pending \ {r}
      /\ r \in Req /\ Head(toHost) \in Rep /\ toHost' \in Seq(Rep)
  <2>1. /\ adapter \in AdapterType /\ toHost \in Seq(Rep)
        /\ adapter.pending \ {r} \in SUBSET Entry
    BY DEF IInv, Shape, AdapterType
  <2>2. a \in AdapterType /\ a.loaded = adapter.loaded /\ a.pending = adapter.pending \ {r}
    BY <1>0, <2>1 DEF AdapterType
  <2>3. Head(toHost) \in Rep /\ toHost' \in Seq(Rep)
    BY <1>1, <2>1
  <2>4. r \in Req
    BY <1>1, Queues, Delivers DEF IInv, Alone
  <2>5. QED BY <2>2, <2>3, <2>4
<1>3. /\ r.type = "load" /\ Head(toHost).ok =>
           LoadThenMount([a EXCEPT !.loaded = TRUE], r.mount, mounts[r.mount].disc)
      /\ r.type = "mountFile" => mounts' = [mounts EXCEPT ![r.mount].at = "starting"]
      /\ r.type = "load" /\ ~Head(toHost).ok => \E again \in BOOLEAN : LoadRejected(r.mount, again)
      /\ r.type = "mountFile" \/ (r.type = "load" /\ ~Head(toHost).ok) =>
           adapter' = a /\ UNCHANGED toWorker
      /\ r.type \notin {"load", "mountFile"} =>
           /\ adapter' = [a EXCEPT !.framePending = @ /\ r.type # "runFrame"]
           /\ UNCHANGED <<mounts, toWorker>>
  BY <1>1, <1>2 DEF Settle, Rep
<1>4. May("overlap")' = May("overlap") /\ ErrorEvents' = ErrorEvents /\ Calm' = Calm
      /\ OnlyCore' = OnlyCore /\ ReadyUnlessTrouble' = ReadyUnlessTrouble
  BY <1>1 DEF May, ErrorEvents, Calm, OnlyCore, ReadyUnlessTrouble
(* Before a core is loaded it is the answer to the one load.               *)
<1>5. ASSUME BeforeLoaded
      PROVE  /\ OneRequest(r) /\ r.type = "load" /\ r.mount \in Mounts
             /\ toWorker = <<>> /\ worker.loads = {} /\ toHost' = <<>>
             /\ IF Head(toHost).ok THEN cores = <<ReadyCore>> \/ HalfMade ELSE Unmade
  <2>1. PICK s \in adapter.pending : OneRequest(s)
    BY <1>1, <1>5 DEF BeforeLoaded, NoRequest
  <2>2. s = r /\ Answered(r)
    BY <1>1, <1>2, <2>1, Entries DEF OneRequest, Posted, Fetching, Installing
  <2>3. Head(toHost) = toHost[1] /\ toHost' = <<>>
    BY <1>1, <2>2 DEF Answered, IInv, Shape
  <2>4. r.mount \in Mounts
    BY <2>1, <2>2, TheRequest DEF IInv
  <2>5. QED BY <2>1, <2>2, <2>3, <2>4 DEF OneRequest, Answered
<1>6. CASE r.type = "load" /\ Head(toHost).ok
  <2>1. PICK b : b = [a EXCEPT !.loaded = TRUE]
    OBVIOUS
  <2>2. b \in AdapterType /\ b.loaded /\ r.mount \in Mounts
    BY <1>2, <1>6, <2>1 DEF AdapterType, Req
  <2>3. LoadThenMount(b, r.mount, mounts[r.mount].disc)
    BY <1>3, <1>6, <2>1
  <2>4. /\ adapter' \in AdapterType /\ toWorker' \in Seq(Req)
        /\ adapter'.loaded /\ mounts' \in [Mounts -> MountType]
    BY <2>2, <2>3, LoadThenMountShape DEF IInv
  <2>5. Shape'
    BY <1>1, <1>2, <2>4 DEF IInv, Shape
  <2>6. BeforeLoaded => OnlyCore /\ worker.loads = {} /\ ReadyUnlessTrouble
    <3>1. /\ Len(<<ReadyCore>>) = 1 /\ <<ReadyCore>>[1].ready
          /\ Len(<<NewCore>>) = 1
      BY DEF ReadyCore, NewCore
    <3>2. QED BY <1>5, <1>6, <3>1 DEF OnlyCore, ReadyUnlessTrouble, HalfMade
  <2>7. Order'
    BY <1>1, <1>4, <2>4, <2>6 DEF IInv, Order
  <2>8. QED BY <2>5, <2>7 DEF IInv
<1>7. CASE \/ r.type = "mountFile"
           \/ r.type = "load" /\ ~Head(toHost).ok
  <2>1. adapter' = a /\ UNCHANGED toWorker /\ r.mount \in Mounts
    BY <1>2, <1>3, <1>7 DEF Req
  <2>2. /\ mounts' \in [Mounts -> MountType]
        /\ mounts'[r.mount].at \in {"retrying", "starting"}
        /\ \A k \in Mounts : k # r.mount => mounts'[k] = mounts[k]
    <3>1. CASE r.type = "mountFile"
      <4>1. mounts' = [mounts EXCEPT ![r.mount].at = "starting"]
        BY <1>2, <1>3, <3>1 DEF Rep
      <4>2. QED BY <2>1, <4>1 DEF IInv, Shape, MountType, Waiting
    <3>2. CASE r.type = "load" /\ ~Head(toHost).ok
      <4>1. \E again \in BOOLEAN : LoadRejected(r.mount, again)
        BY <1>3, <3>2
      <4>2. QED BY <2>1, <4>1, RejectedShape DEF IInv
    <3>3. QED BY <1>7, <3>1, <3>2
  <2>3. Shape'
    BY <1>1, <1>2, <2>1, <2>2 DEF IInv, Shape
  <2>4. ASSUME BeforeLoaded PROVE BeforeLoaded'
    <3>1. mounts[r.mount].at \in Waiting /\ ~Head(toHost).ok
      BY <1>5, <1>7, <2>4, TheRequest DEF IInv
    <3>2. OneWaits' /\ \A k \in Mounts : mounts'[k].at \notin Loading \cup {"mounting"}
      BY <2>1, <2>2, <2>4, <3>1, NobodyAsks DEF BeforeLoaded
    <3>3. Unmade'
      BY <1>1, <1>5, <2>4, <3>1 DEF Unmade, HalfMade, May
    <3>4. \A p \in adapter'.pending : IsOrphan(p)
      BY <1>2, <1>5, <2>1, <2>4 DEF OneRequest
    <3>5. NoRequest'
      BY <1>1, <1>5, <2>1, <2>4, <3>2, <3>3, <3>4 DEF NoRequest
    <3>6. QED BY <3>2, <3>5 DEF BeforeLoaded
  <2>5. Order'
    BY <1>1, <1>2, <1>4, <2>1, <2>4 DEF IInv, Order
  <2>6. QED BY <2>3, <2>5 DEF IInv
<1>8. CASE r.type \notin {"load", "mountFile"}
  <2>1. adapter' = [a EXCEPT !.framePending = @ /\ r.type # "runFrame"]
        /\ UNCHANGED <<mounts, toWorker>>
    BY <1>3, <1>8
  <2>2. adapter' \in AdapterType /\ adapter'.loaded = adapter.loaded
    BY <1>2, <2>1 DEF AdapterType
  <2>3. Shape'
    BY <1>1, <1>2, <2>1, <2>2 DEF IInv, Shape
  <2>4. ~BeforeLoaded
    BY <1>5, <1>8
  <2>5. Order'
    BY <1>1, <1>4, <2>2, <2>4 DEF IInv, Order
  <2>6. QED BY <2>3, <2>5 DEF IInv
<1>9. QED BY <1>2, <1>6, <1>7, <1>8 DEF Rep

-----------------------------------------------------------------------------
(* The orphan stays alone.  A request is sent.                             *)
LEMMA SendAlone ==
  ASSUME Shape, Alone, NEW a \in AdapterType, a.nextId = adapter.nextId,
         a.pending \subseteq adapter.pending,
         NEW type, NEW mount, NEW disc, Send(a, type, mount, disc),
         ~(type = "load" /\ mount = 0), Replied' \subseteq Replied, worker'.loads = worker.loads
  PROVE  Alone'
<1>1. PICK r : r = [id |-> a.nextId, type |-> type, mount |-> mount, disc |-> disc]
  OBVIOUS
<1>2. /\ adapter' = [a EXCEPT !.pending = @ \cup {r}, !.nextId = @ + 1]
      /\ toWorker' = Append(toWorker, r) /\ ~IsOrphan(r)
  BY <1>1 DEF Send, IsOrphan
<1>3. /\ adapter'.pending = a.pending \cup {r} /\ adapter'.nextId = adapter.nextId + 1
      /\ adapter.nextId \in Nat \ {0} /\ r.id = adapter.nextId
  BY <1>1, <1>2 DEF AdapterType
<1>4. Queued' = Queued \cup {r}
  BY <1>2, Posts
<1>5. adapter'.nextId # 1 /\ \A n \in Nat : n < adapter.nextId => n < adapter'.nextId /\ r.id # n
  BY <1>3
<1>6. QED BY <1>2, <1>3, <1>4, <1>5, Queues DEF Alone

(* Nothing is sent, and what moves keeps its number.                       *)
LEMMA MovesAlone ==
  ASSUME Shape, Alone, adapter'.nextId = adapter.nextId, adapter'.pending \subseteq adapter.pending,
         \A x \in Queued' \cup worker'.loads \cup Replied' :
           \E y \in Queued \cup worker.loads \cup Replied : y.id = x.id
  PROVE  Alone'
<1>1. ASSUME NEW p \in adapter'.pending, IsOrphan(p)
      PROVE  /\ p.id < adapter'.nextId
             /\ \A x \in Queued' \cup worker'.loads \cup Replied' : x.id # p.id
  BY <1>1 DEF Alone
<1>2. ASSUME adapter.nextId = 1
      PROVE  Queued' = {} /\ worker'.loads = {} /\ Replied' = {} /\ adapter'.pending = {}
  BY <1>2 DEF Alone
<1>3. QED BY <1>1, <1>2 DEF Alone

(* The steps of the page.                                                  *)
LEMMA PageAlone ==
  ASSUME IInv, \/ PageStep \/ ClickRun \/ ClickReset \/ PollFrame
               \/ \E m \in Mounts, d \in Discs : OpenDisc(m, d)
  PROVE  Alone'
<1>0. Shape /\ Alone /\ adapter \in AdapterType
  BY DEF IInv, Shape
<1>1. UNCHANGED <<toHost, worker>> /\ Replied' = Replied /\ worker'.loads = worker.loads
  BY DEF PageStep, Probed, RefuseCanvas, LoadAgain, StartAfterMount, ClickRun, ClickReset,
         PollFrame, OpenDisc, Replied
<1>2. CASE UNCHANGED <<adapter, toWorker>>
  <2>1. Queued' = Queued
    BY <1>2 DEF Queued
  <2>2. QED BY <1>0, <1>1, <1>2, <2>1 DEF Alone
<1>3. CASE \E a \in AdapterType, type \in Types, mount \in 0 .. MaxMounts,
             disc \in Discs \cup {None} :
             /\ a.nextId = adapter.nextId /\ a.pending = adapter.pending
             /\ Send(a, type, mount, disc) /\ ~(type = "load" /\ mount = 0)
  BY <1>0, <1>1, <1>3, SendAlone
<1>4. CASE \E m \in Mounts : RefuseCanvas(m)
  <2>1. /\ adapter' = [adapter EXCEPT !.pending = @ \cup {OrphanLoad(1)}, !.nextId = 2]
        /\ adapter.nextId = 1 /\ UNCHANGED toWorker
    BY <1>4 DEF RefuseCanvas
  <2>2. PICK o : o = OrphanLoad(1)
    OBVIOUS
  <2>3. adapter' = [adapter EXCEPT !.pending = @ \cup {o}, !.nextId = 2]
    BY <2>1, <2>2
  <2>4. adapter'.pending = adapter.pending \cup {o} /\ adapter'.nextId = 2
    BY <1>0, <2>3 DEF AdapterType
  <2>5. Queued' = Queued
    BY <2>1 DEF Queued
  <2>6. o.id = 1
    BY <2>2, Entries
  <2>7. QED BY <1>0, <1>1, <2>1, <2>4, <2>5, <2>6 DEF Alone
<1>5. ASSUME NEW type \in {"start", "pause", "reset"}, Command(type)
      PROVE  Alone'
  <2>1. CASE adapter.loaded
    <3>1. /\ Send(adapter, type, 0, None) /\ type \in Types /\ 0 \in 0 .. MaxMounts
          /\ type # "load"
      BY <1>5, <2>1, SessionAssumption DEF Command, Types
    <3>2. QED BY <1>0, <1>3, <3>1
  <2>2. CASE ~adapter.loaded
    BY <1>2, <1>5, <2>2 DEF Command
  <2>3. QED BY <2>1, <2>2
<1>6. ASSUME NEW m \in Mounts, LoadThenMount(adapter, m, mounts[m].disc) PROVE Alone'
  <2>1. /\ {"load", "mountFile"} \subseteq Types /\ m \in 0 .. MaxMounts /\ m # 0
        /\ mounts[m].disc \in Discs \cup {None} /\ None \in Discs \cup {None}
    BY <1>0, SessionAssumption DEF Types, Mounts, Shape, MountType
  <2>2. CASE adapter.loaded
    BY <1>0, <1>3, <1>6, <2>1, <2>2 DEF LoadThenMount
  <2>3. CASE ~adapter.loaded
    BY <1>0, <1>3, <1>6, <2>1, <2>3 DEF LoadThenMount
  <2>4. QED BY <2>2, <2>3
<1>7. CASE \E m \in Mounts : LoadAgain(m)
  <2>1. PICK m \in Mounts : Send(adapter, "load", m, None)
    BY <1>7 DEF LoadAgain
  <2>2. "load" \in Types /\ m \in 0 .. MaxMounts /\ m # 0 /\ None \in Discs \cup {None}
    BY SessionAssumption DEF Types, Mounts
  <2>3. QED BY <1>0, <1>3, <2>1, <2>2
<1>8. CASE PollFrame
  <2>1. PICK a : a = [adapter EXCEPT !.framePending = TRUE]
    OBVIOUS
  <2>2. Send(a, "runFrame", 0, None)
    BY <1>8, <2>1 DEF PollFrame
  <2>3. a \in AdapterType /\ a.nextId = adapter.nextId /\ a.pending = adapter.pending
    BY <1>0, <2>1 DEF AdapterType
  <2>4. "runFrame" \in Types /\ 0 \in 0 .. MaxMounts /\ None \in Discs \cup {None}
    BY Bounds DEF Types
  <2>5. QED BY <1>3, <2>2, <2>3, <2>4
<1>9. CASE ClickRun \/ ClickReset
  <2>1. \E type \in {"start", "pause", "reset"} : Command(type)
    BY <1>9 DEF ClickRun, ClickReset
  <2>2. QED BY <1>5, <2>1
<1>10. CASE \E m \in Mounts : StartAfterMount(m)
  BY <1>2, <1>5, <1>10 DEF StartAfterMount
<1>11. CASE \E m \in Mounts : Probed(m)
  BY <1>6, <1>11 DEF Probed
<1>12. CASE \E m \in Mounts, d \in Discs : OpenDisc(m, d)
  BY <1>2, <1>12 DEF OpenDisc
<1>13. QED BY <1>4, <1>7, <1>8, <1>9, <1>10, <1>11, <1>12 DEF PageStep

(* The steps of the worker.                                                *)
LEMMA WorkerAlone ==
  ASSUME IInv, \/ Serve \/ LoadStep \/ WorkerError
               \/ \E c \in 1 .. Len(cores) : Emulate(c)
  PROVE  Alone'
<1>0. Shape /\ Alone
  BY DEF IInv
<1>1. /\ adapter'.nextId = adapter.nextId /\ adapter'.pending \subseteq adapter.pending
  BY <1>0 DEF Serve, ServeLoad, ServeMount, ServeFrame, ServeUnknown, Receives, LoadStep, CreateModule,
         FinishLoad, FailLoad, WorkerError, RejectAll, Emulate, Shape, AdapterType
<1>2. CASE WorkerError \/ \E c \in 1 .. Len(cores) : Emulate(c)
  <2>1. Queued' = Queued /\ Replied' = Replied /\ worker'.loads = worker.loads
    BY <1>2 DEF WorkerError, Emulate, Queued, Replied
  <2>2. QED BY <1>0, <1>1, <2>1, MovesAlone
<1>3. CASE LoadStep
  <2>1. PICK l \in worker.loads : CreateModule(l) \/ FinishLoad(l) \/ FailLoad(l)
    BY <1>3 DEF LoadStep
  <2>2. Queued' = Queued /\ worker \in WorkerType
    BY <1>0, <2>1 DEF CreateModule, FinishLoad, FailLoad, Queued, Shape
  <2>3. CASE CreateModule(l)
    <3>1. PICK k : k = [l EXCEPT !.at = "installing"]
      OBVIOUS
    <3>2. worker'.loads = (worker.loads \ {l}) \cup {k} /\ UNCHANGED toHost
      BY <2>2, <2>3, <3>1 DEF CreateModule, WorkerType
    <3>3. k.id = l.id
      BY <2>1, <2>2, <3>1 DEF WorkerType, Load
    <3>4. Replied' = Replied
      BY <3>2 DEF Replied
    <3>5. QED BY <1>0, <1>1, <2>1, <2>2, <3>2, <3>3, <3>4, MovesAlone
  <2>4. CASE FinishLoad(l) \/ FailLoad(l)
    <3>1. /\ worker'.loads = worker.loads \ {l}
          /\ \E ok \in BOOLEAN : Answer(l.id, ok, None)
      BY <2>2, <2>4 DEF FinishLoad, FailLoad, WorkerType
    <3>2. PICK t : t.id = l.id /\ Replied' = Replied \cup {t}
      BY <1>0, <3>1, Answers
    <3>3. QED BY <1>0, <1>1, <2>1, <2>2, <3>1, <3>2, MovesAlone
  <2>5. QED BY <2>1, <2>3, <2>4
<1>4. CASE Serve
  <2> DEFINE head == Head(toWorker)
  <2>1. toWorker # <<>> /\ toWorker' = Tail(toWorker)
    BY <1>4 DEF Serve, ServeLoad, ServeMount, ServeFrame, ServeUnknown, Receives
  <2>2. head \in Queued /\ Queued' \subseteq Queued
    BY <1>0, <2>1, Takes
  <2>3. \/ (\E ok, disc : Answer(head.id, ok, disc)) /\ worker'.loads = worker.loads
        \/ UNCHANGED toHost /\ \E l : l.id = head.id /\ worker'.loads = worker.loads \cup {l}
    <3>1. CASE ServeMount
      BY <1>0, <3>1 DEF ServeMount, MountFile, MarkMounted, Shape, WorkerType
    <3>2. CASE ServeFrame \/ ServeUnknown
      BY <3>2 DEF ServeFrame, ServeUnknown
    <3>3. CASE ServeLoad
      <4>1. CASE worker.module # 0
        BY <3>3, <4>1 DEF ServeLoad, LoadCore
      <4>2. CASE worker.module = 0
        <5>1. PICK l : l = [id |-> head.id, at |-> "fetching"]
          OBVIOUS
        <5>2. worker' = [worker EXCEPT !.loads = @ \cup {l}] /\ UNCHANGED toHost
          BY <3>3, <4>2, <5>1 DEF ServeLoad, LoadCore
        <5>3. QED BY <1>0, <5>1, <5>2 DEF Shape, WorkerType
      <4>3. QED BY <4>1, <4>2
    <3>4. QED BY <1>4, <3>1, <3>2, <3>3 DEF Serve
  <2>4. CASE (\E ok, disc : Answer(head.id, ok, disc)) /\ worker'.loads = worker.loads
    <3>1. PICK t : t.id = head.id /\ Replied' = Replied \cup {t}
      BY <1>0, <2>4, Answers
    <3> HIDE DEF head
    <3>2. QED BY <1>0, <1>1, <2>2, <2>4, <3>1, MovesAlone
  <2>5. CASE UNCHANGED toHost /\ \E l : l.id = head.id /\ worker'.loads = worker.loads \cup {l}
    <3>1. Replied' = Replied
      BY <2>5 DEF Replied
    <3> HIDE DEF head
    <3>2. QED BY <1>0, <1>1, <2>2, <2>5, <3>1, MovesAlone
  <2>6. QED BY <2>3, <2>4, <2>5
<1>5. QED BY <1>2, <1>3, <1>4

(* A reply is read.                                                        *)
LEMMA DeliverAlone ==
  ASSUME IInv, Deliver
  PROVE  Alone'
<1>1. /\ toHost # <<>> /\ toHost' = Tail(toHost) /\ UNCHANGED <<worker, cores, budget>>
      /\ Shape /\ Alone /\ adapter \in AdapterType
  BY DEF Deliver, IInv, Shape
<1>2. Replied' \subseteq Replied /\ Head(toHost) \in Replied
  BY <1>1, Delivers
<1>3. CASE adapter'.pending \subseteq adapter.pending /\ adapter'.nextId = adapter.nextId
           /\ UNCHANGED toWorker
  <2>1. Queued' = Queued
    BY <1>3 DEF Queued
  <2>2. QED BY <1>1, <1>2, <1>3, <2>1, MovesAlone
<1>4. CASE UNCHANGED <<adapter, toWorker>>
  BY <1>3, <1>4
<1>5. ASSUME NEW r \in adapter.pending, r.id = Head(toHost).id,
             Settle([adapter EXCEPT !.pending = @ \ {r}], r, Head(toHost))
      PROVE  Alone'
  <2>1. PICK a : a = [adapter EXCEPT !.pending = @ \ {r}]
    OBVIOUS
  <2>2. /\ a \in AdapterType /\ a.nextId = adapter.nextId /\ a.pending = adapter.pending \ {r}
    <3>1. adapter.pending \ {r} \in SUBSET Entry
      BY <1>1 DEF AdapterType
    <3>2. QED BY <1>1, <2>1, <3>1 DEF AdapterType
  <2>3. r \in Req
    BY <1>1, <1>2, <1>5, Queues DEF Alone
  <2>4. CASE r.type = "load" /\ Head(toHost).ok
    <3>1. PICK b : b = [a EXCEPT !.loaded = TRUE]
      OBVIOUS
    <3>2. b \in AdapterType /\ b.nextId = adapter.nextId /\ b.pending \subseteq adapter.pending
          /\ b.loaded
      BY <2>2, <3>1 DEF AdapterType
    <3>3. LoadThenMount(b, r.mount, mounts[r.mount].disc)
      BY <1>5, <2>1, <2>4, <3>1 DEF Settle
    <3>4. Send(b, "mountFile", r.mount, mounts[r.mount].disc)
      BY <3>2, <3>3 DEF LoadThenMount
    <3>5. QED BY <1>1, <1>2, <3>2, <3>4, SendAlone
  <2>5. CASE ~(r.type = "load" /\ Head(toHost).ok)
    <3>1. /\ adapter' = a \/ adapter' = [a EXCEPT !.framePending = @ /\ r.type # "runFrame"]
          /\ UNCHANGED toWorker
      BY <1>5, <2>1, <2>5 DEF Settle
    <3>2. adapter'.pending = a.pending /\ adapter'.nextId = a.nextId
      BY <2>2, <3>1 DEF AdapterType
    <3>3. QED BY <1>3, <2>2, <3>1, <3>2
  <2>6. QED BY <2>4, <2>5
<1>6. QED BY <1>4, <1>5 DEF Deliver

(* Every step keeps the invariant.                                         *)
LEMMA NextInv == IInv /\ [Next]_vars => IInv'
<1> SUFFICES ASSUME IInv, [Next]_vars PROVE IInv'
  OBVIOUS
<1>1. CASE Deliver
  <2>1. \/ \A r \in adapter.pending : r.id # Head(toHost).id
        \/ \E r \in adapter.pending :
             r.id = Head(toHost).id /\ Settle([adapter EXCEPT !.pending = @ \ {r}], r, Head(toHost))
    BY <1>1 DEF Deliver
  <2>2. QED BY <1>1, <2>1, DeliverDropInv, DeliverInv, DeliverAlone DEF IInv
<1>2. CASE UNCHANGED vars
  <2>1. UNCHANGED <<mounts, adapter, toWorker, toHost, worker, cores, budget>>
    BY <1>2 DEF vars
  <2>2. Shape' /\ Alone'
    <3>1. Queued' = Queued /\ Replied' = Replied
      BY <2>1 DEF Queued, Replied
    <3>2. Shape'
      BY <2>1 DEF IInv, Shape
    <3>3. QED BY <2>1, <3>1, <3>2 DEF IInv, Alone
  <2>3. BeforeLoaded => BeforeLoaded'
    BY <2>1, BeforeKept DEF IInv
  <2>4. Order'
    BY <2>1, <2>3, WorkerOrder DEF IInv, OnlyCore
  <2>5. QED BY <2>2, <2>4 DEF IInv
<1>3. CASE PageStep
  BY <1>3, ProbedInv, RefuseCanvasInv, LoadAgainInv, StartAfterMountInv, PageAlone
     DEF PageStep, IInv
<1>4. CASE Serve
  BY <1>4, ServeLoadInv, ServeMountInv, ServeOtherInv, WorkerAlone DEF Serve, IInv
<1>5. CASE LoadStep
  BY <1>5, CreateModuleInv, FinishLoadInv, FailLoadInv, WorkerAlone DEF LoadStep, IInv
<1>6. CASE ClickRun \/ ClickReset \/ PollFrame
  BY <1>6, ClickInv, PollFrameInv, PageAlone DEF IInv
<1>7. CASE WorkerError \/ \E c \in 1 .. Len(cores) : Emulate(c)
  BY <1>7, WorkerErrorInv, EmulateInv, WorkerAlone DEF IInv
<1>8. CASE \E m \in Mounts, d \in Discs : OpenDisc(m, d)
  BY <1>8, OpenDiscInv, PageAlone DEF IInv
<1>9. QED BY <1>1, <1>2, <1>3, <1>4, <1>5, <1>6, <1>7, <1>8 DEF Next

-----------------------------------------------------------------------------
(* As long as discs are opened one at a time, loadCore never runs the      *)
(* factory a second time, although it keeps no record of a load that is    *)
(* under way, whatever loads fail, before or after the factory, and        *)
(* whatever an error event rejects.                                        *)
THEOREM NeverASecondCore == Spec => []OneCore
<1>1. IInv => OneCore
  <2> SUFFICES ASSUME IInv, ~May("overlap") PROVE Len(cores) <= 1
    BY DEF IInv, Shape, OneCore
  <2>1. CASE OnlyCore
    BY <2>1 DEF OnlyCore
  <2>2. CASE BeforeLoaded
    <3>1. Len(<<>>) = 0
      OBVIOUS
    <3>2. QED BY <2>1, <2>2, <3>1, CoresBefore
  <2>3. QED BY <2>1, <2>2 DEF IInv, Order
<1>2. QED BY <1>1, InitInv, NextInv, PTL DEF Spec

(* "Upstream core must be loaded before mounting a disc": the check for a  *)
(* module passes too early, but nothing runs into that while discs are     *)
(* opened one at a time and no error event has come: no game is booted     *)
(* while a loadCore is under way, and none on a core that is not ready     *)
(* unless loads fail.                                                      *)
THEOREM CalmPage == Spec => []CalmPageBootsAReadyCore
<1>1. IInv => CalmPageBootsAReadyCore
  <2> SUFFICES ASSUME IInv, ~May("overlap"), Calm, NEW c \in DOMAIN cores, cores[c].game # None
               PROVE  worker.loads = {} /\ (~May("trouble") => cores[c].ready)
    BY DEF CalmPageBootsAReadyCore, BootsOnlyAReadyCore, Calm
  <2>1. CASE OnlyCore /\ worker.loads = {} /\ ReadyUnlessTrouble
    BY <2>1 DEF OnlyCore, ReadyUnlessTrouble, IInv, Shape
  <2>2. CASE BeforeLoaded
    BY <2>2, CoresBefore DEF NewCore, ReadyCore
  <2>3. QED BY <2>1, <2>2 DEF IInv, Order
<1>2. QED BY <1>1, InitInv, NextInv, PTL DEF Spec

-----------------------------------------------------------------------------
(* Requests and what has become of them.  The worker takes them in the     *)
(* order of their ids, and answers each at most once.                      *)
Numbered ==
  /\ Ascending
  /\ \A q \in Queued :
       /\ q.id < adapter.nextId
       /\ \A l \in worker.loads : l.id < q.id
       /\ \A t \in Replied : t.id < q.id
       /\ \A p \in adapter.pending : q.id = p.id => q = p
  /\ \A l \in worker.loads :
       /\ l.id < adapter.nextId
       /\ \A k \in worker.loads : l.id = k.id => l = k
       /\ \A t \in Replied : t.id # l.id
       /\ \A p \in adapter.pending : l.id = p.id => p.type = "load"
  /\ \A t \in Replied : t.id < adapter.nextId
  /\ \A p \in adapter.pending :
       /\ p.id < adapter.nextId
       /\ \A q \in adapter.pending : p.id = q.id => p = q

-----------------------------------------------------------------------------
(* The numbers, move by move.  A request gets a new one.                   *)
LEMMA SendNumbers ==
  ASSUME Shape, Numbered, NEW r, r.id = adapter.nextId, toWorker' = Append(toWorker, r),
         adapter'.pending \subseteq adapter.pending \cup {r}, adapter'.nextId = adapter.nextId + 1,
         Replied' \subseteq Replied, worker'.loads = worker.loads
  PROVE  Numbered'
<1>1. Queued' = Queued \cup {r} /\ Ascending'
  BY Posts DEF Numbered
<1>2. \A n \in Nat : n < adapter.nextId => n < r.id /\ n < adapter'.nextId /\ n # r.id
  BY Queues
<1>3. r.id < adapter'.nextId
  BY Queues
<1>4. QED BY <1>1, <1>2, <1>3, Queues DEF Numbered

(* Requests are settled, rejected or left alone.                           *)
LEMMA SettleNumbers ==
  ASSUME Shape, Numbered, UNCHANGED toWorker, adapter'.nextId = adapter.nextId,
         adapter'.pending \subseteq adapter.pending, Replied' \subseteq Replied,
         worker'.loads = worker.loads
  PROVE  Numbered'
<1>1. Queued' = Queued /\ Ascending' = Ascending
  BY DEF Queued, Ascending
<1>2. QED BY <1>1 DEF Numbered

(* A request is answered as soon as it is taken.                           *)
LEMMA AnswerNumbers ==
  ASSUME Shape, Numbered, UNCHANGED adapter, toWorker # <<>>, toWorker' = Tail(toWorker),
         NEW t, t.id = Head(toWorker).id, Replied' = Replied \cup {t},
         worker'.loads = worker.loads
  PROVE  Numbered'
<1>1. /\ Head(toWorker) \in Queued /\ Queued' \subseteq Queued
      /\ Ascending' /\ \A q \in Queued' : Head(toWorker).id < q.id
  BY Takes DEF Numbered
<1>2. \A l \in worker.loads : t.id # l.id
  BY <1>1, Queues DEF Numbered
<1>3. QED BY <1>1, <1>2, Queues DEF Numbered

(* A load goes to fetch the core.                                          *)
LEMMA FetchNumbers ==
  ASSUME Shape, Numbered, UNCHANGED <<adapter, toHost>>, toWorker # <<>>,
         toWorker' = Tail(toWorker), Head(toWorker).type = "load",
         NEW l, l.id = Head(toWorker).id, worker'.loads = worker.loads \cup {l}
  PROVE  Numbered'
<1>1. /\ Head(toWorker) \in Queued /\ Queued' \subseteq Queued
      /\ Ascending' /\ \A q \in Queued' : Head(toWorker).id < q.id
  BY Takes DEF Numbered
<1>2. Replied' = Replied
  BY DEF Replied
<1>3. /\ \A k \in worker.loads : k.id # l.id
      /\ \A t \in Replied : t.id # l.id
      /\ \A p \in adapter.pending : l.id = p.id => p.type = "load"
  BY <1>1, Queues DEF Numbered
<1>4. QED BY <1>1, <1>2, <1>3, Queues DEF Numbered

(* It installs it.                                                         *)
LEMMA InstallNumbers ==
  ASSUME Shape, Numbered, UNCHANGED <<adapter, toHost, toWorker>>,
         NEW l \in worker.loads, NEW k, k.id = l.id,
         worker'.loads = (worker.loads \ {l}) \cup {k}
  PROVE  Numbered'
<1>1. Queued' = Queued /\ Ascending' = Ascending /\ Replied' = Replied
  BY DEF Queued, Ascending, Replied
<1>2. QED BY <1>1 DEF Numbered

(* It is answered.                                                         *)
LEMMA LoadNumbers ==
  ASSUME Shape, Numbered, UNCHANGED <<adapter, toWorker>>,
         NEW l \in worker.loads, NEW t, t.id = l.id, Replied' = Replied \cup {t},
         worker'.loads = worker.loads \ {l}
  PROVE  Numbered'
<1>1. Queued' = Queued /\ Ascending' = Ascending
  BY DEF Queued, Ascending
<1>2. QED BY <1>1 DEF Numbered

-----------------------------------------------------------------------------
(* What the page shows.  A mount that waits for a request waits for one    *)
(* only.                                                                   *)
Opens(p) == p.type \in {"load", "mountFile"} /\ ~IsOrphan(p)
AwaitedAt(p) == IF p.type = "load" THEN Loading ELSE {"mounting"}
Awaited ==
  \A p \in adapter.pending : Opens(p) =>
    /\ mounts[p.mount].at \in AwaitedAt(p)
    /\ \A q \in adapter.pending : Opens(q) /\ q.mount = p.mount => q = p

(* Requests that an error event has cut off are older than all others.     *)
CutOff ==
  \A q \in Queued : q \notin adapter.pending =>
    /\ worker.module # 0
    /\ q.type = "mountFile" => host.mode = "demo"
    /\ \A p \in adapter.pending : q.id < p.id

(* A load that will still replace the current core is waited for.          *)
LoadsAreAwaited ==
  \A l \in worker.loads : l.at = "fetching" => \E p \in adapter.pending : p.id = l.id

(* A mount that is answered opened the disc that is still open, unless     *)
(* another load or mount follows, whose answer is still to come.           *)
Shows(d) == d = Current.fs /\ d = Current.volume
Later(i) ==
  \E q \in adapter.pending : Opens(q) /\ \A k \in 1 .. i : toHost[k].id # q.id
AnswersShow ==
  \A i \in 1 .. Len(toHost) : \A p \in adapter.pending :
    p.id = toHost[i].id /\ p.type = "mountFile" /\ toHost[i].ok => Shows(toHost[i].disc) \/ Later(i)

SameDisc == Current'.fs = Current.fs /\ Current'.volume = Current.volume

(* The page's game is that disc when no disc is on its way.                *)
Opening == {m \in Mounts : mounts[m].at \in {"probing", "retrying", "mounting"} \cup Loading}
PageShows == Opening = {} /\ host.mode = "dolphin" => Shows(host.game)

HostType == [mode : {"demo", "dolphin"}, running : BOOLEAN, game : Discs \cup {None}]
Separate == ~(May("overlap") /\ May("trouble"))
DInv ==
  /\ host \in HostType /\ Numbered /\ Awaited /\ CutOff
  /\ Separate => LoadsAreAwaited /\ AnswersShow /\ PageShows

-----------------------------------------------------------------------------
(* Its parts, move by move.                                                *)
LEMMA KeepsCutOff ==
  ASSUME CutOff, \A q \in Queued' : q \notin adapter'.pending => q \in Queued /\ q \notin adapter.pending,
         \A p \in adapter'.pending : p \in adapter.pending \/ \A q \in Queued : q.id < p.id,
         worker.module # 0 => worker'.module # 0, host.mode = "demo" => host'.mode = "demo"
  PROVE  CutOff'
BY DEF CutOff

(* No load is left alone.                                                  *)
LEMMA KeepsLoads ==
  ASSUME LoadsAreAwaited, \A p \in adapter.pending : p \in adapter'.pending \/ \A l \in worker.loads : l.id # p.id,
         \A l \in worker'.loads : l.at = "fetching" => l \in worker.loads
  PROVE  LoadsAreAwaited'
BY DEF LoadsAreAwaited

(* Requests are posted, none that opens a disc is settled.                 *)
LEMMA KeepsAnswers ==
  ASSUME AnswersShow, UNCHANGED toHost, SameDisc,
         \A p \in adapter'.pending : p \in adapter.pending \/ \A t \in Replied : t.id # p.id,
         \A p \in adapter.pending : Opens(p) => p \in adapter'.pending
  PROVE  AnswersShow'
<1>1. SUFFICES ASSUME NEW i \in 1 .. Len(toHost), NEW p \in adapter'.pending,
                      p.id = toHost[i].id, p.type = "mountFile", toHost[i].ok
               PROVE  Shows(toHost[i].disc)' \/ Later(i)'
  BY DEF AnswersShow
<1>2. p \in adapter.pending
  BY <1>1 DEF Replied
<1>3. CASE Shows(toHost[i].disc)
  BY <1>3 DEF Shows, SameDisc
<1>4. CASE Later(i)
  BY <1>4 DEF Later, Opens
<1>5. QED BY <1>1, <1>2, <1>3, <1>4 DEF AnswersShow

(* The oldest answer is delivered.                                         *)
LEMMA DropsAnswer ==
  ASSUME Shape, AnswersShow, toHost # <<>>, toHost' = Tail(toHost), SameDisc,
         \A p \in adapter'.pending : p \in adapter.pending \/ \A t \in Replied : t.id # p.id,
         \A p \in adapter.pending : p.id # toHost[1].id => p \in adapter'.pending
  PROVE  AnswersShow'
<1>1. SUFFICES ASSUME NEW i \in 1 .. Len(toHost'), NEW p \in adapter'.pending,
                      p.id = toHost'[i].id, p.type = "mountFile", toHost'[i].ok
               PROVE  Shows(toHost[i].disc)' \/ Later(i)'
  BY DEF AnswersShow
<1>2. /\ i + 1 \in 1 .. Len(toHost) /\ toHost'[i] = toHost[i + 1]
      /\ \A k \in 1 .. Len(toHost') : toHost'[k] = toHost[k + 1]
  BY Delivers
<1>3. p \in adapter.pending
  BY <1>1, <1>2 DEF Replied
<1>4. CASE Shows(toHost[i + 1].disc)
  BY <1>2, <1>4 DEF Shows, SameDisc
<1>5. CASE Later(i + 1)
  <2>1. PICK q \in adapter.pending : Opens(q) /\ \A k \in 1 .. (i + 1) : toHost[k].id # q.id
    BY <1>5 DEF Later
  <2>2. /\ 1 \in 1 .. (i + 1)
        /\ \A k \in 1 .. i : k + 1 \in 1 .. (i + 1) /\ k \in 1 .. Len(toHost')
    <3>1. Len(toHost') \in Nat
      BY Delivers DEF Shape
    <3>2. QED BY <3>1
  <2>3. q \in adapter'.pending
    BY <2>1, <2>2
  <2>4. \A k \in 1 .. i : toHost'[k].id # q.id
    BY <1>2, <2>1, <2>2
  <2>5. QED BY <2>1, <2>3, <2>4 DEF Later, Opens
<1>6. QED BY <1>1, <1>2, <1>3, <1>4, <1>5 DEF AnswersShow

(* An answer that opened no disc is added.                                 *)
LEMMA AddsAnswer ==
  ASSUME Shape, AnswersShow, UNCHANGED adapter, SameDisc,
         NEW id, NEW ok, NEW disc, Answer(id, ok, disc),
         \A p \in adapter.pending : p.id = id /\ p.type = "mountFile" => ~ok
  PROVE  AnswersShow'
<1>1. PICK t : /\ t = [id |-> id, ok |-> ok, disc |-> disc]
               /\ Len(toHost) \in Nat
               /\ 1 .. Len(toHost') = 1 .. Len(toHost) \cup {Len(toHost) + 1}
               /\ toHost'[Len(toHost) + 1] = t
               /\ \A i \in 1 .. Len(toHost) : toHost'[i] = toHost[i]
  BY Answers
<1>2. SUFFICES ASSUME NEW i \in 1 .. Len(toHost'), NEW p \in adapter.pending,
                      p.id = toHost'[i].id, p.type = "mountFile", toHost'[i].ok
               PROVE  Shows(toHost[i].disc)' \/ Later(i)'
  BY DEF AnswersShow
<1>3. i \in 1 .. Len(toHost)
  BY <1>1, <1>2
<1>4. \A k \in 1 .. i : k \in 1 .. Len(toHost)
  BY <1>1, <1>3
<1>5. CASE Shows(toHost[i].disc)
  BY <1>1, <1>3, <1>5 DEF Shows, SameDisc
<1>6. CASE Later(i)
  BY <1>1, <1>4, <1>6 DEF Later, Opens
<1>7. QED BY <1>1, <1>2, <1>3, <1>5, <1>6 DEF AnswersShow

-----------------------------------------------------------------------------
(* A request that opens a disc belongs to a mount.                         *)
LEMMA OpeningMounts ==
  ASSUME Shape
  PROVE  \A p \in adapter.pending : Opens(p) => p.mount \in Mounts
<1>1. \A p \in adapter.pending : Opens(p) => p \in Req
  BY Entries DEF Shape, AdapterType, Opens
<1>2. QED BY <1>1 DEF Req, Opens

(* The page's steps that ask for no disc.                                  *)
LEMMA CommandShows ==
  ASSUME Shape, DInv, UNCHANGED <<toHost, worker, cores>>, budget'.may = budget.may,
         host' \in HostType, host'.mode = host.mode, host'.game = host.game,
         \A m \in Mounts : \/ mounts'[m].at = mounts[m].at
                           \/ {mounts[m].at, mounts'[m].at} \subseteq {"starting", "done"},
         \/ UNCHANGED <<adapter, toWorker>>
         \/ \E r : /\ r.id = adapter.nextId /\ ~Opens(r)
                   /\ adapter'.pending = adapter.pending \cup {r}
                   /\ adapter'.nextId = adapter.nextId + 1 /\ toWorker' = Append(toWorker, r)
  PROVE  DInv'
<1>1. SameDisc /\ Replied' = Replied /\ (Separate <=> Separate')
  BY DEF SameDisc, Current, Replied, Separate, May
<1>2. Opening' = Opening
  BY DEF Opening, Loading
<1>3. PageShows => PageShows'
  BY <1>1, <1>2 DEF PageShows, Shows, SameDisc
<1>4. CASE UNCHANGED <<adapter, toWorker>>
  <2>1. Numbered'
    BY <1>1, <1>4, SettleNumbers DEF DInv
  <2>2. Awaited'
    BY <1>4, OpeningMounts DEF DInv, Awaited, Opens, AwaitedAt, Loading
  <2>3. CutOff'
    BY <1>4 DEF DInv, CutOff, Queued
  <2>4. LoadsAreAwaited => LoadsAreAwaited'
    BY <1>4 DEF LoadsAreAwaited
  <2>5. AnswersShow => AnswersShow'
    BY <1>1, <1>4, KeepsAnswers
  <2>6. QED BY <1>1, <1>3, <2>1, <2>2, <2>3, <2>4, <2>5 DEF DInv
<1>5. ASSUME NEW r, r.id = adapter.nextId, ~Opens(r), adapter'.pending = adapter.pending \cup {r},
             adapter'.nextId = adapter.nextId + 1, toWorker' = Append(toWorker, r)
      PROVE  DInv'
  <2>1. Numbered'
    BY <1>1, <1>5, SendNumbers DEF DInv
  <2>2. Awaited'
    BY <1>5, OpeningMounts DEF DInv, Awaited, Opens, AwaitedAt, Loading
  <2>3. CutOff'
    <3>1. Queued' = Queued \cup {r}
      BY <1>5, Posts
    <3>2. \A q \in Queued : q.id < r.id
      BY <1>5 DEF DInv, Numbered
    <3>3. QED BY <1>5, <3>1, <3>2, KeepsCutOff DEF DInv
  <2>4. LoadsAreAwaited => LoadsAreAwaited'
    BY <1>5 DEF LoadsAreAwaited
  <2>5. AnswersShow => AnswersShow'
    <3>1. \A t \in Replied : t.id # r.id
      BY <1>5, Queues DEF DInv, Numbered
    <3>2. QED BY <1>1, <1>5, <3>1, KeepsAnswers
  <2>6. QED BY <1>1, <1>3, <2>1, <2>2, <2>3, <2>4, <2>5 DEF DInv
<1>6. QED BY <1>4, <1>5

(* Those that ask for one.                                                 *)
LEMMA AskShows ==
  ASSUME Shape, DInv, UNCHANGED <<host, worker, cores, budget>>,
         NEW r, Opens(r), r.id = adapter.nextId, r.mount \in Mounts,
         r \in adapter'.pending, adapter'.pending \subseteq adapter.pending \cup {r},
         adapter'.nextId = adapter.nextId + 1, toWorker' = Append(toWorker, r),
         NEW at \in AwaitedAt(r), mounts' = [mounts EXCEPT ![r.mount].at = at],
         \A p \in adapter'.pending : Opens(p) /\ p.mount = r.mount => p = r,
         \A p \in adapter.pending : p \in adapter'.pending \/ \E t \in Replied : t.id = p.id,
         Replied' \subseteq Replied, AnswersShow => AnswersShow'
  PROVE  DInv'
<1>1. Separate <=> Separate'
  BY DEF Separate, May
<1>2. Numbered'
  BY SendNumbers DEF DInv
<1>3. mounts \in [Mounts -> MountType]
  BY DEF Shape
<1>4. /\ mounts'[r.mount].at = at
      /\ \A m \in Mounts : m # r.mount => mounts'[m] = mounts[m]
  BY <1>3 DEF MountType
<1>5. Awaited'
  BY <1>4, OpeningMounts DEF DInv, Awaited, Opens, AwaitedAt
<1>6. CutOff'
  <2>1. Queued' = Queued \cup {r}
    BY Posts
  <2>2. \A q \in Queued : q.id < r.id
    BY DEF DInv, Numbered
  <2>3. \A q \in Queued : \A t \in Replied : t.id # q.id
    BY Queues DEF DInv, Numbered
  <2>4. QED BY <2>1, <2>2, <2>3, KeepsCutOff DEF DInv
<1>7. LoadsAreAwaited => LoadsAreAwaited'
  BY KeepsLoads, Queues DEF DInv, Numbered
<1>8. PageShows'
  BY <1>4 DEF PageShows, Opening, AwaitedAt
<1>9. QED BY <1>1, <1>2, <1>5, <1>6, <1>7, <1>8 DEF DInv

(* A reply that is read and makes the page ask for nothing.                *)
LEMMA SettledShows ==
  ASSUME Shape, DInv, UNCHANGED <<toWorker, worker, cores, budget>>,
         toHost # <<>>, toHost' = Tail(toHost),
         adapter'.pending \subseteq adapter.pending, adapter'.nextId = adapter.nextId,
         \A p \in adapter.pending : p \in adapter'.pending \/ p.id = toHost[1].id,
         host' \in HostType,
         host'.mode = "demo" \/ host'.mode = host.mode \/ \E p \in adapter.pending : p.id = toHost[1].id,
         Awaited', Separate => PageShows'
  PROVE  DInv'
<1>1. SameDisc /\ (Separate <=> Separate') /\ Queued' = Queued
  BY DEF SameDisc, Current, Separate, May, Queued
<1>2. toHost[1] \in Replied /\ Replied' \subseteq Replied
  BY Delivers
<1>3. Numbered'
  BY <1>2, SettleNumbers DEF DInv
<1>4. CutOff'
  <2>1. SUFFICES ASSUME NEW q \in Queued, q \notin adapter'.pending
                 PROVE  /\ worker.module # 0
                        /\ q.type = "mountFile" => host'.mode = "demo"
                        /\ \A p \in adapter'.pending : q.id < p.id
    BY <1>1 DEF CutOff
  <2>2. toHost[1].id < q.id /\ q.id \in Nat /\ toHost[1].id \in Nat
    BY <1>2, Queues DEF DInv, Numbered
  <2>3. q \notin adapter.pending
    BY <2>1, <2>2
  <2>4. \A p \in adapter.pending : q.id < p.id /\ p.id \in Nat
    BY <2>3, Queues DEF DInv, CutOff
  <2>5. \A p \in adapter.pending : p.id # toHost[1].id
    BY <2>2, <2>4
  <2>6. QED BY <2>3, <2>4, <2>5 DEF DInv, CutOff
<1>5. LoadsAreAwaited => LoadsAreAwaited'
  <2>1. \A l \in worker.loads : l.id # toHost[1].id
    BY <1>2 DEF DInv, Numbered
  <2>2. QED BY <2>1, KeepsLoads
<1>6. AnswersShow => AnswersShow'
  BY <1>1, DropsAnswer
<1>7. QED BY <1>1, <1>3, <1>4, <1>5, <1>6 DEF DInv

(* The worker's steps, as far as they leave the disc alone.                *)
LEMMA WorkerShows ==
  ASSUME Shape, DInv, UNCHANGED <<mounts, host, adapter, budget>>, Numbered',
         Queued' \subseteq Queued, worker.module # 0 => worker'.module # 0,
         LoadsAreAwaited => LoadsAreAwaited',
         Separate => AnswersShow' /\ PageShows'
  PROVE  DInv'
<1>1. Separate <=> Separate'
  BY DEF Separate, May
<1>2. Awaited'
  BY DEF DInv, Awaited, Opens
<1>3. CutOff'
  BY KeepsCutOff DEF DInv
<1>4. QED BY <1>1, <1>2, <1>3 DEF DInv

-----------------------------------------------------------------------------
(* A disc is picked: the page shows no game until it is there.             *)
LEMMA OpenDiscShows ==
  ASSUME IInv, DInv, NEW m \in Mounts, NEW d \in Discs, OpenDisc(m, d)
  PROVE  DInv'
<1>1. /\ Shape /\ mounts \in [Mounts -> MountType] /\ mounts[m].at = "idle"
      /\ mounts' = [mounts EXCEPT ![m] = [disc |-> d, at |-> "probing"]]
      /\ host' = [host EXCEPT !.game = None]
      /\ UNCHANGED <<adapter, toWorker, toHost, worker, cores, budget>>
  BY DEF OpenDisc, IInv, Shape
<1>2. /\ SameDisc /\ (Separate <=> Separate') /\ Queued' = Queued /\ Replied' = Replied
  BY <1>1 DEF SameDisc, Current, Separate, May, Queued, Replied
<1>3. host' \in HostType /\ host'.mode = host.mode
  BY <1>1 DEF DInv, HostType
<1>4. mounts'[m].at = "probing" /\ \A k \in Mounts : k # m => mounts'[k] = mounts[k]
  BY <1>1
<1>5. Numbered'
  BY <1>1, <1>2, SettleNumbers DEF DInv
<1>6. Awaited'
  BY <1>1, <1>4, OpeningMounts DEF DInv, Awaited, Opens, AwaitedAt, Loading
<1>7. CutOff'
  BY <1>1, <1>2, <1>3, KeepsCutOff DEF DInv
<1>8. LoadsAreAwaited => LoadsAreAwaited'
  BY <1>1 DEF LoadsAreAwaited
<1>9. AnswersShow => AnswersShow'
  BY <1>1, <1>2, KeepsAnswers
<1>10. PageShows'
  BY <1>4 DEF PageShows, Opening
<1>11. QED BY <1>2, <1>3, <1>5, <1>6, <1>7, <1>8, <1>9, <1>10 DEF DInv

(* LoadThenMount's request.                                                *)
AsksFor(a, m, d, r) ==
  /\ Opens(r) /\ r.id = a.nextId /\ r.mount = m
  /\ r.type = IF a.loaded THEN "mountFile" ELSE "load"
  /\ r.type = "mountFile" => r.disc = d
  /\ adapter'.pending = a.pending \cup {r} /\ adapter'.nextId = a.nextId + 1
  /\ toWorker' = Append(toWorker, r)
  /\ \E at \in AwaitedAt(r) : mounts' = [mounts EXCEPT ![r.mount].at = at]

(* What it posts.                                                          *)
LEMMA Asks ==
  ASSUME NEW a \in AdapterType, NEW m \in Mounts, NEW d, LoadThenMount(a, m, d)
  PROVE  \E r : AsksFor(a, m, d, r)
<1>1. PICK r : r = [id |-> a.nextId, type |-> IF a.loaded THEN "mountFile" ELSE "load",
                    mount |-> m, disc |-> IF a.loaded THEN d ELSE None]
  OBVIOUS
<1>2. /\ r.id = a.nextId /\ r.mount = m /\ r.type = IF a.loaded THEN "mountFile" ELSE "load"
      /\ r.type = "mountFile" => r.disc = d
      /\ ~IsOrphan(r)
  <2>1. m # 0
    BY SessionAssumption DEF Mounts
  <2>2. QED BY <1>1, <2>1 DEF IsOrphan
<1>3. /\ adapter' = [a EXCEPT !.pending = @ \cup {r}, !.nextId = @ + 1]
      /\ toWorker' = Append(toWorker, r)
      /\ \E at \in AwaitedAt(r) : mounts' = [mounts EXCEPT ![m].at = at]
  BY <1>1 DEF LoadThenMount, Send, AwaitedAt, Loading
<1>4. adapter'.pending = a.pending \cup {r} /\ adapter'.nextId = a.nextId + 1
  BY <1>3 DEF AdapterType
<1>5. AsksFor(a, m, d, r)
  BY <1>2, <1>3, <1>4 DEF Opens, AsksFor
<1>6. QED BY <1>5

(* The disc was checked.                                                   *)
LEMMA ProbedShows ==
  ASSUME IInv, DInv, NEW m \in Mounts, Probed(m)
  PROVE  DInv'
<1>1. /\ Shape /\ adapter \in AdapterType /\ LoadThenMount(adapter, m, mounts[m].disc)
      /\ UNCHANGED <<host, toHost, worker, cores, budget>> /\ mounts[m].at = "probing"
  BY DEF Probed, IInv, Shape
<1>2. PICK r : AsksFor(adapter, m, mounts[m].disc, r)
  BY <1>1, Asks
<1>3. \A p \in adapter.pending : Opens(p) => p.mount # m
  BY <1>1 DEF DInv, Awaited, AwaitedAt, Loading
<1>4. Replied' = Replied /\ SameDisc
  BY <1>1 DEF Replied, SameDisc, Current
<1>5. \A t \in Replied : t.id # r.id
  BY <1>1, <1>2, Queues DEF DInv, Numbered, AsksFor
<1>6. AnswersShow => AnswersShow'
  BY <1>1, <1>2, <1>4, <1>5, KeepsAnswers DEF AsksFor
<1>7. QED BY <1>1, <1>2, <1>3, <1>4, <1>6, AskShows DEF AsksFor

(* The load is asked for again.                                            *)
LEMMA LoadAgainShows ==
  ASSUME IInv, DInv, NEW m \in Mounts, LoadAgain(m)
  PROVE  DInv'
<1>1. /\ Shape /\ adapter \in AdapterType /\ Send(adapter, "load", m, None)
      /\ UNCHANGED <<host, toHost, worker, cores, budget>> /\ mounts[m].at = "retrying"
      /\ mounts' = [mounts EXCEPT ![m].at = "reloading"]
  BY DEF LoadAgain, IInv, Shape
<1>2. PICK r : r = [id |-> adapter.nextId, type |-> "load", mount |-> m, disc |-> None]
  OBVIOUS
<1>3. /\ adapter'.pending = adapter.pending \cup {r} /\ adapter'.nextId = adapter.nextId + 1
      /\ toWorker' = Append(toWorker, r) /\ r.id = adapter.nextId /\ r.mount = m
  BY <1>1, <1>2 DEF Send, AdapterType
<1>4. Opens(r) /\ "reloading" \in AwaitedAt(r)
  <2>1. m # 0
    BY SessionAssumption DEF Mounts
  <2>2. QED BY <1>2, <2>1 DEF Opens, IsOrphan, AwaitedAt, Loading
<1>5. \A p \in adapter.pending : Opens(p) => p.mount # m
  BY <1>1 DEF DInv, Awaited, AwaitedAt, Loading
<1>6. Replied' = Replied /\ SameDisc
  BY <1>1 DEF Replied, SameDisc, Current
<1>7. \A t \in Replied : t.id # r.id
  BY <1>1, <1>3, Queues DEF DInv, Numbered
<1>8. AnswersShow => AnswersShow'
  BY <1>1, <1>3, <1>6, <1>7, KeepsAnswers
<1>9. QED BY <1>1, <1>3, <1>4, <1>5, <1>6, <1>8, AskShows

(* The canvas is refused: nothing is under way yet.                        *)
LEMMA RefuseCanvasShows ==
  ASSUME IInv, DInv, NEW m \in Mounts, RefuseCanvas(m)
  PROVE  DInv'
<1>1. /\ Shape /\ Alone /\ adapter \in AdapterType /\ adapter.nextId = 1
      /\ adapter' = [adapter EXCEPT !.pending = @ \cup {OrphanLoad(1)}, !.nextId = 2]
      /\ UNCHANGED <<toWorker, toHost, worker, cores, budget>>
      /\ \E again \in BOOLEAN : LoadRejected(m, again)
  BY DEF RefuseCanvas, IInv, Shape
<1>2. adapter.pending = {} /\ Queued = {} /\ worker.loads = {} /\ Replied = {}
  BY <1>1 DEF Alone
<1>3. Queued' = {} /\ worker'.loads = {} /\ Replied' = {} /\ Ascending' = Ascending
  BY <1>1, <1>2 DEF Queued, Replied, Ascending
<1>4. PICK o : o = OrphanLoad(1)
  OBVIOUS
<1>5. o.id = 1 /\ ~Opens(o)
  BY <1>4, Entries DEF Opens
<1>6. adapter'.pending = {o} /\ adapter'.nextId = 2
  <2>1. adapter' = [adapter EXCEPT !.pending = @ \cup {o}, !.nextId = 2]
    BY <1>1, <1>4
  <2>2. QED BY <1>1, <1>2, <2>1 DEF AdapterType
<1>7. Numbered'
  BY <1>3, <1>5, <1>6 DEF DInv, Numbered
<1>8. Awaited' /\ CutOff' /\ LoadsAreAwaited'
  BY <1>3, <1>5, <1>6 DEF Awaited, CutOff, LoadsAreAwaited, Opens
<1>9. AnswersShow'
  BY <1>3 DEF AnswersShow, Replied
<1>10. /\ mounts'[m].at = "retrying" \/ host'.mode = "demo"
       /\ host' \in HostType
  <2>1. PICK again \in BOOLEAN : LoadRejected(m, again)
    BY <1>1
  <2>2. /\ host' = IF again THEN host ELSE [host EXCEPT !.mode = "demo"]
        /\ again => mounts'[m].at = "retrying"
    BY <1>1, <2>1 DEF LoadRejected, AfterFailure, Shape, MountType
  <2>3. QED BY <2>2 DEF DInv, HostType
<1>11. PageShows'
  BY <1>10 DEF PageShows, Opening
<1>12. QED BY <1>7, <1>8, <1>9, <1>10, <1>11 DEF DInv

(* The request of a command or a poll.                                     *)
LEMMA Commands ==
  ASSUME NEW a \in AdapterType, NEW type, type \notin {"load", "mountFile"}, Send(a, type, 0, None)
  PROVE  \E r : /\ r.id = a.nextId /\ ~Opens(r)
                /\ adapter'.pending = a.pending \cup {r} /\ adapter'.nextId = a.nextId + 1
                /\ toWorker' = Append(toWorker, r)
<1>1. PICK r : r = [id |-> a.nextId, type |-> type, mount |-> 0, disc |-> None]
  OBVIOUS
<1>2. r.id = a.nextId /\ ~Opens(r)
  BY <1>1 DEF Opens
<1>3. adapter' = [a EXCEPT !.pending = @ \cup {r}, !.nextId = @ + 1] /\ toWorker' = Append(toWorker, r)
  BY <1>1 DEF Send
<1>4. adapter'.pending = a.pending \cup {r} /\ adapter'.nextId = a.nextId + 1
  BY <1>3 DEF AdapterType
<1>5. QED BY <1>2, <1>3, <1>4

(* The page goes on, the user clicks, the page polls.                      *)
PageCommand == (\E m \in Mounts : StartAfterMount(m)) \/ ClickRun \/ ClickReset \/ PollFrame

(* They post no request that opens a disc.                                 *)
LEMMA PageCommands ==
  ASSUME Shape, PageCommand
  PROVE  /\ UNCHANGED <<toHost, worker, cores>> /\ budget'.may = budget.may
         /\ \A m \in Mounts :
              /\ mounts'[m].disc = mounts[m].disc
              /\ \/ mounts'[m].at = mounts[m].at
                 \/ {mounts[m].at, mounts'[m].at} \subseteq {"starting", "done"}
         /\ \/ UNCHANGED <<adapter, toWorker>>
            \/ \E r : /\ r.id = adapter.nextId /\ ~Opens(r)
                      /\ adapter'.pending = adapter.pending \cup {r}
                      /\ adapter'.nextId = adapter.nextId + 1 /\ toWorker' = Append(toWorker, r)
<1>1. adapter \in AdapterType
  BY DEF Shape
<1>2. UNCHANGED <<toHost, worker, cores>> /\ budget'.may = budget.may
  BY DEF PageCommand, StartAfterMount, ClickRun, ClickReset, PollFrame, Shape, BudgetType
<1>3. \A m \in Mounts :
        /\ mounts'[m].disc = mounts[m].disc
        /\ \/ mounts'[m].at = mounts[m].at
           \/ {mounts[m].at, mounts'[m].at} \subseteq {"starting", "done"}
  BY DEF PageCommand, StartAfterMount, ClickRun, ClickReset, PollFrame, Shape, MountType
<1>4. \/ UNCHANGED <<adapter, toWorker>>
      \/ \E a \in AdapterType, type \in {"start", "pause", "reset", "runFrame"} :
           Send(a, type, 0, None) /\ a.pending = adapter.pending /\ a.nextId = adapter.nextId
  <2>1. CASE PollFrame
    <3>1. PICK a : a = [adapter EXCEPT !.framePending = TRUE]
      OBVIOUS
    <3>2. a \in AdapterType /\ a.pending = adapter.pending /\ a.nextId = adapter.nextId
      BY <1>1, <3>1 DEF AdapterType
    <3>3. QED BY <2>1, <3>1, <3>2 DEF PollFrame
  <2>2. CASE (\E m \in Mounts : StartAfterMount(m)) \/ ClickRun \/ ClickReset
    <3>1. \/ UNCHANGED <<adapter, toWorker>>
          \/ \E type \in {"start", "pause", "reset"} : Command(type)
      BY <2>2 DEF StartAfterMount, ClickRun, ClickReset
    <3>2. QED BY <1>1, <3>1 DEF Command
  <2>3. QED BY <2>1, <2>2 DEF PageCommand
<1>5. \/ UNCHANGED <<adapter, toWorker>>
      \/ \E r : /\ r.id = adapter.nextId /\ ~Opens(r)
                /\ adapter'.pending = adapter.pending \cup {r}
                /\ adapter'.nextId = adapter.nextId + 1 /\ toWorker' = Append(toWorker, r)
  BY <1>4, Commands
<1>6. QED BY <1>2, <1>3, <1>5

(* So they leave what the page shows as it is.                             *)
LEMMA PageCommandShows ==
  ASSUME IInv, DInv, PageCommand
  PROVE  DInv'
<1>1. Shape
  BY DEF IInv
<1>2. host' \in HostType /\ host'.mode = host.mode /\ host'.game = host.game
  BY DEF PageCommand, StartAfterMount, ClickRun, ClickReset, PollFrame, DInv, HostType
<1>3. QED BY <1>1, <1>2, PageCommands, CommandShows

-----------------------------------------------------------------------------
(* A request that is taken is pending, or an error event has cut it off.   *)
LEMMA Taken ==
  ASSUME IInv, DInv, NEW type, Receives(type)
  PROVE  /\ Shape /\ UNCHANGED <<mounts, host, adapter, budget>>
         /\ toWorker # <<>> /\ toWorker' = Tail(toWorker) /\ Head(toWorker).type = type
         /\ Head(toWorker) \in Queued /\ Queued' \subseteq Queued
         /\ \A p \in adapter.pending : p.id = Head(toWorker).id => p = Head(toWorker)
<1>1. /\ Shape /\ UNCHANGED <<mounts, host, adapter, budget>>
      /\ toWorker # <<>> /\ toWorker' = Tail(toWorker) /\ Head(toWorker).type = type
  BY DEF Receives, IInv
<1>2. Head(toWorker) \in Queued /\ Queued' \subseteq Queued
  BY <1>1, Takes
<1>3. QED BY <1>1, <1>2 DEF DInv, Numbered

(* It is answered, and the disc stays.                                     *)
LEMMA AnsweredShows ==
  ASSUME IInv, DInv, NEW type, Receives(type), NEW ok, NEW disc,
         Answer(Head(toWorker).id, ok, disc),
         type = "mountFile" => ~ok, UNCHANGED <<worker, cores>>
  PROVE  DInv'
<1>1. /\ Shape /\ UNCHANGED <<mounts, host, adapter, budget>>
      /\ toWorker # <<>> /\ toWorker' = Tail(toWorker) /\ Head(toWorker).type = type
      /\ Head(toWorker) \in Queued /\ Queued' \subseteq Queued
      /\ \A p \in adapter.pending : p.id = Head(toWorker).id => p = Head(toWorker)
  BY Taken
<1>2. PICK t : t.id = Head(toWorker).id /\ Replied' = Replied \cup {t}
  BY <1>1, Answers
<1>3. Numbered'
  BY <1>1, <1>2, AnswerNumbers DEF DInv
<1>4. SameDisc
  BY DEF SameDisc, Current
<1>5. AnswersShow => AnswersShow'
  BY <1>1, <1>4, AddsAnswer
<1>6. PageShows => PageShows'
  BY <1>1, <1>4 DEF PageShows, Opening, Shows, SameDisc
<1>7. LoadsAreAwaited => LoadsAreAwaited'
  BY <1>1 DEF LoadsAreAwaited
<1>8. QED BY <1>1, <1>3, <1>5, <1>6, <1>7, WorkerShows DEF DInv

(* Frames, resets, starts and pauses are answered like that.               *)
LEMMA ServeOtherShows ==
  ASSUME IInv, DInv, ServeFrame \/ ServeUnknown
  PROVE  DInv'
<1>1. PICK type \in {"runFrame", "reset", "start", "pause"}, ok \in BOOLEAN :
        /\ Receives(type) /\ Answer(Head(toWorker).id, ok, None)
        /\ UNCHANGED <<worker, cores>>
  BY DEF ServeFrame, ServeUnknown
<1>2. QED BY <1>1, AnsweredShows

(* A load that has nothing to answer yet is still awaited, as there is no  *)
(* module: an error event needs one.                                       *)
LEMMA ServeLoadShows ==
  ASSUME IInv, DInv, ServeLoad
  PROVE  DInv'
<1>1. Receives("load") /\ LoadCore(Head(toWorker).id)
  BY DEF ServeLoad
<1>2. CASE worker.module # 0
  <2>1. PICK ok \in BOOLEAN : Answer(Head(toWorker).id, ok, None) /\ UNCHANGED <<worker, cores>>
    BY <1>1, <1>2 DEF LoadCore
  <2>2. QED BY <1>1, <2>1, AnsweredShows
<1>3. CASE worker.module = 0
  <2> DEFINE l == [id |-> Head(toWorker).id, at |-> "fetching"]
  <2>1. /\ Shape /\ UNCHANGED <<mounts, host, adapter, budget>>
        /\ toWorker # <<>> /\ toWorker' = Tail(toWorker) /\ Head(toWorker).type = "load"
        /\ Head(toWorker) \in Queued /\ Queued' \subseteq Queued
    BY <1>1, Taken
  <2>2. UNCHANGED <<toHost, cores>> /\ worker' = [worker EXCEPT !.loads = @ \cup {l}]
    BY <1>1, <1>3 DEF LoadCore
  <2>3. l.id = Head(toWorker).id
    OBVIOUS
  <2> HIDE DEF l
  <2>4. worker'.loads = worker.loads \cup {l} /\ worker'.module = worker.module
    BY <2>1, <2>2 DEF Shape, WorkerType
  <2>5. Numbered'
    BY <2>1, <2>2, <2>3, <2>4, FetchNumbers DEF DInv
  <2>6. Head(toWorker) \in adapter.pending
    BY <1>3, <2>1 DEF DInv, CutOff
  <2>7. LoadsAreAwaited => LoadsAreAwaited'
    BY <2>1, <2>3, <2>4, <2>6 DEF LoadsAreAwaited
  <2>8. SameDisc
    BY <2>2, <2>4 DEF SameDisc, Current
  <2>9. AnswersShow => AnswersShow'
    BY <2>1, <2>2, <2>8, KeepsAnswers
  <2>10. PageShows => PageShows'
    BY <2>1, <2>8 DEF PageShows, Opening, Shows, SameDisc
  <2>11. QED BY <2>1, <2>4, <2>5, <2>7, <2>9, <2>10, WorkerShows DEF DInv
<1>4. QED BY <1>2, <1>3

(* The disc of a mount is the one that is open from then on.               *)
LEMMA MountOpens ==
  ASSUME Shape, NEW q \in Req, MountFile(q.id, q.disc), worker.module # 0, CanRemount
  PROVE  /\ worker'.loads = worker.loads /\ worker'.module = worker.module /\ worker'.mounted
         /\ Current'.fs = q.disc
         /\ Current'.volume = IF q.disc \in Readable THEN q.disc ELSE None
         /\ Answer(q.id, q.disc \in Readable, IF q.disc \in Readable THEN q.disc ELSE None)
<1> DEFINE volume == IF q.disc \in Readable THEN q.disc ELSE None
           disc == [Current EXCEPT !.fs = q.disc, !.volume = volume]
<1>1. /\ worker' = MarkMounted(q.disc) /\ Answer(q.id, q.disc \in Readable, volume)
      /\ (\E accepted \in BOOLEAN : OnCurrent(Boot(disc, q.disc, accepted))) \/ OnCurrent(disc)
  BY DEF MountFile
<1>2. worker'.loads = worker.loads /\ worker'.module = worker.module /\ worker'.mounted
  BY <1>1 DEF MarkMounted, Shape, WorkerType
<1>3. worker.module \in 1 .. Len(cores) /\ Current \in CoreType
  BY DEF Shape, WorkerType, Current
<1>4. q.disc \in Discs \cup {None} /\ volume \in Discs \cup {None}
  BY DEF Req
<1> HIDE DEF volume
<1>5. disc \in CoreType /\ disc.fs = q.disc /\ disc.volume = volume
  BY <1>3, <1>4 DEF CoreType
<1> HIDE DEF disc
<1>6. PICK core : OnCurrent(core) /\ core.fs = q.disc /\ core.volume = volume
  <2>1. ASSUME NEW accepted \in BOOLEAN
        PROVE  /\ Boot(disc, q.disc, accepted).fs = disc.fs
               /\ Boot(disc, q.disc, accepted).volume = disc.volume
    BY <1>5 DEF Boot, CoreType
  <2>2. QED BY <1>1, <1>5, <2>1
<1>7. Current' = core
  BY <1>2, <1>3, <1>6 DEF OnCurrent, Current, Shape
<1>8. QED BY <1>1, <1>2, <1>6, <1>7 DEF volume

(* Any other disc that was to be shown is not shown any more, but then the *)
(* answer to this mount is still to come; unless it was cut off, and then  *)
(* the page is back in its demo mode and waits for no older answer.        *)
LEMMA ServeMountShows ==
  ASSUME IInv, DInv, ServeMount
  PROVE  DInv'
<1> DEFINE q == Head(toWorker)
<1>1. /\ Receives("mountFile") /\ MountFile(q.id, q.disc)
  BY DEF ServeMount
<1>2. /\ Shape /\ UNCHANGED <<mounts, host, adapter, budget>>
      /\ toWorker # <<>> /\ toWorker' = Tail(toWorker) /\ q.type = "mountFile"
      /\ q \in Queued /\ Queued' \subseteq Queued
      /\ \A p \in adapter.pending : p.id = q.id => p = q
  BY <1>1, Taken
<1>3. q \in Req
  BY <1>2, Queues
<1>4. CASE worker.module = 0 \/ ~CanRemount
  BY <1>1, <1>4, AnsweredShows DEF MountFile
<1>5. CASE worker.module # 0 /\ CanRemount
  <2> DEFINE volume == IF q.disc \in Readable THEN q.disc ELSE None
             ok == q.disc \in Readable
  <2>1. PICK t : t = [id |-> q.id, ok |-> ok, disc |-> volume] /\ Replied' = Replied \cup {t}
                 /\ Len(toHost) \in Nat
                 /\ 1 .. Len(toHost') = 1 .. Len(toHost) \cup {Len(toHost) + 1}
                 /\ toHost'[Len(toHost) + 1] = t
                 /\ \A i \in 1 .. Len(toHost) : toHost'[i] = toHost[i]
    <3>1. Answer(q.id, ok, volume)
      BY <1>1, <1>2, <1>3, <1>5, MountOpens
    <3> HIDE DEF q, ok, volume
    <3>2. QED BY <1>2, <3>1, Answers
  <2>2. /\ worker'.loads = worker.loads /\ worker'.module = worker.module
        /\ Current'.fs = q.disc /\ Current'.volume = volume
    BY <1>1, <1>2, <1>3, <1>5, MountOpens
  <2>3. t.id = q.id /\ t.ok = ok /\ t.disc = volume
    BY <2>1
  <2>4. Numbered'
    BY <1>2, <2>1, <2>2, <2>3, AnswerNumbers DEF DInv
  <2>5. LoadsAreAwaited => LoadsAreAwaited'
    BY <1>2, <2>2 DEF LoadsAreAwaited
  <2>6. ASSUME q \in adapter.pending PROVE AnswersShow' /\ PageShows'
    <3>1. q.mount \in Mounts /\ mounts[q.mount].at = "mounting"
      BY <1>2, <2>6, OpeningMounts DEF DInv, Awaited, Opens, AwaitedAt, IsOrphan
    <3>2. PageShows'
      BY <1>2, <3>1 DEF PageShows, Opening
    <3>3. \A u \in Replied : u.id # q.id
      BY <1>2, Queues DEF DInv, Numbered
    <3>4. ASSUME NEW i \in 1 .. Len(toHost) PROVE Later(i)'
      <4>1. \A k \in 1 .. i : k \in 1 .. Len(toHost)
        BY <2>1
      <4>2. \A k \in 1 .. i : toHost'[k].id # q.id
        BY <2>1, <3>3, <4>1 DEF Replied
      <4>3. QED BY <1>2, <2>6, <4>2 DEF Later, Opens, IsOrphan
    <3>5. ASSUME NEW i \in 1 .. Len(toHost'), toHost'[i].ok
          PROVE  Shows(toHost[i].disc)' \/ Later(i)'
      <4>1. CASE i \in 1 .. Len(toHost)
        BY <3>4, <4>1
      <4>2. CASE i = Len(toHost) + 1
        <5>1. ok /\ toHost'[i].disc = volume
          BY <2>1, <2>3, <3>5, <4>2
        <5>2. volume = q.disc
          BY <5>1
        <5>3. QED BY <2>2, <5>1, <5>2 DEF Shows
      <4>3. QED BY <2>1, <4>1, <4>2
    <3>6. QED BY <3>2, <3>5 DEF AnswersShow
  <2>7. ASSUME q \notin adapter.pending PROVE AnswersShow' /\ PageShows'
    <3>1. host.mode = "demo" /\ \A p \in adapter.pending : q.id < p.id
      BY <1>2, <2>7 DEF DInv, CutOff
    <3>2. PageShows'
      BY <1>2, <3>1 DEF PageShows
    <3>3. \A p \in adapter.pending : \A u \in Replied' : u.id # p.id
      BY <1>2, <2>1, <2>3, <3>1, Queues DEF DInv, Numbered
    <3>4. \A i \in 1 .. Len(toHost') : toHost'[i] \in Replied'
      BY DEF Replied
    <3>5. QED BY <1>2, <3>2, <3>3, <3>4 DEF AnswersShow
  <2>8. QED BY <1>2, <2>2, <2>4, <2>5, <2>6, <2>7, WorkerShows DEF DInv
<1>6. QED BY <1>4, <1>5

-----------------------------------------------------------------------------
(* A new core has nothing mounted; its load is awaited, so something is    *)
(* still to come.                                                          *)
LEMMA CreateModuleShows ==
  ASSUME IInv, DInv, NEW l \in worker.loads, CreateModule(l)
  PROVE  DInv'
<1> DEFINE there == [l EXCEPT !.at = "installing"]
<1>1. /\ Shape /\ l.at = "fetching" /\ l \in Load
      /\ UNCHANGED <<mounts, host, adapter, toWorker, toHost, budget>>
      /\ worker \in WorkerType
  BY DEF CreateModule, IInv, Shape, WorkerType
<1>2. there.id = l.id /\ there.at = "installing"
  BY <1>1 DEF Load
<1>3. worker'.loads = (worker.loads \ {l}) \cup {there} /\ worker'.module = worker.created + 1
  <2>1. worker' = [worker EXCEPT !.created = @ + 1, !.module = worker.created + 1,
                                 !.loads = (@ \ {l}) \cup {there}]
    BY DEF CreateModule
  <2> HIDE DEF there
  <2>2. QED BY <1>1, <2>1 DEF WorkerType
<1> HIDE DEF there
<1>4. Numbered'
  BY <1>1, <1>2, <1>3, InstallNumbers DEF DInv
<1>5. Queued' = Queued /\ worker'.module # 0
  BY <1>1, <1>3 DEF Queued, WorkerType
<1>6. LoadsAreAwaited => LoadsAreAwaited'
  BY <1>1, <1>2, <1>3 DEF LoadsAreAwaited
<1>7. ASSUME LoadsAreAwaited PROVE AnswersShow' /\ PageShows'
  <2>1. PICK p \in adapter.pending : p.id = l.id
    BY <1>1, <1>7 DEF LoadsAreAwaited
  <2>2. p.type = "load" /\ ~IsOrphan(p) /\ \A t \in Replied : t.id # p.id
    BY <2>1 DEF DInv, Numbered, IInv, Alone
  <2>3. p.mount \in Mounts /\ mounts[p.mount].at \in Loading
    BY <1>1, <2>2, OpeningMounts DEF DInv, Awaited, Opens, AwaitedAt
  <2>4. PageShows'
    BY <1>1, <2>3 DEF PageShows, Opening
  <2>5. \A i \in 1 .. Len(toHost) : Later(i)'
    <3>1. ASSUME NEW i \in 1 .. Len(toHost) PROVE \A k \in 1 .. i : toHost[k].id # p.id
      <4>1. \A k \in 1 .. i : k \in 1 .. Len(toHost)
        BY <1>1 DEF Shape
      <4>2. QED BY <2>2, <4>1 DEF Replied
    <3>2. QED BY <1>1, <2>2, <3>1 DEF Later, Opens
  <2>6. QED BY <1>1, <2>4, <2>5 DEF AnswersShow
<1>8. QED BY <1>1, <1>4, <1>5, <1>6, <1>7, WorkerShows DEF DInv

(* A load that is answered leaves the disc alone.                          *)
LEMMA LoadAnswerShows ==
  ASSUME IInv, DInv, NEW l \in worker.loads, NEW ok, Answer(l.id, ok, None), SameDisc,
         UNCHANGED <<mounts, host, adapter, toWorker, budget>>,
         worker'.loads = worker.loads \ {l}, worker'.module = worker.module
  PROVE  DInv'
<1>1. Shape /\ Queued' = Queued
  BY DEF IInv, Queued
<1>2. PICK t : t.id = l.id /\ Replied' = Replied \cup {t}
  BY <1>1, Answers
<1>3. Numbered'
  BY <1>1, <1>2, LoadNumbers DEF DInv
<1>4. \A p \in adapter.pending : p.id = l.id => p.type # "mountFile"
  BY DEF DInv, Numbered
<1>5. AnswersShow => AnswersShow'
  BY <1>1, <1>4, AddsAnswer
<1>6. PageShows => PageShows'
  BY <1>1 DEF PageShows, Opening, Shows, SameDisc
<1>7. LoadsAreAwaited => LoadsAreAwaited'
  BY DEF LoadsAreAwaited
<1>8. QED BY <1>1, <1>3, <1>5, <1>6, <1>7, WorkerShows DEF DInv

(* A load ends: the core is ready, or it is not, or there is none.         *)
LEMMA LoadEnds ==
  ASSUME Shape, NEW l \in worker.loads, FinishLoad(l) \/ FailLoad(l)
  PROVE  /\ UNCHANGED <<mounts, host, adapter, toWorker, budget>> /\ SameDisc
         /\ worker'.loads = worker.loads \ {l} /\ worker'.module = worker.module
         /\ worker'.mounted = worker.mounted
         /\ \E ok \in BOOLEAN : Answer(l.id, ok, None)
<1>1. /\ UNCHANGED <<mounts, host, adapter, toWorker, budget>>
      /\ worker' = [worker EXCEPT !.loads = @ \ {l}]
      /\ \E ok \in BOOLEAN : Answer(l.id, ok, None)
  BY DEF FinishLoad, FailLoad
<1>2. /\ worker'.loads = worker.loads \ {l} /\ worker'.module = worker.module
      /\ worker'.mounted = worker.mounted
  BY <1>1 DEF Shape, WorkerType
<1>3. CASE FailLoad(l)
  BY <1>1, <1>2, <1>3 DEF FailLoad, SameDisc, Current
<1>4. CASE FinishLoad(l)
  <2>1. worker.module \in 1 .. Len(cores) /\ Current \in CoreType
    BY <1>4 DEF FinishLoad, Shape, WorkerType, Current
  <2>2. PICK core : core = [Current EXCEPT !.ready = TRUE]
    OBVIOUS
  <2>3. core.fs = Current.fs /\ core.volume = Current.volume
    BY <2>1, <2>2 DEF CoreType
  <2>4. cores' = [cores EXCEPT ![worker.module] = core]
    BY <1>4, <2>2 DEF FinishLoad, OnCurrent
  <2>5. Current' = core
    BY <1>2, <2>1, <2>4 DEF Current, Shape
  <2>6. QED BY <1>1, <1>2, <2>3, <2>5 DEF SameDisc
<1>5. QED BY <1>3, <1>4

(* Neither changes what is open.                                           *)
LEMMA LoadEndShows ==
  ASSUME IInv, DInv, NEW l \in worker.loads, FinishLoad(l) \/ FailLoad(l)
  PROVE  DInv'
<1>1. Shape
  BY DEF IInv
<1>2. QED BY <1>1, LoadEnds, LoadAnswerShows

(* So does a game that runs.                                               *)
LEMMA GameRuns ==
  ASSUME Shape, NEW c \in 1 .. Len(cores), Emulate(c)
  PROVE  UNCHANGED <<mounts, host, adapter, toWorker, toHost, worker, budget>> /\ SameDisc
<1>1. /\ UNCHANGED <<mounts, host, adapter, toWorker, toHost, worker, budget>>
      /\ cores \in Seq(CoreType) /\ cores' = [cores EXCEPT ![c].progress = @ + 1]
      /\ worker.module \in Nat /\ worker.module = Len(cores)
  BY DEF Emulate, Shape, WorkerType
<1>2. worker.module \in 1 .. Len(cores) /\ cores[worker.module] \in CoreType
  BY <1>1
<1>3. CASE c # worker.module
  BY <1>1, <1>2, <1>3 DEF SameDisc, Current
<1>4. CASE c = worker.module
  <2>1. cores'[c] = [cores[c] EXCEPT !.progress = @ + 1]
    BY <1>1
  <2>2. cores'[c].fs = cores[c].fs /\ cores'[c].volume = cores[c].volume
    BY <1>2, <1>4, <2>1 DEF CoreType
  <2>3. QED BY <1>1, <1>4, <2>2 DEF SameDisc, Current
<1>5. QED BY <1>3, <1>4

(* The page shows what it showed.                                          *)
LEMMA EmulateShows ==
  ASSUME IInv, DInv, NEW c \in 1 .. Len(cores), Emulate(c)
  PROVE  DInv'
<1>1. /\ Shape /\ UNCHANGED <<mounts, host, adapter, toWorker, toHost, worker, budget>>
      /\ SameDisc
  BY GameRuns DEF IInv
<1>2. Numbered' /\ Queued' = Queued
  BY <1>1 DEF DInv, Numbered, Queued, Replied, Ascending
<1>3. AnswersShow => AnswersShow'
  BY <1>1, KeepsAnswers
<1>4. PageShows => PageShows'
  BY <1>1 DEF PageShows, Opening, Shows, SameDisc
<1>5. LoadsAreAwaited => LoadsAreAwaited'
  BY <1>1 DEF LoadsAreAwaited
<1>6. QED BY <1>1, <1>2, <1>3, <1>4, <1>5, WorkerShows DEF DInv

-----------------------------------------------------------------------------
(* A reply that nobody waits for.                                          *)
LEMMA DeliverDropShows ==
  ASSUME IInv, DInv, Deliver, \A r \in adapter.pending : r.id # Head(toHost).id
  PROVE  DInv'
<1>1. /\ Shape /\ toHost # <<>> /\ toHost' = Tail(toHost)
      /\ UNCHANGED <<mounts, host, adapter, toWorker, worker, cores, budget>>
  BY DEF Deliver, IInv
<1>2. host' \in HostType /\ Awaited'
  BY <1>1 DEF DInv, Awaited, Opens
<1>3. PageShows => PageShows'
  BY <1>1 DEF PageShows, Opening, Shows, Current
<1>4. QED BY <1>1, <1>2, <1>3, SettledShows DEF DInv

(* A reply that settles request r, which is no longer pending in a.        *)
Settles(a, r) ==
  /\ a.pending = adapter.pending \ {r} /\ a.nextId = adapter.nextId
  /\ r.type = "load" /\ Head(toHost).ok =>
       /\ LoadThenMount([a EXCEPT !.loaded = TRUE], r.mount, mounts[r.mount].disc)
       /\ UNCHANGED host
  /\ r.type = "mountFile" /\ Head(toHost).ok =>
       /\ host' = [host EXCEPT !.mode = "dolphin", !.game = Head(toHost).disc]
       /\ mounts' = [mounts EXCEPT ![r.mount].at = "starting"]
       /\ adapter' = a /\ UNCHANGED toWorker
  /\ r.type \in {"load", "mountFile"} /\ ~Head(toHost).ok =>
       /\ \/ /\ host' = [host EXCEPT !.mode = "demo"]
             /\ mounts' = [mounts EXCEPT ![r.mount].at = "starting"]
          \/ /\ UNCHANGED host /\ r.type = "load"
             /\ mounts' = [mounts EXCEPT ![r.mount].at = "retrying"]
       /\ adapter' = a /\ UNCHANGED toWorker
  /\ r.type \notin {"load", "mountFile"} =>
       /\ adapter' = [a EXCEPT !.framePending = @ /\ r.type # "runFrame"]
       /\ UNCHANGED <<host, mounts, toWorker>>

(* What such a reply does.                                                 *)
LEMMA Settlement ==
  ASSUME Shape, Deliver, NEW r \in adapter.pending, r.id = Head(toHost).id,
         Settle([adapter EXCEPT !.pending = @ \ {r}], r, Head(toHost))
  PROVE  /\ toHost # <<>> /\ toHost' = Tail(toHost) /\ UNCHANGED <<worker, cores, budget>>
         /\ mounts \in [Mounts -> MountType] /\ Head(toHost) \in Rep
         /\ \E a \in AdapterType : Settles(a, r)
<1>1. PICK a : a = [adapter EXCEPT !.pending = @ \ {r}]
  OBVIOUS
<1>2. /\ toHost # <<>> /\ toHost' = Tail(toHost) /\ UNCHANGED <<worker, cores, budget>>
      /\ Settle(a, r, Head(toHost)) /\ mounts \in [Mounts -> MountType]
  BY <1>1 DEF Deliver, Shape
<1>3. adapter \in AdapterType /\ adapter.pending \ {r} \in SUBSET Entry
  BY DEF Shape, AdapterType
<1>4. a \in AdapterType /\ a.pending = adapter.pending \ {r} /\ a.nextId = adapter.nextId
  BY <1>1, <1>3 DEF AdapterType
<1>5. Head(toHost) \in Rep
  BY <1>2 DEF Shape
<1>6. CASE r.type = "load" /\ ~Head(toHost).ok
  <2>1. PICK again \in BOOLEAN : LoadRejected(r.mount, again)
    BY <1>2, <1>6 DEF Settle
  <2>2. adapter' = a /\ UNCHANGED toWorker
    BY <1>2, <1>6 DEF Settle
  <2>3. CASE again
    <3>1. UNCHANGED host /\ mounts' = [mounts EXCEPT ![r.mount].at = "retrying"]
      BY <2>1, <2>3 DEF LoadRejected
    <3>2. QED BY <1>2, <1>4, <1>5, <1>6, <2>2, <3>1 DEF Settles
  <2>4. CASE ~again
    <3>1. /\ host' = [host EXCEPT !.mode = "demo"]
          /\ mounts' = [mounts EXCEPT ![r.mount].at = "starting"]
      BY <2>1, <2>4 DEF LoadRejected, AfterFailure
    <3>2. QED BY <1>2, <1>4, <1>5, <1>6, <2>2, <3>1 DEF Settles
  <2>5. QED BY <2>3, <2>4
<1>7. CASE ~(r.type = "load" /\ ~Head(toHost).ok)
  <2>1. Settles(a, r)
    BY <1>2, <1>4, <1>5, <1>7 DEF Settles, Settle, Rep, AfterFailure
  <2>2. QED BY <1>2, <1>4, <1>5, <2>1
<1>8. QED BY <1>6, <1>7

(* When it makes the page show a disc, nothing else is on its way or the   *)
(* disc is the one that is open.                                           *)
LEMMA DeliverShows ==
  ASSUME IInv, DInv, Deliver, NEW r \in adapter.pending, r.id = Head(toHost).id,
         Settle([adapter EXCEPT !.pending = @ \ {r}], r, Head(toHost))
  PROVE  DInv'
<1>1. /\ Shape /\ toHost # <<>> /\ toHost' = Tail(toHost) /\ UNCHANGED <<worker, cores, budget>>
      /\ mounts \in [Mounts -> MountType] /\ Head(toHost) \in Rep
  BY Settlement DEF IInv
<1>2. PICK a \in AdapterType : Settles(a, r)
  BY Settlement DEF IInv
<1>3. a.pending = adapter.pending \ {r} /\ a.nextId = adapter.nextId
  BY <1>2 DEF Settles
<1>4. /\ Head(toHost) = toHost[1] /\ 1 \in 1 .. Len(toHost)
      /\ toHost[1] \in Replied /\ Replied' \subseteq Replied
  BY <1>1, Delivers
<1>5. SameDisc
  BY <1>1 DEF SameDisc, Current
<1>6. \A p \in adapter.pending : p = r \/ p.id # toHost[1].id
  BY <1>4 DEF DInv, Numbered
<1>7. \A p \in a.pending : Opens(p) /\ Opens(r) => p.mount # r.mount
  BY <1>3 DEF DInv, Awaited
<1>8. /\ Opens(r) => r.mount \in Mounts
      /\ r.type \in {"load", "mountFile"} => Opens(r)
  <2>1. ~IsOrphan(r)
    BY <1>4 DEF IInv, Alone
  <2>2. QED BY <1>1, <2>1, OpeningMounts DEF Opens
<1>9. CASE r.type = "load" /\ Head(toHost).ok
  <2>1. PICK b : b = [a EXCEPT !.loaded = TRUE]
    OBVIOUS
  <2>2. /\ b \in AdapterType /\ b.loaded /\ b.pending = a.pending /\ b.nextId = a.nextId
        /\ r.mount \in Mounts
    BY <1>3, <1>8, <1>9, <2>1 DEF AdapterType
  <2>3. LoadThenMount(b, r.mount, mounts[r.mount].disc)
    BY <1>2, <1>9, <2>1 DEF Settles
  <2>4. PICK q : AsksFor(b, r.mount, mounts[r.mount].disc, q)
    BY <2>2, <2>3, Asks
  <2>5. /\ Opens(q) /\ q.id = adapter.nextId /\ q.mount = r.mount
        /\ adapter'.pending = a.pending \cup {q} /\ adapter'.nextId = adapter.nextId + 1
        /\ toWorker' = Append(toWorker, q)
        /\ \E at \in AwaitedAt(q) : mounts' = [mounts EXCEPT ![q.mount].at = at]
    BY <1>3, <2>2, <2>4 DEF AsksFor
  <2>6. \A p \in adapter'.pending : Opens(p) /\ p.mount = q.mount => p = q
    BY <1>7, <1>8, <1>9, <2>5
  <2>7. \A t \in Replied : t.id # q.id
    BY <1>1, <2>5, Queues DEF DInv, Numbered
  <2>8. AnswersShow => AnswersShow'
    BY <1>1, <1>3, <1>4, <1>5, <2>5, <2>7, DropsAnswer
  <2>9. \A p \in adapter.pending : p \in adapter'.pending \/ \E t \in Replied : t.id = p.id
    BY <1>3, <1>4, <2>5
  <2>10. /\ UNCHANGED <<host, worker, cores, budget>> /\ q.mount \in Mounts
         /\ q \in adapter'.pending /\ adapter'.pending \subseteq adapter.pending \cup {q}
    BY <1>1, <1>2, <1>9, <2>2, <2>5 DEF Settles
  <2>11. QED BY <1>1, <1>4, <2>5, <2>6, <2>8, <2>9, <2>10, AskShows
(* The others ask for nothing.                                             *)
<1>10. ASSUME UNCHANGED toWorker, adapter'.pending = a.pending, adapter'.nextId = a.nextId,
              host' \in HostType, Awaited', Separate => PageShows'
       PROVE  DInv'
  <2>1. r \in adapter.pending /\ r.id = toHost[1].id
    BY <1>4
  <2>2. \A p \in adapter.pending : p \in adapter'.pending \/ p.id = toHost[1].id
    BY <1>3, <1>10, <2>1
  <2>3. QED BY <1>1, <1>3, <1>10, <2>1, <2>2, SettledShows
<1>11. CASE r.type \in {"load", "mountFile"}
            /\ \/ r.type = "mountFile" /\ Head(toHost).ok
               \/ ~Head(toHost).ok
  <2>1. adapter' = a /\ UNCHANGED toWorker /\ r.mount \in Mounts /\ Opens(r)
    BY <1>2, <1>8, <1>11 DEF Settles
  <2>2. /\ mounts'[r.mount].at = "starting" \/ mounts'[r.mount].at = "retrying"
        /\ \A m \in Mounts : m # r.mount => mounts'[m] = mounts[m]
    BY <1>1, <1>2, <1>11, <2>1 DEF MountType, Settles
  <2>3. Awaited'
    BY <1>1, <1>3, <1>7, <2>1, <2>2, OpeningMounts DEF DInv, Awaited, Opens, AwaitedAt
  <2>4. host' \in HostType
    BY <1>1, <1>2, <1>11 DEF DInv, HostType, Rep, Settles
  <2>5. CASE ~Head(toHost).ok
    <3>1. host'.mode = "demo" \/ mounts'[r.mount].at = "retrying"
      BY <1>1, <1>2, <1>11, <2>1, <2>5 DEF DInv, HostType, MountType, Settles
    <3>2. PageShows'
      BY <2>1, <3>1 DEF PageShows, Opening
    <3>3. QED BY <1>10, <2>1, <2>3, <2>4, <3>2
  <2>6. CASE r.type = "mountFile" /\ Head(toHost).ok
    <3>1. host'.game = toHost[1].disc
      BY <1>2, <1>4, <2>6 DEF DInv, HostType, Settles
    <3>2. ASSUME AnswersShow, Opening' = {} PROVE Shows(toHost[1].disc)
      <4>1. ASSUME Later(1) PROVE FALSE
        <5>1. PICK p \in adapter.pending : Opens(p) /\ toHost[1].id # p.id
          BY <4>1 DEF Later
        <5>2. p # r /\ p \in a.pending
          BY <1>3, <1>4, <5>1
        <5>3. p.mount \in Mounts /\ p.mount # r.mount
          BY <1>1, <1>7, <2>1, <5>1, <5>2, OpeningMounts
        <5>4. mounts'[p.mount].at \in Loading \cup {"mounting"}
          BY <2>2, <5>1, <5>3 DEF DInv, Awaited, AwaitedAt
        <5>5. QED BY <3>2, <5>3, <5>4 DEF Opening
      <4>2. r.id = toHost[1].id /\ toHost[1].ok
        BY <1>4, <2>6
      <4>3. QED BY <1>4, <2>6, <3>2, <4>1, <4>2 DEF AnswersShow
    <3>3. Separate => PageShows'
      BY <1>5, <3>1, <3>2 DEF DInv, PageShows, Shows, SameDisc
    <3>4. QED BY <1>10, <2>1, <2>3, <2>4, <3>3
  <2>7. QED BY <1>11, <2>5, <2>6
<1>12. CASE r.type \notin {"load", "mountFile"}
  <2>1. /\ adapter' = [a EXCEPT !.framePending = @ /\ r.type # "runFrame"]
        /\ UNCHANGED <<host, mounts, toWorker>>
    BY <1>2, <1>12 DEF Settles
  <2>2. adapter'.pending = a.pending /\ adapter'.nextId = a.nextId
    BY <1>3, <2>1 DEF AdapterType
  <2>3. Awaited' /\ host' \in HostType
    BY <1>3, <2>1, <2>2 DEF DInv, Awaited, Opens
  <2>4. Separate => PageShows'
    BY <1>5, <2>1 DEF DInv, PageShows, Opening, Shows, SameDisc
  <2>5. QED BY <1>10, <2>1, <2>2, <2>3, <2>4
<1>13. QED BY <1>1, <1>9, <1>11, <1>12 DEF Rep

-----------------------------------------------------------------------------
(* What an error event does to the page.                                   *)
Rejected(again, m) ==
  mounts'[m] = IF again /\ mounts[m].at = "loading" THEN [mounts[m] EXCEPT !.at = "retrying"]
               ELSE IF mounts[m].at \in Loading \cup {"mounting"}
               THEN [mounts[m] EXCEPT !.at = "starting"] ELSE mounts[m]

(* A mount that waits has failed, and the page is in its demo mode, unless *)
(* its load is tried again.                                                *)
LEMMA Rejections ==
  ASSUME WorkerError
  PROVE  /\ adapter' = [adapter EXCEPT !.pending = {}, !.framePending = FALSE]
         /\ mounts' = [m \in Mounts |-> mounts'[m]]
         /\ \E again \in BOOLEAN : \A m \in Mounts : Rejected(again, m)
         /\ \/ /\ host' = host
               /\ \A m \in Mounts : mounts[m].at \in Loading \cup {"mounting"} =>
                    mounts[m].at = "loading" /\ mounts'[m] = [mounts[m] EXCEPT !.at = "retrying"]
            \/ host' = [host EXCEPT !.mode = "demo"]
<1>1. PICK again \in BOOLEAN :
        LET retried == {m \in Mounts : again /\ mounts[m].at = "loading"}
            failed == {m \in Mounts : mounts[m].at \in Loading \cup {"mounting"}} \ retried
        IN  /\ again => May("refusal")
            /\ adapter' = [adapter EXCEPT !.pending = {}, !.framePending = FALSE]
            /\ host' = IF failed = {} THEN host ELSE AfterFailure
            /\ mounts' = [m \in Mounts |->
                            CASE m \in retried -> [mounts[m] EXCEPT !.at = "retrying"]
                              [] m \in failed -> [mounts[m] EXCEPT !.at = "starting"]
                              [] OTHER -> mounts[m]]
  BY DEF WorkerError, RejectAll
<1> DEFINE retried == {m \in Mounts : again /\ mounts[m].at = "loading"}
           failed == {m \in Mounts : mounts[m].at \in Loading \cup {"mounting"}} \ retried
<1>2. /\ adapter' = [adapter EXCEPT !.pending = {}, !.framePending = FALSE]
      /\ host' = IF failed = {} THEN host ELSE AfterFailure
      /\ mounts' = [m \in Mounts |->
                      CASE m \in retried -> [mounts[m] EXCEPT !.at = "retrying"]
                        [] m \in failed -> [mounts[m] EXCEPT !.at = "starting"]
                        [] OTHER -> mounts[m]]
  BY <1>1
<1>3. ASSUME NEW m \in Mounts PROVE Rejected(again, m)
  <2>1. CASE m \in retried
    BY <1>2, <2>1 DEF Rejected
  <2>2. CASE m \in failed
    BY <1>2, <2>2 DEF Rejected
  <2>3. CASE m \notin retried /\ m \notin failed
    <3>1. mounts'[m] = mounts[m]
      BY <1>2, <2>3
    <3>2. QED BY <2>3, <3>1 DEF Rejected
  <2>4. QED BY <2>1, <2>2, <2>3
<1>4. \/ /\ host' = host
         /\ \A m \in Mounts : mounts[m].at \in Loading \cup {"mounting"} =>
              mounts[m].at = "loading" /\ mounts'[m] = [mounts[m] EXCEPT !.at = "retrying"]
      \/ host' = [host EXCEPT !.mode = "demo"]
  <2>1. CASE failed = {}
    <3>1. host' = host
      BY <1>2, <2>1
    <3>2. \A m \in Mounts : mounts[m].at \in Loading \cup {"mounting"} => m \in retried
      BY <2>1
    <3>3. QED BY <1>2, <3>1, <3>2
  <2>2. CASE failed # {}
    BY <1>2, <2>2 DEF AfterFailure
  <2>3. QED BY <2>1, <2>2
<1>5. mounts' = [m \in Mounts |-> mounts'[m]]
  BY <1>2
<1> HIDE DEF retried, failed
<1>6. QED BY <1>2, <1>3, <1>4, <1>5

(* An error event rejects everything: the page is in its demo mode if it   *)
(* waited for a disc, and no load is left that could replace the core.     *)
LEMMA WorkerErrorShows ==
  ASSUME IInv, DInv, WorkerError
  PROVE  DInv'
<1>1. /\ Shape /\ budget.errors > 0 /\ worker.module # 0
      /\ budget' = [budget EXCEPT !.errors = @ - 1]
      /\ UNCHANGED <<toWorker, toHost, worker, cores>>
      /\ adapter' = [adapter EXCEPT !.pending = {}, !.framePending = FALSE]
      /\ \E again \in BOOLEAN : \A m \in Mounts : Rejected(again, m)
      /\ \/ /\ host' = host
            /\ \A m \in Mounts : mounts[m].at \in Loading \cup {"mounting"} =>
                 mounts[m].at = "loading" /\ mounts'[m] = [mounts[m] EXCEPT !.at = "retrying"]
         \/ host' = [host EXCEPT !.mode = "demo"]
  BY Rejections DEF WorkerError, IInv
<1>2. adapter'.pending = {} /\ adapter'.nextId = adapter.nextId
  BY <1>1 DEF Shape, AdapterType
<1>3. Queued' = Queued /\ Replied' = Replied /\ SameDisc
  BY <1>1 DEF Queued, Replied, SameDisc, Current
<1>4. budget \in BudgetType /\ budget'.may = budget.may /\ budget.errors = 1 /\ budget'.errors = 0
  <2>1. budget \in BudgetType
    BY <1>1 DEF Shape
  <2>2. budget.errors = 1
    BY <1>1, <2>1 DEF BudgetType
  <2>3. QED BY <1>1, <2>1, <2>2 DEF BudgetType
<1>5. Numbered'
  BY <1>1, <1>2, <1>3, SettleNumbers DEF DInv
<1>6. Awaited' /\ AnswersShow'
  BY <1>2 DEF Awaited, AnswersShow
<1>7. /\ host' \in HostType
      /\ host.mode = "demo" => host'.mode = "demo"
      /\ host' = host \/ host'.mode = "demo"
  BY <1>1 DEF DInv, HostType
<1>8. CutOff'
  <2>1. ASSUME NEW q \in Queued, q.type = "mountFile" PROVE host'.mode = "demo"
    <3>1. CASE q \in adapter.pending
      <4>1. q.mount \in Mounts /\ mounts[q.mount].at = "mounting"
        BY <1>1, <2>1, <3>1, OpeningMounts DEF DInv, Awaited, Opens, AwaitedAt, IsOrphan
      <4>2. QED BY <1>1, <4>1 DEF DInv, HostType
    <3>2. CASE q \notin adapter.pending
      BY <1>7, <2>1, <3>2 DEF DInv, CutOff
    <3>3. QED BY <3>1, <3>2
  <2>2. QED BY <1>1, <1>2, <1>3, <2>1 DEF CutOff
<1>9. (Separate <=> Separate') /\ (Separate => ~May("overlap"))
  BY <1>4 DEF Separate, May, IInv, Order, ErrorEvents
<1>10. ASSUME Separate PROVE LoadsAreAwaited'
  <2>1. OnlyCore'
    <3>1. IInv'
      BY NextInv DEF Next
    <3>2. ~May("overlap")' /\ ~Calm'
      BY <1>4, <1>9, <1>10 DEF May, Calm, ErrorEvents, IInv, Order
    <3>3. QED BY <3>1, <3>2 DEF IInv, Order
  <2>2. QED BY <2>1 DEF OnlyCore, LoadsAreAwaited
<1>11. PageShows => PageShows'
  <2>1. CASE host'.mode = "demo"
    BY <2>1 DEF PageShows
  <2>2. CASE /\ host' = host
             /\ \A m \in Mounts : mounts[m].at \in Loading \cup {"mounting"} =>
                  mounts[m].at = "loading" /\ mounts'[m] = [mounts[m] EXCEPT !.at = "retrying"]
    <3>1. ASSUME NEW m \in Opening PROVE m \in Opening'
      <4>1. CASE mounts[m].at \in Loading \cup {"mounting"}
        <5>1. mounts'[m].at = "retrying"
          BY <1>1, <2>2, <3>1, <4>1 DEF Opening, Shape, MountType
        <5>2. QED BY <3>1, <5>1 DEF Opening
      <4>2. CASE mounts[m].at \notin Loading \cup {"mounting"}
        <5>1. mounts'[m] = mounts[m]
          BY <1>1, <3>1, <4>2 DEF Rejected, Opening, Loading
        <5>2. QED BY <3>1, <5>1 DEF Opening
      <4>3. QED BY <4>1, <4>2
    <3>2. QED BY <1>3, <2>2, <3>1 DEF PageShows, Shows, SameDisc
  <2>3. QED BY <1>1, <2>1, <2>2 DEF DInv, HostType
<1>12. QED BY <1>5, <1>6, <1>7, <1>8, <1>9, <1>10, <1>11 DEF DInv

(* It holds at the start.                                                  *)
LEMMA InitShows == Init => DInv
<1> SUFFICES ASSUME Init PROVE DInv
  OBVIOUS
<1>1. Queued = {} /\ Replied = {} /\ Ascending
  BY DEF Init, Queued, Replied, Ascending
<1>2. /\ adapter.pending = {} /\ worker.loads = {} /\ host.mode = "demo" /\ host \in HostType
      /\ toHost = <<>>
  BY DEF Init, HostType
<1>3. QED BY <1>1, <1>2 DEF DInv, Numbered, Awaited, CutOff, LoadsAreAwaited, AnswersShow, PageShows

(* Every step keeps it.                                                    *)
LEMMA NextShows == IInv /\ DInv /\ [Next]_vars => DInv'
<1> SUFFICES ASSUME IInv, DInv, [Next]_vars PROVE DInv'
  OBVIOUS
<1>1. CASE Deliver
  <2>1. \/ \A r \in adapter.pending : r.id # Head(toHost).id
        \/ \E r \in adapter.pending :
             r.id = Head(toHost).id /\ Settle([adapter EXCEPT !.pending = @ \ {r}], r, Head(toHost))
    BY <1>1 DEF Deliver
  <2>2. QED BY <1>1, <2>1, DeliverDropShows, DeliverShows
<1>2. CASE UNCHANGED vars
  BY <1>2 DEF vars, DInv, Numbered, Queued, Replied, Ascending, Awaited, CutOff,
              LoadsAreAwaited, AnswersShow, Later, PageShows, Opening, Shows, Current, Separate, May
<1>3. CASE PageStep
  BY <1>3, ProbedShows, RefuseCanvasShows, LoadAgainShows, PageCommandShows
     DEF PageStep, PageCommand
<1>4. CASE Serve
  BY <1>4, ServeLoadShows, ServeMountShows, ServeOtherShows DEF Serve
<1>5. CASE LoadStep
  BY <1>5, CreateModuleShows, LoadEndShows DEF LoadStep
<1>6. CASE ClickRun \/ ClickReset \/ PollFrame \/ WorkerError
  BY <1>6, PageCommandShows, WorkerErrorShows DEF PageCommand
<1>7. CASE \/ \E m \in Mounts, d \in Discs : OpenDisc(m, d)
           \/ \E c \in 1 .. Len(cores) : Emulate(c)
  BY <1>7, OpenDiscShows, EmulateShows
<1>8. QED BY <1>1, <1>2, <1>3, <1>4, <1>5, <1>6, <1>7 DEF Next

(* However mounts overlap and fail, or an error event cuts them short, a   *)
(* page that is not in its demo mode shows, once all is quiet, the disc    *)
(* that is mounted and open in the current core.                           *)
THEOREM PageShowsTheDisc == Spec => []PageShowsTheMountedDisc
<1>1. DInv => PageShowsTheMountedDisc
  BY DEF DInv, PageShows, PageShowsTheMountedDisc, Separate, Shows, Opening, Quiet, Waiting
<1>2. Init => IInv /\ DInv
  BY InitInv, InitShows
<1>3. IInv /\ DInv /\ [Next]_vars => (IInv /\ DInv)'
  BY NextInv, NextShows
<1>4. QED BY <1>1, <1>2, <1>3, PTL DEF Spec

-----------------------------------------------------------------------------
(* Readable discs mount.  Every mount asks for the disc of its own call.   *)
DiscsAreKnown ==
  /\ \A m \in Mounts : mounts[m].at # "idle" => mounts[m].disc \in Discs
  /\ \A q \in Queued : q.type = "mountFile" => q.disc \in Discs
  /\ \A p \in adapter.pending : p.type = "mountFile" => p.disc = mounts[p.mount].disc

(* One disc at a time: the worker knows what its file system has mounted,  *)
(* and has not refused a disc it could have read.                          *)
Remountable == worker.mounted <=> worker.module # 0 /\ Current.fs # None
ReadableAccepted ==
  \A t \in Replied : \A p \in adapter.pending :
    p.id = t.id /\ p.type = "mountFile" /\ p.disc \in Readable => t.ok
RdInv == DiscsAreKnown /\ (~May("overlap") => Remountable /\ ReadableAccepted)

(* The page's steps.                                                       *)
LEMMA PageRd ==
  ASSUME RdInv, UNCHANGED <<worker, cores>>, budget'.may = budget.may, Replied' \subseteq Replied,
         \A m \in Mounts : mounts'[m].at # "idle" => mounts'[m].disc \in Discs,
         \A q \in Queued' : q \in Queued \/ (q.type = "mountFile" => q.disc \in Discs),
         \A p \in adapter'.pending : p.type = "mountFile" =>
           /\ p.disc = mounts'[p.mount].disc
           /\ p \in adapter.pending \/ \A t \in Replied : t.id # p.id
  PROVE  RdInv'
<1>1. May("overlap")' = May("overlap") /\ Remountable' = Remountable
  BY DEF May, Remountable, Current
<1>2. DiscsAreKnown'
  BY DEF RdInv, DiscsAreKnown
<1>3. ReadableAccepted => ReadableAccepted'
  BY DEF ReadableAccepted
<1>4. QED BY <1>1, <1>2, <1>3 DEF RdInv

(* The worker's.                                                           *)
LEMMA WorkerRd ==
  ASSUME RdInv, UNCHANGED <<mounts, adapter, budget>>, Queued' \subseteq Queued,
         ~May("overlap") => Remountable',
         ~May("overlap") => \A t \in Replied' : t \in Replied \/ \A p \in adapter.pending :
           p.id = t.id /\ p.type = "mountFile" /\ p.disc \in Readable => t.ok
  PROVE  RdInv'
<1>1. May("overlap")' = May("overlap")
  BY DEF May
<1>2. DiscsAreKnown'
  BY DEF RdInv, DiscsAreKnown
<1>3. ~May("overlap") /\ ReadableAccepted => ReadableAccepted'
  BY DEF ReadableAccepted
<1>4. QED BY <1>1, <1>2, <1>3 DEF RdInv

(* A disc is picked.                                                       *)
LEMMA OpenDiscRd ==
  ASSUME IInv, DInv, RdInv, NEW m \in Mounts, NEW d \in Discs, OpenDisc(m, d)
  PROVE  RdInv'
<1>1. /\ Shape /\ mounts \in [Mounts -> MountType] /\ mounts[m].at = "idle"
      /\ mounts' = [mounts EXCEPT ![m] = [disc |-> d, at |-> "probing"]]
      /\ UNCHANGED <<adapter, toWorker, toHost, worker, cores, budget>>
  BY DEF OpenDisc, IInv, Shape
<1>2. Queued' = Queued /\ Replied' = Replied
  BY <1>1 DEF Queued, Replied
<1>3. mounts'[m].disc = d /\ \A k \in Mounts : k # m => mounts'[k] = mounts[k]
  BY <1>1
<1>4. \A p \in adapter.pending : p.type = "mountFile" => p.mount \in Mounts /\ p.mount # m
  BY <1>1, OpeningMounts DEF DInv, Awaited, AwaitedAt, Opens, IsOrphan
<1>5. QED BY <1>1, <1>2, <1>3, <1>4, PageRd DEF RdInv, DiscsAreKnown

(* A request that LoadThenMount sends.                                     *)
LEMMA AskRd ==
  ASSUME Shape, DInv, RdInv, UNCHANGED <<worker, cores, budget>>, Replied' \subseteq Replied,
         NEW a \in AdapterType, a.pending \subseteq adapter.pending, a.nextId = adapter.nextId,
         NEW m \in Mounts, mounts[m].at # "idle",
         LoadThenMount(a, m, mounts[m].disc)
  PROVE  RdInv'
<1>1. PICK r : AsksFor(a, m, mounts[m].disc, r)
  BY Asks
<1>2. /\ r.id = adapter.nextId /\ r.mount = m
      /\ r.type = "mountFile" => r.disc = mounts[m].disc
      /\ adapter'.pending = a.pending \cup {r} /\ toWorker' = Append(toWorker, r)
      /\ \E at \in AwaitedAt(r) : mounts' = [mounts EXCEPT ![m].at = at]
  BY <1>1 DEF AsksFor
<1>3. Queued' = Queued \cup {r}
  BY <1>2, Posts
<1>4. \A k \in Mounts : /\ mounts'[k].disc = mounts[k].disc
                        /\ mounts'[k].at # "idle" => mounts[k].at # "idle"
  BY <1>2 DEF Shape, MountType
<1>5. \A t \in Replied : t.id # r.id
  BY <1>2, Queues DEF DInv, Numbered
<1>6. \A p \in adapter.pending : p.type = "mountFile" => p.mount \in Mounts
  BY OpeningMounts DEF Opens, IsOrphan
<1>7. \A q \in Queued' : q \in Queued \/ (q.type = "mountFile" => q.disc \in Discs)
  BY <1>2, <1>3 DEF RdInv, DiscsAreKnown
<1>8. \A p \in adapter'.pending : p.type = "mountFile" =>
        /\ p.disc = mounts'[p.mount].disc
        /\ p \in adapter.pending \/ \A t \in Replied : t.id # p.id
  BY <1>2, <1>4, <1>5, <1>6 DEF RdInv, DiscsAreKnown
<1>9. \A k \in Mounts : mounts'[k].at # "idle" => mounts'[k].disc \in Discs
  BY <1>4 DEF RdInv, DiscsAreKnown
<1>10. QED BY <1>7, <1>8, <1>9, PageRd

(* Steps of the page that ask for no mount.                                *)
LEMMA QuietRd ==
  ASSUME Shape, RdInv, UNCHANGED <<worker, cores>>, budget'.may = budget.may, Replied' \subseteq Replied,
         \A m \in Mounts : /\ mounts'[m].disc = mounts[m].disc
                           /\ mounts'[m].at # "idle" => mounts[m].at # "idle",
         \/ UNCHANGED toWorker /\ adapter'.pending \subseteq adapter.pending
         \/ \E r : /\ r.type # "mountFile" /\ adapter'.pending = adapter.pending \cup {r}
                   /\ UNCHANGED toWorker \/ toWorker' = Append(toWorker, r)
  PROVE  RdInv'
<1>1. \A p \in adapter.pending : p.type = "mountFile" => p.mount \in Mounts
  BY OpeningMounts DEF Opens, IsOrphan
<1>2. \A m \in Mounts : mounts'[m].at # "idle" => mounts'[m].disc \in Discs
  BY DEF RdInv, DiscsAreKnown
<1>3. /\ \A q \in Queued' : q \in Queued \/ (q.type = "mountFile" => q.disc \in Discs)
      /\ \A p \in adapter'.pending : p.type = "mountFile" => p \in adapter.pending
  <2>1. CASE UNCHANGED toWorker /\ adapter'.pending \subseteq adapter.pending
    BY <2>1 DEF Queued
  <2>2. ASSUME NEW r, r.type # "mountFile", adapter'.pending = adapter.pending \cup {r},
               UNCHANGED toWorker \/ toWorker' = Append(toWorker, r)
        PROVE  /\ \A q \in Queued' : q \in Queued \/ (q.type = "mountFile" => q.disc \in Discs)
               /\ \A p \in adapter'.pending : p.type = "mountFile" => p \in adapter.pending
    <3>1. CASE toWorker' = Append(toWorker, r)
      <4>1. Queued' = Queued \cup {r}
        BY <3>1, Posts
      <4>2. QED BY <2>2, <4>1
    <3>2. CASE UNCHANGED toWorker
      BY <2>2, <3>2 DEF Queued
    <3>3. QED BY <2>2, <3>1, <3>2
  <2>3. QED BY <2>1, <2>2
<1>4. \A p \in adapter.pending : p.type = "mountFile" => p.disc = mounts'[p.mount].disc
  BY <1>1 DEF RdInv, DiscsAreKnown
<1>5. QED BY <1>2, <1>3, <1>4, PageRd

-----------------------------------------------------------------------------
(* A step of the worker that mounts nothing.                               *)
LEMMA SameRd ==
  ASSUME RdInv, UNCHANGED <<mounts, adapter, budget>>, Queued' \subseteq Queued, SameDisc,
         worker'.module = worker.module, worker'.mounted = worker.mounted,
         \A t \in Replied' : \/ t \in Replied
                             \/ \A p \in adapter.pending : p.id = t.id => p.type # "mountFile"
  PROVE  RdInv'
<1>1. Remountable => Remountable'
  BY DEF Remountable, SameDisc
<1>2. QED BY <1>1, WorkerRd DEF RdInv

(* Requests that open no disc are answered.                                *)
LEMMA ServeOtherRd ==
  ASSUME IInv, DInv, RdInv, ServeFrame \/ ServeUnknown \/ ServeLoad
  PROVE  RdInv'
<1>1. PICK type : /\ Receives(type) /\ type # "mountFile" /\ UNCHANGED cores
                  /\ worker'.module = worker.module /\ worker'.mounted = worker.mounted
                  /\ UNCHANGED toHost \/ \E ok \in BOOLEAN : Answer(Head(toWorker).id, ok, None)
  <2>1. CASE ServeFrame \/ ServeUnknown
    BY <2>1 DEF ServeFrame, ServeUnknown
  <2>2. CASE ServeLoad
    <3>1. worker \in WorkerType
      BY DEF IInv, Shape
    <3>2. /\ UNCHANGED cores
          /\ worker'.module = worker.module /\ worker'.mounted = worker.mounted
          /\ UNCHANGED toHost \/ \E ok \in BOOLEAN : Answer(Head(toWorker).id, ok, None)
      BY <2>2, <3>1 DEF ServeLoad, LoadCore, WorkerType
    <3>3. QED BY <2>2, <3>2 DEF ServeLoad
  <2>3. QED BY <2>1, <2>2
<1>2. /\ Shape /\ UNCHANGED <<mounts, host, adapter, budget>>
      /\ Head(toWorker).type # "mountFile" /\ Queued' \subseteq Queued
      /\ \A p \in adapter.pending : p.id = Head(toWorker).id => p = Head(toWorker)
  BY <1>1, Taken
<1>3. SameDisc
  BY <1>1 DEF SameDisc, Current
<1>4. \A t \in Replied' : t \in Replied \/ t.id = Head(toWorker).id
  <2>1. CASE UNCHANGED toHost
    BY <2>1 DEF Replied
  <2>2. CASE \E ok \in BOOLEAN : Answer(Head(toWorker).id, ok, None)
    <3>1. PICK t : t.id = Head(toWorker).id /\ Replied' = Replied \cup {t}
      BY <1>2, <2>2, Answers
    <3>2. QED BY <3>1
  <2>3. QED BY <1>1, <2>1, <2>2
<1>5. QED BY <1>1, <1>2, <1>3, <1>4, SameRd

(* One disc at a time: a mount is served when the one core there is has    *)
(* been made, and its file system agrees with what the worker remembers.   *)
LEMMA ServeMountRd ==
  ASSUME IInv, DInv, RdInv, ServeMount
  PROVE  RdInv'
<1> DEFINE q == Head(toWorker)
           volume == IF q.disc \in Readable THEN q.disc ELSE None
<1>1. Receives("mountFile") /\ MountFile(q.id, q.disc)
  BY DEF ServeMount
<1>2. /\ Shape /\ UNCHANGED <<mounts, host, adapter, budget>>
      /\ q.type = "mountFile" /\ q \in Queued /\ Queued' \subseteq Queued
      /\ \A p \in adapter.pending : p.id = q.id => p = q
  BY <1>1, Taken
<1>3. q \in Req /\ q.disc \in Discs
  BY <1>2, Queues DEF RdInv, DiscsAreKnown
<1>4. ASSUME ~May("overlap") PROVE worker.module # 0 /\ CanRemount
  <2>1. ~BeforeLoaded
    BY <1>1, ServesThePosted DEF IInv
  <2>2. OnlyCore
    BY <1>4, <2>1 DEF IInv, Order
  <2>3. worker.module # 0
    BY <2>2 DEF OnlyCore, IInv, Shape
  <2>4. QED BY <1>4, <2>3 DEF RdInv, Remountable, CanRemount
<1>5. CASE worker.module = 0 \/ ~CanRemount
  <2>1. May("overlap")
    BY <1>4, <1>5
  <2>2. QED BY <1>2, <2>1, WorkerRd
<1>6. CASE worker.module # 0 /\ CanRemount
  <2>1. /\ worker'.module = worker.module /\ worker'.mounted
        /\ Current'.fs = q.disc /\ Answer(q.id, q.disc \in Readable, volume)
    BY <1>1, <1>2, <1>3, <1>6, MountOpens
  <2>2. Remountable'
    BY <1>3, <1>6, <2>1, SessionAssumption DEF Remountable
  <2>3. PICK t : t.id = q.id /\ t.ok = (q.disc \in Readable) /\ Replied' = Replied \cup {t}
    <3> HIDE DEF q, volume
    <3>1. QED BY <1>2, <2>1, Answers
  <2>4. QED BY <1>2, <2>2, <2>3, WorkerRd
<1>7. QED BY <1>5, <1>6

(* The only core is made before anything is mounted.                       *)
LEMMA CreateModuleRd ==
  ASSUME IInv, RdInv, NEW l \in worker.loads, CreateModule(l)
  PROVE  RdInv'
<1>1. /\ Shape /\ l.at = "fetching" /\ worker \in WorkerType
      /\ UNCHANGED <<mounts, host, adapter, toWorker, toHost, budget>>
      /\ worker' = [worker EXCEPT !.created = @ + 1, !.module = worker.created + 1,
                                  !.loads = (@ \ {l}) \cup {[l EXCEPT !.at = "installing"]}]
      /\ cores' = Append(cores, NewCore)
  BY DEF CreateModule, IInv, Shape
<1>2. Queued' = Queued /\ Replied' = Replied
  BY <1>1 DEF Queued, Replied
<1>3. worker'.module = worker.created + 1 /\ worker'.mounted = worker.mounted
  <2> DEFINE loads == (worker.loads \ {l}) \cup {[l EXCEPT !.at = "installing"]}
  <2>1. worker' = [worker EXCEPT !.created = @ + 1, !.module = worker.created + 1, !.loads = loads]
    BY <1>1
  <2> HIDE DEF loads
  <2>2. QED BY <1>1, <2>1 DEF WorkerType
<1>4. ASSUME ~May("overlap") PROVE Remountable'
  <2>1. ~OnlyCore
    BY <1>1 DEF OnlyCore
  <2>2. BeforeLoaded
    BY <1>4, <2>1 DEF IInv, Order
  <2>3. cores = <<>>
    BY <1>1, <2>2, TheLoad
  <2>4. worker.module = 0 /\ worker.created = 0
    BY <1>1, <2>3 DEF Shape
  <2>5. ~worker.mounted
    BY <1>4, <2>4 DEF RdInv, Remountable
  <2>6. cores' = <<NewCore>> /\ cores'[1] = NewCore
    BY <1>1, <2>3, Singleton
  <2>7. Current'.fs = None
    BY <1>3, <2>4, <2>6 DEF Current, NewCore
  <2>8. QED BY <1>3, <2>5, <2>7 DEF Remountable
<1>5. QED BY <1>1, <1>2, <1>4, WorkerRd

(* A load ends.                                                            *)
LEMMA LoadEndRd ==
  ASSUME IInv, DInv, RdInv, NEW l \in worker.loads, FinishLoad(l) \/ FailLoad(l)
  PROVE  RdInv'
<1>1. /\ Shape /\ UNCHANGED <<mounts, host, adapter, toWorker, budget>> /\ SameDisc
      /\ worker'.module = worker.module /\ worker'.mounted = worker.mounted
      /\ \E ok \in BOOLEAN : Answer(l.id, ok, None)
  BY LoadEnds DEF IInv
<1>2. PICK t : t.id = l.id /\ Replied' = Replied \cup {t}
  BY <1>1, Answers
<1>3. Queued' = Queued
  BY <1>1 DEF Queued
<1>4. \A p \in adapter.pending : p.id = t.id => p.type # "mountFile"
  BY <1>2 DEF DInv, Numbered
<1>5. QED BY <1>1, <1>2, <1>3, <1>4, SameRd

(* The game runs.                                                          *)
LEMMA EmulateRd ==
  ASSUME IInv, RdInv, NEW c \in 1 .. Len(cores), Emulate(c)
  PROVE  RdInv'
<1>1. UNCHANGED <<mounts, host, adapter, toWorker, toHost, worker, budget>> /\ SameDisc
  BY GameRuns DEF IInv
<1>2. Replied' = Replied /\ Queued' = Queued
  BY <1>1 DEF Queued, Replied
<1>3. QED BY <1>1, <1>2, SameRd

-----------------------------------------------------------------------------
(* The disc was checked.                                                   *)
LEMMA ProbedRd ==
  ASSUME IInv, DInv, RdInv, NEW m \in Mounts, Probed(m)
  PROVE  RdInv'
<1>1. /\ Shape /\ adapter \in AdapterType /\ LoadThenMount(adapter, m, mounts[m].disc)
      /\ UNCHANGED <<worker, cores, budget>> /\ mounts[m].at # "idle" /\ Replied' = Replied
  BY DEF Probed, IInv, Shape, Replied
<1>2. QED BY <1>1, AskRd

(* The canvas is refused, or the load sent again.                          *)
LEMMA RefusalRd ==
  ASSUME IInv, RdInv, NEW m \in Mounts, RefuseCanvas(m) \/ LoadAgain(m)
  PROVE  RdInv'
<1>1. /\ Shape /\ adapter \in AdapterType /\ UNCHANGED <<toHost, worker, cores, budget>>
      /\ mounts[m].at # "idle"
  BY DEF RefuseCanvas, LoadAgain, IInv, Shape
<1>2. \A k \in Mounts : /\ mounts'[k].disc = mounts[k].disc
                        /\ mounts'[k].at # "idle" => mounts[k].at # "idle"
  BY <1>1 DEF RefuseCanvas, LoadAgain, LoadRejected, Shape, MountType
<1>3. \E r : /\ r.type # "mountFile" /\ adapter'.pending = adapter.pending \cup {r}
             /\ UNCHANGED toWorker \/ toWorker' = Append(toWorker, r)
  <2>1. CASE RefuseCanvas(m)
    <3>1. PICK o : o = OrphanLoad(1)
      OBVIOUS
    <3>2. adapter' = [adapter EXCEPT !.pending = @ \cup {o}, !.nextId = 2] /\ UNCHANGED toWorker
      BY <2>1, <3>1 DEF RefuseCanvas
    <3>3. o.type # "mountFile"
      BY <3>1 DEF OrphanLoad
    <3>4. QED BY <1>1, <3>2, <3>3 DEF AdapterType
  <2>2. CASE LoadAgain(m)
    <3>1. PICK r : r = [id |-> adapter.nextId, type |-> "load", mount |-> m, disc |-> None]
      OBVIOUS
    <3>2. /\ adapter' = [adapter EXCEPT !.pending = @ \cup {r}, !.nextId = @ + 1]
          /\ toWorker' = Append(toWorker, r) /\ r.type # "mountFile"
      BY <2>2, <3>1 DEF LoadAgain, Send
    <3>3. QED BY <1>1, <3>2 DEF AdapterType
  <2>3. QED BY <2>1, <2>2
<1>4. Replied' = Replied
  BY <1>1 DEF Replied
<1>5. QED BY <1>1, <1>2, <1>3, <1>4, QuietRd

(* The page goes on, the user clicks, the page polls.                      *)
LEMMA PageCommandRd ==
  ASSUME IInv, RdInv, PageCommand
  PROVE  RdInv'
<1>1. /\ Shape /\ UNCHANGED <<toHost, worker, cores>> /\ budget'.may = budget.may
      /\ \A m \in Mounts : /\ mounts'[m].disc = mounts[m].disc
                           /\ mounts'[m].at # "idle" => mounts[m].at # "idle"
      /\ \/ UNCHANGED <<adapter, toWorker>>
         \/ \E r : /\ r.type # "mountFile" /\ adapter'.pending = adapter.pending \cup {r}
                   /\ toWorker' = Append(toWorker, r)
  BY PageCommands DEF IInv, Opens, IsOrphan
<1>2. Replied' = Replied
  BY <1>1 DEF Replied
<1>3. QED BY <1>1, <1>2, QuietRd

(* A reply that nobody waits for.                                          *)
LEMMA DeliverDropRd ==
  ASSUME IInv, RdInv, Deliver, \A r \in adapter.pending : r.id # Head(toHost).id
  PROVE  RdInv'
<1>1. /\ Shape /\ toHost # <<>> /\ toHost' = Tail(toHost)
      /\ UNCHANGED <<mounts, host, adapter, toWorker, worker, cores, budget>>
  BY DEF Deliver, IInv
<1>2. Replied' \subseteq Replied
  BY <1>1, Delivers
<1>3. QED BY <1>1, <1>2, QuietRd

(* A reply that settles a request.                                         *)
LEMMA DeliverRd ==
  ASSUME IInv, DInv, RdInv, Deliver, NEW r \in adapter.pending, r.id = Head(toHost).id,
         Settle([adapter EXCEPT !.pending = @ \ {r}], r, Head(toHost))
  PROVE  RdInv'
<1>1. /\ Shape /\ toHost # <<>> /\ toHost' = Tail(toHost) /\ UNCHANGED <<worker, cores, budget>>
      /\ mounts \in [Mounts -> MountType] /\ Head(toHost) \in Rep
  BY Settlement DEF IInv
<1>2. PICK a \in AdapterType : Settles(a, r)
  BY Settlement DEF IInv
<1>3. a.pending \subseteq adapter.pending /\ a.nextId = adapter.nextId
  BY <1>2 DEF Settles
<1>4. Replied' \subseteq Replied
  BY <1>1, Delivers
<1>5. /\ Opens(r) => r.mount \in Mounts /\ mounts[r.mount].at # "idle"
      /\ r.type \in {"load", "mountFile"} => Opens(r)
  <2>1. ~IsOrphan(r)
    BY <1>1, Delivers DEF IInv, Alone
  <2>2. QED BY <1>1, <2>1, OpeningMounts DEF DInv, Awaited, AwaitedAt, Opens, Loading
<1>6. CASE r.type = "load" /\ Head(toHost).ok
  <2>1. PICK b : b = [a EXCEPT !.loaded = TRUE]
    OBVIOUS
  <2>2. /\ b \in AdapterType /\ b.pending = a.pending /\ b.nextId = a.nextId
        /\ r.mount \in Mounts /\ mounts[r.mount].at # "idle"
    BY <1>2, <1>5, <1>6, <2>1 DEF AdapterType
  <2>3. LoadThenMount(b, r.mount, mounts[r.mount].disc)
    BY <1>2, <1>6, <2>1 DEF Settles
  <2>4. QED BY <1>1, <1>3, <1>4, <2>2, <2>3, AskRd
<1>7. CASE ~(r.type = "load" /\ Head(toHost).ok)
  <2>1. /\ UNCHANGED toWorker /\ adapter'.pending = a.pending
        /\ \/ UNCHANGED mounts
           \/ /\ Opens(r)
              /\ \E at \in {"starting", "retrying"} : mounts' = [mounts EXCEPT ![r.mount].at = at]
    BY <1>1, <1>2, <1>5, <1>7 DEF Settles, Rep, AdapterType
  <2>2. \A m \in Mounts : /\ mounts'[m].disc = mounts[m].disc
                          /\ mounts'[m].at # "idle" => mounts[m].at # "idle"
    BY <1>1, <1>5, <2>1 DEF MountType
  <2>3. QED BY <1>1, <1>3, <1>4, <2>1, <2>2, QuietRd
<1>8. QED BY <1>6, <1>7

(* An error event rejects everything.                                      *)
LEMMA WorkerErrorRd ==
  ASSUME IInv, RdInv, WorkerError
  PROVE  RdInv'
<1>1. /\ Shape /\ UNCHANGED <<toWorker, toHost, worker, cores>>
      /\ budget' = [budget EXCEPT !.errors = @ - 1]
      /\ adapter' = [adapter EXCEPT !.pending = {}, !.framePending = FALSE]
      /\ \E again \in BOOLEAN : \A m \in Mounts : Rejected(again, m)
  BY Rejections DEF WorkerError, IInv
<1>2. adapter'.pending = {} /\ budget'.may = budget.may /\ Replied' = Replied
  BY <1>1 DEF Shape, AdapterType, BudgetType, Replied
<1>3. \A m \in Mounts : /\ mounts'[m].disc = mounts[m].disc
                        /\ mounts'[m].at # "idle" => mounts[m].at # "idle"
  BY <1>1 DEF Shape, MountType, Rejected, Loading
<1>4. QED BY <1>1, <1>2, <1>3, QuietRd

(* It holds at the start.                                                  *)
LEMMA InitRd == Init => RdInv
BY DEF Init, RdInv, DiscsAreKnown, Remountable, ReadableAccepted, Queued, Replied

(* Every step keeps it.                                                    *)
LEMMA NextRd == IInv /\ DInv /\ RdInv /\ [Next]_vars => RdInv'
<1> SUFFICES ASSUME IInv, DInv, RdInv, [Next]_vars PROVE RdInv'
  OBVIOUS
<1>1. CASE Deliver
  <2>1. \/ \A r \in adapter.pending : r.id # Head(toHost).id
        \/ \E r \in adapter.pending :
             r.id = Head(toHost).id /\ Settle([adapter EXCEPT !.pending = @ \ {r}], r, Head(toHost))
    BY <1>1 DEF Deliver
  <2>2. QED BY <1>1, <2>1, DeliverDropRd, DeliverRd
<1>2. CASE UNCHANGED vars
  BY <1>2 DEF vars, RdInv, DiscsAreKnown, Remountable, ReadableAccepted, Queued, Replied, Current, May
<1>3. CASE PageStep
  BY <1>3, ProbedRd, RefusalRd, PageCommandRd DEF PageStep, PageCommand
<1>4. CASE Serve
  BY <1>4, ServeMountRd, ServeOtherRd DEF Serve
<1>5. CASE LoadStep
  BY <1>5, CreateModuleRd, LoadEndRd DEF LoadStep
<1>6. CASE ClickRun \/ ClickReset \/ PollFrame \/ WorkerError
  BY <1>6, PageCommandRd, WorkerErrorRd DEF PageCommand
<1>7. CASE \/ \E m \in Mounts, d \in Discs : OpenDisc(m, d)
           \/ \E c \in 1 .. Len(cores) : Emulate(c)
  BY <1>7, OpenDiscRd, EmulateRd
<1>8. QED BY <1>1, <1>2, <1>3, <1>4, <1>5, <1>6, <1>7 DEF Next

(* One disc at a time: whatever was mounted or refused before, and         *)
(* whatever an error event cut short, a disc DiscIO can read is mounted    *)
(* when its mountFile is answered, and the page does not fall back.        *)
THEOREM ReadableDiscsAreMounted == Spec => ReadableDiscsMount
<1>1. ASSUME IInv, DInv, RdInv, [Next]_vars, ~May("overlap"), NEW m \in Mounts,
             mounts[m].at = "mounting", mounts'[m].at = "starting", toHost' # toHost,
             mounts[m].disc \in Readable
      PROVE  host'.mode = "dolphin"
  <2>1. Shape /\ Deliver
    <3>1. mounts' # mounts
      BY <1>1
    <3>2. \/ \E k \in Mounts, d \in Discs : OpenDisc(k, d)
          \/ \E k \in Mounts : Probed(k) \/ RefuseCanvas(k) \/ LoadAgain(k) \/ StartAfterMount(k)
          \/ ClickRun \/ ClickReset \/ PollFrame \/ WorkerError
          \/ \E c \in 1 .. Len(cores) : Emulate(c)
          => UNCHANGED toHost
      BY DEF OpenDisc, Probed, RefuseCanvas, LoadAgain, StartAfterMount, ClickRun, ClickReset, PollFrame, WorkerError, Emulate
    <3>3. Serve \/ LoadStep => UNCHANGED mounts
      BY DEF Serve, ServeLoad, ServeMount, ServeFrame, ServeUnknown, Receives, LoadStep,
             CreateModule, FinishLoad, FailLoad
    <3>4. QED
      BY <1>1, <3>1, <3>2, <3>3 DEF Next, PageStep, vars, IInv
  <2>2. PICK r \in adapter.pending :
          r.id = Head(toHost).id /\ Settle([adapter EXCEPT !.pending = @ \ {r}], r, Head(toHost))
    <3>1. mounts' # mounts
      BY <1>1
    <3>2. QED BY <2>1, <3>1 DEF Deliver
  <2>3. /\ toHost # <<>> /\ toHost' = Tail(toHost)
        /\ mounts \in [Mounts -> MountType] /\ Head(toHost) \in Rep
    BY <2>1, <2>2, Settlement
  <2>4. PICK a \in AdapterType : Settles(a, r)
    BY <2>1, <2>2, Settlement
  <2>4a. r.type \in {"load", "mountFile"} => Opens(r)
    <3>1. ~IsOrphan(r)
      BY <1>1, <2>1, <2>2, <2>3, Delivers DEF IInv, Alone
    <3>2. QED BY <3>1 DEF Opens
  <2>5. ~(r.type = "load" /\ Head(toHost).ok)
    <3>1. ASSUME r.type = "load", Head(toHost).ok PROVE FALSE
      <4>1. PICK b : b = [a EXCEPT !.loaded = TRUE]
        OBVIOUS
      <4>2. b \in AdapterType /\ r.mount \in Mounts
        BY <2>4a, <2>1, <3>1, <4>1, OpeningMounts DEF AdapterType
      <4>3. PICK q : AsksFor(b, r.mount, mounts[r.mount].disc, q)
        BY <2>4, <3>1, <4>1, <4>2, Asks DEF Settles
      <4>4. \A k \in Mounts : mounts'[k].at = mounts[k].at \/ mounts'[k].at # "starting"
        BY <2>3, <4>2, <4>3 DEF AsksFor, AwaitedAt, Loading, MountType
      <4>5. QED BY <1>1, <4>4
    <3>2. QED BY <3>1
  <2>6. /\ Opens(r)
        /\ \E at \in {"starting", "retrying"} : mounts' = [mounts EXCEPT ![r.mount].at = at]
    BY <1>1, <2>4a, <2>3, <2>4, <2>5 DEF Settles, Rep
  <2>7. r.mount = m
    BY <1>1, <2>3, <2>6 DEF MountType
  <2>8. r.type = "mountFile" /\ r.disc \in Readable
    BY <1>1, <2>6, <2>7 DEF DInv, Awaited, AwaitedAt, Loading, Opens, RdInv, DiscsAreKnown
  <2>9. Head(toHost) \in Replied
    BY <2>1, <2>3, Delivers
  <2>10. Head(toHost).ok
    BY <1>1, <2>2, <2>8, <2>9 DEF RdInv, ReadableAccepted
  <2>11. QED BY <1>1, <2>4, <2>8, <2>10 DEF Settles, DInv, HostType
<1>2. IInv /\ DInv /\ RdInv /\ [Next]_vars =>
        [~May("overlap") => \A m \in Mounts :
           mounts[m].at = "mounting" /\ mounts'[m].at = "starting" /\ toHost' # toHost
           /\ mounts[m].disc \in Readable => host'.mode = "dolphin"]_vars
  BY <1>1
<1>3. Init => IInv /\ DInv /\ RdInv
  BY InitInv, InitShows, InitRd
<1>4. IInv /\ DInv /\ RdInv /\ [Next]_vars => (IInv /\ DInv /\ RdInv)'
  BY NextInv, NextShows, NextRd
<1>5. QED BY <1>2, <1>3, <1>4, PTL DEF Spec, ReadableDiscsMount

-----------------------------------------------------------------------------
(* How many requests and cores there can be.  A mount numbers at most one  *)
(* load or orphan, one load sent again, one mountFile and one start; a     *)
(* click and a poll number one request each.                               *)
Unasked == {m \in Mounts : mounts[m].at \in {"idle", "probing"}}
Unretried == {m \in Mounts : mounts[m].at \in {"idle", "probing", "loading", "retrying"}}
Unmounted == {m \in Mounts : mounts[m].at \in {"idle", "probing", "retrying"} \cup Loading}
Unstarted == {m \in Mounts : mounts[m].at # "done"}
Unspent == Cardinality(Unasked) + Cardinality(Unretried) + Cardinality(Unmounted)
             + Cardinality(Unstarted) + budget.clicks + budget.polls

(* A core is made for a load that is being fetched.  None is once there is *)
(* a module, and until then a mount waits for each, so there are no more   *)
(* than mounts, although a mount may send two loads.                       *)
Fetched == {l.id : l \in {k \in worker.loads : k.at = "fetching"}}
FirstLoads == worker.module = 0 => LoadsAreAwaited
Bounded ==
  /\ adapter.nextId + Unspent <= 4 * MaxMounts + MaxClicks + MaxPolls + 1
  /\ worker.module # 0 => worker.created + Cardinality(Fetched) <= MaxMounts

(* Sets that shrink or grow.                                               *)
LEMMA Shrinks ==
  ASSUME NEW S, IsFiniteSet(S), NEW T, T \subseteq S
  PROVE  /\ Cardinality(S) \in Nat /\ Cardinality(T) \in Nat
         /\ Cardinality(T) <= Cardinality(S)
         /\ \A x \in S : x \notin T => Cardinality(T) + 1 <= Cardinality(S)
<1>1. IsFiniteSet(T) /\ Cardinality(T) <= Cardinality(S)
  BY FS_Subset
<1>2. Cardinality(S) \in Nat /\ Cardinality(T) \in Nat
  BY <1>1, FS_CardinalityType
<1>3. ASSUME NEW x \in S, x \notin T PROVE Cardinality(T) + 1 <= Cardinality(S)
  <2>1. IsFiniteSet(S \ {x}) /\ Cardinality(S \ {x}) = Cardinality(S) - 1
    BY <1>3, FS_RemoveElement
  <2>2. T \in SUBSET (S \ {x})
    BY <1>3
  <2>3. Cardinality(T) <= Cardinality(S) - 1
    BY <2>1, <2>2, FS_Subset
  <2>4. QED BY <1>2, <2>3
<1>4. QED BY <1>1, <1>2, <1>3

(* The sets of mounts are finite.                                          *)
LEMMA MountSets ==
  /\ IsFiniteSet(Mounts) /\ Cardinality(Mounts) = MaxMounts
  /\ IsFiniteSet(Unasked) /\ IsFiniteSet(Unretried)
  /\ IsFiniteSet(Unmounted) /\ IsFiniteSet(Unstarted)
<1>1. IsFiniteSet(Mounts) /\ Cardinality(Mounts) = MaxMounts
  BY Bounds, FS_Interval DEF Mounts
<1>2. /\ Unasked \subseteq Mounts /\ Unretried \subseteq Mounts
      /\ Unmounted \subseteq Mounts /\ Unstarted \subseteq Mounts
  BY DEF Unasked, Unretried, Unmounted, Unstarted
<1>3. QED BY <1>1, <1>2, FS_Subset

(* So are the loads: their ids are bounded.                                *)
LEMMA FetchedSet ==
  ASSUME Shape, Numbered
  PROVE  IsFiniteSet(Fetched)
<1>1. \A x \in Fetched : x \in Nat /\ x <= adapter.nextId
  BY Queues DEF Numbered, Fetched
<1>2. QED BY <1>1, Queues, FS_BoundedSetOfNaturals

(* Until there is a module no two loads are a mount's.                     *)
LEMMA OneLoadEach ==
  ASSUME IInv, DInv, FirstLoads, worker.module = 0
  PROVE  worker.created + Cardinality(Fetched) <= MaxMounts
<1> DEFINE Asker(i, p) == p \in adapter.pending /\ p.id = i /\ Opens(p)
           f == [i \in Fetched |-> (CHOOSE p : Asker(i, p)).mount]
<1>1. ASSUME NEW i \in Fetched PROVE Asker(i, CHOOSE p : Asker(i, p))
  <2>1. PICK l \in worker.loads : l.id = i /\ l.at = "fetching"
    BY DEF Fetched
  <2>2. PICK p \in adapter.pending : p.id = i
    BY <2>1 DEF FirstLoads, LoadsAreAwaited
  <2>3. p.type = "load" /\ ~IsOrphan(p)
    BY <2>1, <2>2 DEF DInv, Numbered, IInv, Alone
  <2>4. Asker(i, p)
    BY <2>2, <2>3 DEF Opens
  <2>5. QED BY <2>4
<1> HIDE DEF Asker
<1>2. \A i \in Fetched : \E p : Asker(i, p) /\ f[i] = p.mount
  BY <1>1
<1>3. \A i \in Fetched : f[i] \in Mounts
  BY <1>2, OpeningMounts DEF Asker, IInv
<1>4. f \in [Fetched -> Mounts]
  BY <1>3
<1>5. \A i, j \in Fetched : f[i] = f[j] => i = j
  BY <1>2 DEF Asker, DInv, Awaited
<1>6. IsFiniteSet(Fetched) /\ IsFiniteSet(Mounts) /\ Cardinality(Mounts) = MaxMounts
  BY FetchedSet, MountSets DEF IInv, DInv
<1> HIDE DEF f
<1>7. ~(Cardinality(Mounts) < Cardinality(Fetched))
  BY <1>4, <1>5, <1>6, FS_PigeonHole
<1>8. Cardinality(Fetched) \in Nat
  BY <1>6, FS_CardinalityType
<1>9. worker.created = 0
  BY DEF IInv, Shape
<1>10. QED BY <1>6, <1>7, <1>8, <1>9, Bounds

(* What a step may spend: a new request takes a mount on, or costs a click *)
(* or a poll; and a new core takes a load.                                 *)
Spends ==
  \/ adapter'.nextId = adapter.nextId
  \/ /\ adapter'.nextId = adapter.nextId + 1
     /\ \/ \E m \in Unasked : m \notin Unasked'
        \/ \E m \in Unretried : m \notin Unretried'
        \/ \E m \in Unmounted : m \notin Unmounted'
        \/ \E m \in Unstarted : m \notin Unstarted'
        \/ budget'.clicks = budget.clicks - 1
        \/ budget'.polls = budget.polls - 1
Makes ==
  \/ worker'.module = 0
  \/ worker'.created = worker.created /\ Fetched' \subseteq Fetched
  \/ /\ worker'.created = worker.created + 1 /\ Fetched' \subseteq Fetched
     /\ \E x \in Fetched : x \notin Fetched'
Narrows ==
  /\ Unasked' \subseteq Unasked /\ Unretried' \subseteq Unretried
  /\ Unmounted' \subseteq Unmounted /\ Unstarted' \subseteq Unstarted
  /\ budget'.clicks <= budget.clicks /\ budget'.polls <= budget.polls

(* A step that pays for what it makes keeps the bounds.                    *)
LEMMA StaysBounded ==
  ASSUME IInv, DInv, FirstLoads, Bounded, Shape', Narrows, Spends, Makes
  PROVE  Bounded'
<1>1. /\ Cardinality(Unasked) \in Nat /\ Cardinality(Unasked') \in Nat
      /\ Cardinality(Unasked') <= Cardinality(Unasked)
      /\ (\E m \in Unasked : m \notin Unasked') => Cardinality(Unasked') + 1 <= Cardinality(Unasked)
  BY MountSets, Shrinks DEF Narrows
<1>2. /\ Cardinality(Unmounted) \in Nat /\ Cardinality(Unmounted') \in Nat
      /\ Cardinality(Unmounted') <= Cardinality(Unmounted)
      /\ (\E m \in Unmounted : m \notin Unmounted') => Cardinality(Unmounted') + 1 <= Cardinality(Unmounted)
  BY MountSets, Shrinks DEF Narrows
<1>3. /\ Cardinality(Unstarted) \in Nat /\ Cardinality(Unstarted') \in Nat
      /\ Cardinality(Unstarted') <= Cardinality(Unstarted)
      /\ (\E m \in Unstarted : m \notin Unstarted') => Cardinality(Unstarted') + 1 <= Cardinality(Unstarted)
  BY MountSets, Shrinks DEF Narrows
<1>4. /\ Cardinality(Unretried) \in Nat /\ Cardinality(Unretried') \in Nat
      /\ Cardinality(Unretried') <= Cardinality(Unretried)
      /\ (\E m \in Unretried : m \notin Unretried') => Cardinality(Unretried') + 1 <= Cardinality(Unretried)
  BY MountSets, Shrinks DEF Narrows
<1>5. /\ adapter.nextId \in Nat /\ budget.clicks \in Nat /\ budget.polls \in Nat
      /\ budget'.clicks \in Nat /\ budget'.polls \in Nat
      /\ worker.created \in Nat
      /\ budget'.clicks <= budget.clicks /\ budget'.polls <= budget.polls
  BY Bounds DEF IInv, Shape, AdapterType, BudgetType, WorkerType, Narrows
<1>6. adapter'.nextId + Unspent' <= 4 * MaxMounts + MaxClicks + MaxPolls + 1
  BY <1>1, <1>2, <1>3, <1>4, <1>5, Bounds DEF Bounded, Spends, Unspent
<1>7. worker'.module # 0 => worker'.created + Cardinality(Fetched') <= MaxMounts
  <2>1. IsFiniteSet(Fetched) /\ worker.created + Cardinality(Fetched) <= MaxMounts
    BY FetchedSet, OneLoadEach DEF IInv, DInv, Bounded
  <2>2. CASE worker'.created = worker.created /\ Fetched' \subseteq Fetched
    BY <1>5, <2>1, <2>2, Shrinks, Bounds
  <2>3. CASE /\ worker'.created = worker.created + 1 /\ Fetched' \subseteq Fetched
             /\ \E x \in Fetched : x \notin Fetched'
    BY <1>5, <2>1, <2>3, Shrinks, Bounds
  <2>4. QED BY <2>2, <2>3 DEF Makes
<1>8. QED BY <1>6, <1>7 DEF Bounded

-----------------------------------------------------------------------------
(* What a step costs.                                                      *)
Costs == Narrows /\ Spends /\ Makes

(* Nobody asks for anything, and no core is made.                          *)
LEMMA FreeStep ==
  ASSUME Shape, budget'.clicks = budget.clicks, budget'.polls = budget.polls,
         \A m \in Mounts :
           \/ mounts'[m].at = mounts[m].at
           \/ {mounts[m].at, mounts'[m].at} \subseteq {"idle", "probing"}
           \/ mounts[m].at = "loading" /\ mounts'[m].at = "retrying"
           \/ mounts[m].at \in Loading \cup {"mounting"} /\ mounts'[m].at = "starting",
         adapter'.nextId = adapter.nextId, Makes
  PROVE  Costs
<1>1. budget'.clicks <= budget.clicks /\ budget'.polls <= budget.polls
  BY Bounds DEF Shape, BudgetType
<1>2. /\ Unasked' \subseteq Unasked /\ Unretried' \subseteq Unretried
      /\ Unmounted' \subseteq Unmounted /\ Unstarted' \subseteq Unstarted
  BY DEF Unasked, Unretried, Unmounted, Unstarted, Loading
<1>3. QED BY <1>1, <1>2 DEF Costs, Narrows, Spends

(* A request is numbered when a mount leaves one of the first three sets.  *)
LEMMA MovesOn ==
  ASSUME Shape, UNCHANGED <<worker, budget>>, adapter'.nextId = adapter.nextId + 1,
         NEW m \in Mounts, NEW at, mounts' = [mounts EXCEPT ![m].at = at],
         \/ /\ mounts[m].at = "probing"
            /\ at \in {"retrying", "mounting", "starting"} \cup Loading
         \/ mounts[m].at = "retrying" /\ at = "reloading"
         \/ mounts[m].at \in Loading /\ at = "mounting"
  PROVE  Costs
<1>1. mounts'[m].at = at /\ \A k \in Mounts : k # m => mounts'[k] = mounts[k]
  BY DEF Shape, MountType
<1>2. Makes
  BY DEF Makes, Fetched
<1>3. Narrows
  <2>1. budget'.clicks <= budget.clicks /\ budget'.polls <= budget.polls
    BY Bounds DEF Shape, BudgetType
  <2>2. QED BY <1>1, <2>1 DEF Narrows, Unasked, Unretried, Unmounted, Unstarted, Loading
<1>4. \/ m \in Unasked /\ m \notin Unasked'
      \/ m \in Unretried /\ m \notin Unretried'
      \/ m \in Unmounted /\ m \notin Unmounted'
  BY <1>1 DEF Unasked, Unretried, Unmounted, Loading
<1>5. QED BY <1>2, <1>3, <1>4 DEF Costs, Spends

(* A disc is picked: nothing is asked for yet.                             *)
LEMMA OpenDiscCosts ==
  ASSUME Shape, NEW m \in Mounts, NEW d \in Discs, OpenDisc(m, d)
  PROVE  Costs
<1>1. /\ mounts \in [Mounts -> MountType] /\ mounts[m].at = "idle"
      /\ mounts' = [mounts EXCEPT ![m] = [disc |-> d, at |-> "probing"]]
      /\ UNCHANGED <<adapter, toWorker, worker, budget>>
  BY DEF OpenDisc, Shape
<1>2. Makes
  BY <1>1 DEF Makes, Fetched
<1>3. QED BY <1>1, <1>2, FreeStep

(* A mount moves on for each request it posts.                             *)
LEMMA AskCosts ==
  ASSUME Shape, UNCHANGED <<worker, budget>>,
         NEW a, a.nextId = adapter.nextId, NEW m \in Mounts, NEW d, NEW r, AsksFor(a, m, d, r),
         mounts[m].at = "probing" \/ (mounts[m].at \in Loading /\ r.type = "mountFile")
  PROVE  Costs
<1>1. PICK at \in AwaitedAt(r) : mounts' = [mounts EXCEPT ![m].at = at]
  BY DEF AsksFor
<1>2. adapter'.nextId = adapter.nextId + 1
  BY DEF AsksFor
<1>3. at \in Loading \cup {"mounting"} /\ (r.type = "mountFile" => at = "mounting")
  BY <1>1 DEF AwaitedAt
<1>4. QED BY <1>1, <1>2, <1>3, MovesOn

(* The disc was checked: a load or a mountFile.                            *)
LEMMA ProbedCosts ==
  ASSUME Shape, NEW m \in Mounts, Probed(m)
  PROVE  Costs
<1>1. PICK d, a : d = mounts[m].disc /\ a = adapter
  OBVIOUS
<1>2. /\ a \in AdapterType /\ a.nextId = adapter.nextId /\ LoadThenMount(a, m, d)
      /\ UNCHANGED <<worker, budget>> /\ mounts[m].at = "probing"
  BY <1>1 DEF Probed, Shape
<1>3. PICK r : AsksFor(a, m, d, r)
  BY <1>2, Asks
<1>4. QED BY <1>2, <1>3, AskCosts

(* The canvas is refused: the orphan has its number.  Or the load is sent  *)
(* again.                                                                  *)
LEMMA RefusalCosts ==
  ASSUME Shape, NEW m \in Mounts, RefuseCanvas(m) \/ LoadAgain(m)
  PROVE  Costs
<1>1. adapter \in AdapterType
  BY DEF Shape
<1>2. UNCHANGED <<worker, budget>> /\ adapter'.nextId = adapter.nextId + 1
  <2>1. CASE RefuseCanvas(m)
    BY <1>1, <2>1 DEF RefuseCanvas, AdapterType
  <2>2. CASE LoadAgain(m)
    BY <1>1, <2>2 DEF LoadAgain, Send, AdapterType
  <2>3. QED BY <2>1, <2>2
<1>3. CASE RefuseCanvas(m)
  <2>1. PICK again \in BOOLEAN : LoadRejected(m, again)
    BY <1>3 DEF RefuseCanvas
  <2>2. PICK at \in {"retrying", "starting"} : mounts' = [mounts EXCEPT ![m].at = at]
    BY <2>1 DEF LoadRejected
  <2>3. mounts[m].at = "probing"
    BY <1>3 DEF RefuseCanvas
  <2>4. QED BY <1>2, <2>2, <2>3, MovesOn
<1>4. CASE LoadAgain(m)
  <2>1. mounts[m].at = "retrying" /\ mounts' = [mounts EXCEPT ![m].at = "reloading"]
    BY <1>4 DEF LoadAgain
  <2>2. QED BY <1>2, <2>1, MovesOn
<1>5. QED BY <1>3, <1>4

(* The start after a mount comes once; clicks and polls are counted.       *)
LEMMA PageCommandCosts ==
  ASSUME Shape, PageCommand
  PROVE  Costs
<1>1. UNCHANGED worker /\ adapter'.nextId \in {adapter.nextId, adapter.nextId + 1}
  BY PageCommands
<1>2. Makes
  BY <1>1 DEF Makes, Fetched
<1>3. /\ mounts \in [Mounts -> MountType] /\ budget.clicks \in Nat /\ budget.polls \in Nat
      /\ budget \in BudgetType
  BY Bounds DEF Shape, BudgetType
<1>4. CASE \E m \in Mounts : StartAfterMount(m)
  <2>1. PICK m \in Mounts : StartAfterMount(m)
    BY <1>4
  <2>2. /\ mounts[m].at = "starting" /\ UNCHANGED budget
        /\ mounts' = [mounts EXCEPT ![m].at = "done"]
    BY <2>1 DEF StartAfterMount
  <2>3. mounts'[m].at = "done" /\ \A k \in Mounts : k # m => mounts'[k] = mounts[k]
    BY <1>3, <2>2 DEF MountType
  <2>4. m \in Unstarted /\ m \notin Unstarted'
    BY <2>2, <2>3 DEF Unstarted
  <2>5. Narrows
    BY <1>3, <2>2, <2>3 DEF Narrows, Unasked, Unretried, Unmounted, Unstarted, Loading
  <2>6. Spends
    BY <1>1, <2>4 DEF Spends
  <2>7. QED BY <1>2, <2>5, <2>6 DEF Costs
<1>5. CASE ClickRun \/ ClickReset \/ PollFrame
  <2>1. /\ UNCHANGED mounts
        /\ \/ budget' = [budget EXCEPT !.clicks = @ - 1]
           \/ budget' = [budget EXCEPT !.polls = @ - 1]
    BY <1>5 DEF ClickRun, ClickReset, PollFrame
  <2>2. \/ budget'.clicks = budget.clicks - 1 /\ budget'.polls = budget.polls
        \/ budget'.clicks = budget.clicks /\ budget'.polls = budget.polls - 1
    BY <1>3, <2>1 DEF BudgetType
  <2>3. budget'.clicks <= budget.clicks /\ budget'.polls <= budget.polls
    BY <1>3, <2>2
  <2>4. Narrows
    BY <2>1, <2>3 DEF Narrows, Unasked, Unretried, Unmounted, Unstarted
  <2>5. Spends
    BY <1>1, <2>2 DEF Spends
  <2>6. QED BY <1>2, <2>4, <2>5 DEF Costs
<1>6. QED BY <1>4, <1>5 DEF PageCommand

(* The worker's steps, but for a new core, cost nothing.  A load is only   *)
(* fetched while there is no module.                                       *)
LEMMA ServeCosts ==
  ASSUME Shape, Serve
  PROVE  Costs
<1>1. UNCHANGED <<mounts, adapter, budget>> /\ worker \in WorkerType
  BY DEF Serve, ServeLoad, ServeMount, ServeFrame, ServeUnknown, Receives, Shape
<1>2. Makes
  <2>1. CASE UNCHANGED worker
    BY <2>1 DEF Makes, Fetched
  <2>2. CASE ServeLoad /\ worker.module = 0
    <3>1. worker' = [worker EXCEPT !.loads = @ \cup {[id |-> Head(toWorker).id, at |-> "fetching"]}]
      BY <2>2 DEF ServeLoad, LoadCore
    <3>2. worker'.module = 0
      BY <1>1, <2>2, <3>1 DEF WorkerType
    <3>3. QED BY <3>2 DEF Makes
  <2>3. CASE \E d : worker' = MarkMounted(d)
    <3>1. worker'.created = worker.created /\ worker'.loads = worker.loads
      BY <1>1, <2>3 DEF MarkMounted, WorkerType
    <3>2. QED BY <3>1 DEF Makes, Fetched
  <2>4. QED
    BY <2>1, <2>2, <2>3
    DEF Serve, ServeLoad, ServeMount, ServeFrame, ServeUnknown, LoadCore, MountFile
<1>3. QED BY <1>1, <1>2, FreeStep

(* A load that ends leaves the table it was in.                            *)
LEMMA LoadEndCosts ==
  ASSUME Shape, NEW l \in worker.loads, FinishLoad(l) \/ FailLoad(l)
  PROVE  Costs
<1>1. /\ UNCHANGED <<mounts, adapter, toWorker, budget>>
      /\ worker' = [worker EXCEPT !.loads = @ \ {l}]
  BY DEF FinishLoad, FailLoad
<1>2. worker'.created = worker.created /\ worker'.loads = worker.loads \ {l}
  BY <1>1 DEF Shape, WorkerType
<1>3. Makes
  BY <1>2 DEF Makes, Fetched
<1>4. QED BY <1>1, <1>3, FreeStep

(* A new core takes a load that was being fetched.                         *)
LEMMA CreateModuleCosts ==
  ASSUME Shape, Numbered, NEW l \in worker.loads, CreateModule(l)
  PROVE  Costs
<1>1. /\ UNCHANGED <<mounts, adapter, toWorker, budget>> /\ l.at = "fetching"
      /\ worker' = [worker EXCEPT !.created = @ + 1, !.module = worker.created + 1,
                                  !.loads = (@ \ {l}) \cup {[l EXCEPT !.at = "installing"]}]
  BY DEF CreateModule
<1>2. l \in Load
  BY DEF Shape, WorkerType
<1>3. PICK k : k = [l EXCEPT !.at = "installing"]
  OBVIOUS
<1>4. k.at = "installing"
  BY <1>2, <1>3 DEF Load
<1>5. worker'.created = worker.created + 1 /\ worker'.loads = (worker.loads \ {l}) \cup {k}
  BY <1>1, <1>3 DEF Shape, WorkerType
<1>6. Fetched' \subseteq Fetched /\ l.id \in Fetched
  BY <1>1, <1>4, <1>5 DEF Fetched
<1>7. l.id \notin Fetched'
  BY <1>4, <1>5 DEF Fetched, Numbered
<1>8. Makes
  BY <1>5, <1>6, <1>7 DEF Makes
<1>9. QED BY <1>1, <1>8, FreeStep

-----------------------------------------------------------------------------
(* A reply costs nothing, but for the mountFile that follows a load.       *)
LEMMA DeliverCosts ==
  ASSUME IInv, DInv, Deliver
  PROVE  Costs
<1>1. /\ Shape /\ Awaited /\ UNCHANGED <<worker, cores, budget>>
      /\ mounts \in [Mounts -> MountType] /\ toHost # <<>>
  BY DEF Deliver, IInv, DInv, Shape
<1>2. ASSUME adapter'.nextId = adapter.nextId,
             \A m \in Mounts :
               \/ mounts'[m].at = mounts[m].at
               \/ mounts[m].at = "loading" /\ mounts'[m].at = "retrying"
               \/ mounts[m].at \in Loading \cup {"mounting"} /\ mounts'[m].at = "starting"
      PROVE  Costs
  <2>1. Makes
    BY <1>1 DEF Makes, Fetched
  <2>2. QED BY <1>1, <1>2, <2>1, FreeStep
<1>3. CASE \A r \in adapter.pending : r.id # Head(toHost).id
  <2>1. UNCHANGED <<mounts, adapter>>
    BY <1>3 DEF Deliver
  <2>2. QED BY <1>2, <2>1
<1>4. ASSUME NEW r \in adapter.pending, r.id = Head(toHost).id,
             Settle([adapter EXCEPT !.pending = @ \ {r}], r, Head(toHost))
      PROVE  Costs
  <2>1. PICK a \in AdapterType : Settles(a, r)
    BY <1>1, <1>4, Settlement
  <2>2. a.nextId = adapter.nextId /\ Head(toHost) \in Rep
    BY <1>1, <1>4, <2>1, Settlement DEF Settles
  <2>3. ~IsOrphan(r)
    <3>1. Head(toHost) \in Replied
      BY <1>1, Delivers DEF Deliver
    <3>2. QED BY <1>4, <3>1 DEF IInv, Alone
  <2>4. r.type \in {"load", "mountFile"} => /\ r.mount \in Mounts
                                           /\ mounts[r.mount].at \in AwaitedAt(r)
    BY <1>1, <1>4, <2>3, OpeningMounts DEF Awaited, Opens
  <2>5. CASE r.type = "load" /\ Head(toHost).ok
    <3>1. PICK b : b = [a EXCEPT !.loaded = TRUE]
      OBVIOUS
    <3>2. b \in AdapterType /\ b.loaded /\ b.nextId = adapter.nextId
      BY <2>2, <3>1 DEF AdapterType
    <3>3. PICK m \in Mounts : m = r.mount /\ mounts[m].at \in Loading
      BY <2>4, <2>5 DEF AwaitedAt
    <3>4. PICK d : d = mounts[m].disc
      OBVIOUS
    <3>5. LoadThenMount(b, m, d)
      BY <2>1, <2>5, <3>1, <3>3, <3>4 DEF Settles
    <3>6. PICK q : AsksFor(b, m, d, q)
      BY <3>2, <3>5, Asks
    <3>7. q.type = "mountFile"
      BY <3>2, <3>6 DEF AsksFor
    <3>8. QED BY <1>1, <3>2, <3>3, <3>6, <3>7, AskCosts
  <2>6. CASE r.type \in {"load", "mountFile"} /\ ~(r.type = "load" /\ Head(toHost).ok)
    <3>1. PICK m \in Mounts : m = r.mount /\ mounts[m].at \in AwaitedAt(r)
      BY <2>4, <2>6
    <3>2. PICK at \in {"starting", "retrying"} :
            /\ mounts' = [mounts EXCEPT ![m].at = at]
            /\ at = "retrying" => r.type = "load" /\ mounts[m].at # "reloading"
      <4>1. CASE r.type = "mountFile"
        BY <2>1, <2>2, <3>1, <4>1 DEF Settles, Rep
      <4>2. CASE r.type = "load" /\ ~Head(toHost).ok
        <5>1. PICK again \in BOOLEAN : LoadRejected(m, again)
          BY <1>4, <3>1, <4>2 DEF Settle
        <5>2. QED BY <4>2, <5>1 DEF LoadRejected
      <4>3. QED BY <2>2, <2>6, <4>1, <4>2 DEF Rep
    <3>3. mounts'[m].at = at /\ \A k \in Mounts : k # m => mounts'[k] = mounts[k]
      BY <1>1, <3>2 DEF MountType
    <3>4. \/ mounts[m].at = "loading" /\ at = "retrying"
          \/ mounts[m].at \in Loading \cup {"mounting"} /\ at = "starting"
      BY <2>6, <3>1, <3>2 DEF AwaitedAt, Loading
    <3>5. adapter' = a
      BY <2>1, <2>2, <2>6 DEF Settles, Rep
    <3>6. QED BY <1>2, <2>2, <3>3, <3>4, <3>5
  <2>7. CASE r.type \notin {"load", "mountFile"}
    <3>1. /\ adapter' = [a EXCEPT !.framePending = @ /\ r.type # "runFrame"]
          /\ UNCHANGED mounts
      BY <2>1, <2>7 DEF Settles
    <3>2. adapter'.nextId = adapter.nextId
      BY <2>2, <3>1 DEF AdapterType
    <3>3. QED BY <1>2, <3>1, <3>2
  <2>8. QED BY <2>5, <2>6, <2>7
<1>5. QED BY <1>3, <1>4 DEF Deliver

(* An error event ends what waits, and posts nothing.                      *)
LEMMA WorkerErrorCosts ==
  ASSUME Shape, WorkerError
  PROVE  Costs
<1>1. /\ budget' = [budget EXCEPT !.errors = @ - 1]
      /\ UNCHANGED <<toWorker, toHost, worker, cores>>
      /\ adapter' = [adapter EXCEPT !.pending = {}, !.framePending = FALSE]
      /\ \E again \in BOOLEAN : \A m \in Mounts : Rejected(again, m)
  BY Rejections DEF WorkerError
<1>2. /\ adapter'.nextId = adapter.nextId
      /\ budget'.clicks = budget.clicks /\ budget'.polls = budget.polls
  BY <1>1 DEF Shape, AdapterType, BudgetType
<1>3. \A m \in Mounts :
        \/ mounts'[m].at = mounts[m].at
        \/ mounts[m].at = "loading" /\ mounts'[m].at = "retrying"
        \/ mounts[m].at \in Loading \cup {"mounting"} /\ mounts'[m].at = "starting"
  BY <1>1 DEF Shape, MountType, Rejected
<1>4. Makes
  BY <1>1 DEF Makes, Fetched
<1>5. QED BY <1>2, <1>3, <1>4, FreeStep

(* Every step pays for what it makes.                                      *)
LEMMA NextCosts ==
  ASSUME IInv, DInv, [Next]_vars
  PROVE  Costs
<1>1. Shape /\ Numbered
  BY DEF IInv, DInv
<1>2. CASE UNCHANGED <<mounts, adapter, toWorker, worker, budget>>
  <2>1. Makes
    BY <1>2 DEF Makes, Fetched
  <2>2. QED BY <1>1, <1>2, <2>1, FreeStep
<1>3. CASE PageStep \/ ClickRun \/ ClickReset \/ PollFrame
  BY <1>1, <1>3, ProbedCosts, RefusalCosts, PageCommandCosts DEF PageStep, PageCommand
<1>4. CASE Serve \/ LoadStep
  BY <1>1, <1>4, ServeCosts, CreateModuleCosts, LoadEndCosts DEF LoadStep
<1>5. CASE Deliver \/ WorkerError
  BY <1>1, <1>5, DeliverCosts, WorkerErrorCosts
<1>6. CASE \E m \in Mounts, d \in Discs : OpenDisc(m, d)
  BY <1>1, <1>6, OpenDiscCosts
<1>7. CASE (\E c \in 1 .. Len(cores) : Emulate(c)) \/ UNCHANGED vars
  BY <1>2, <1>7 DEF Emulate, vars
<1>8. QED BY <1>3, <1>4, <1>5, <1>6, <1>7 DEF Next

(* A load that a reply or a request leaves alone stays awaited.            *)
LEMMA StaysAwaited ==
  ASSUME LoadsAreAwaited,
         \A l \in worker'.loads : l.at = "fetching" =>
           l \in worker.loads \/ \E p \in adapter'.pending : p.id = l.id,
         \A l \in worker.loads : \A p \in adapter.pending : p.id = l.id => p \in adapter'.pending
  PROVE  LoadsAreAwaited'
BY DEF LoadsAreAwaited

(* Until there is a module a mount waits for every load.                   *)
LEMMA NextFirstLoads == IInv /\ DInv /\ FirstLoads /\ [Next]_vars => FirstLoads'
<1> SUFFICES ASSUME IInv, DInv, FirstLoads, [Next]_vars, worker'.module = 0
             PROVE  LoadsAreAwaited'
  BY DEF FirstLoads
<1>1. Shape /\ Numbered /\ worker \in WorkerType /\ adapter \in AdapterType
  BY DEF IInv, DInv, Shape
<1>2. CASE UNCHANGED <<adapter, worker>>
  BY <1>2 DEF FirstLoads, LoadsAreAwaited
<1>3. CASE Serve
  <2>1. UNCHANGED adapter
    BY <1>3 DEF Serve, ServeLoad, ServeMount, ServeFrame, ServeUnknown, Receives
  <2>2. CASE ServeLoad /\ worker.module = 0
    <3>1. PICK l : l = [id |-> Head(toWorker).id, at |-> "fetching"]
      OBVIOUS
    <3>2. /\ worker' = [worker EXCEPT !.loads = @ \cup {l}]
          /\ toWorker # <<>> /\ toWorker' = Tail(toWorker)
      BY <2>2, <3>1 DEF ServeLoad, LoadCore, Receives
    <3>3. Head(toWorker) \in Queued /\ worker'.loads = worker.loads \cup {l}
      BY <1>1, <3>2, Takes DEF WorkerType
    <3>4. Head(toWorker) \in adapter.pending
      BY <2>2, <3>3 DEF DInv, CutOff
    <3>5. QED BY <2>1, <2>2, <3>1, <3>3, <3>4, StaysAwaited DEF FirstLoads
  <2>3. CASE UNCHANGED worker \/ \E d : worker' = MarkMounted(d)
    <3>1. worker'.module = worker.module /\ worker'.loads = worker.loads
      BY <1>1, <2>3 DEF MarkMounted, WorkerType
    <3>2. QED BY <2>1, <3>1 DEF FirstLoads, LoadsAreAwaited
  <2>4. QED
    BY <1>3, <2>2, <2>3
    DEF Serve, ServeLoad, ServeMount, ServeFrame, ServeUnknown, LoadCore, MountFile
<1>4. CASE LoadStep
  <2>1. PICK l \in worker.loads : CreateModule(l) \/ FinishLoad(l) \/ FailLoad(l)
    BY <1>4 DEF LoadStep
  <2>2. CASE CreateModule(l)
    <3>1. worker'.module = worker.created + 1 /\ worker.created \in Nat
      BY <1>1, <2>2 DEF CreateModule, WorkerType
    <3>2. QED BY <3>1
  <2>3. CASE FinishLoad(l) \/ FailLoad(l)
    <3>1. worker' = [worker EXCEPT !.loads = @ \ {l}] /\ UNCHANGED adapter
      BY <2>3 DEF FinishLoad, FailLoad
    <3>2. worker'.module = worker.module /\ worker'.loads = worker.loads \ {l}
      BY <1>1, <3>1 DEF WorkerType
    <3>3. QED BY <3>1, <3>2 DEF FirstLoads, LoadsAreAwaited
  <2>4. QED BY <2>1, <2>2, <2>3
<1>5. CASE PageStep \/ ClickRun \/ ClickReset \/ PollFrame
  <2>1. UNCHANGED worker /\ adapter.pending \subseteq adapter'.pending
    <3>1. CASE PageCommand
      BY <1>1, <3>1, PageCommands
    <3>2. ASSUME NEW m \in Mounts, Probed(m) \/ RefuseCanvas(m) \/ LoadAgain(m)
          PROVE  UNCHANGED worker /\ adapter.pending \subseteq adapter'.pending
      <4>1. CASE Probed(m)
        <5>1. LoadThenMount(adapter, m, mounts[m].disc) /\ UNCHANGED worker
          BY <4>1 DEF Probed
        <5>2. PICK r : AsksFor(adapter, m, mounts[m].disc, r)
          BY <1>1, <5>1, Asks
        <5>3. QED BY <5>1, <5>2 DEF AsksFor
      <4>2. CASE RefuseCanvas(m)
        BY <1>1, <4>2 DEF RefuseCanvas, AdapterType
      <4>3. CASE LoadAgain(m)
        BY <1>1, <4>3 DEF LoadAgain, Send, AdapterType
      <4>4. QED BY <3>2, <4>1, <4>2, <4>3
    <3>3. QED BY <1>5, <3>1, <3>2 DEF PageStep, PageCommand
  <2>2. QED BY <2>1, StaysAwaited DEF FirstLoads
<1>6. CASE Deliver
  <2>1. UNCHANGED worker /\ toHost # <<>>
    BY <1>6 DEF Deliver
  <2>2. CASE \A r \in adapter.pending : r.id # Head(toHost).id
    <3>1. UNCHANGED adapter
      BY <1>6, <2>2 DEF Deliver
    <3>2. QED BY <1>2, <2>1, <3>1
  <2>3. ASSUME NEW r \in adapter.pending, r.id = Head(toHost).id,
               Settle([adapter EXCEPT !.pending = @ \ {r}], r, Head(toHost))
        PROVE  LoadsAreAwaited'
    <3>1. PICK a \in AdapterType : Settles(a, r)
      BY <1>1, <1>6, <2>3, Settlement
    <3>2. a.pending = adapter.pending \ {r}
      BY <3>1 DEF Settles
    <3>3. adapter.pending \ {r} \subseteq adapter'.pending
      <4>1. Head(toHost).ok \in BOOLEAN /\ toHost' = Tail(toHost)
        BY <1>1, <1>6, <2>3, Settlement DEF Rep
      <4>2. CASE r.type = "load" /\ Head(toHost).ok
        <5>1. PICK b : b = [a EXCEPT !.loaded = TRUE]
          OBVIOUS
        <5>2. b \in AdapterType /\ b.pending = a.pending
          BY <5>1 DEF AdapterType
        <5>3. ~IsOrphan(r)
          <6>1. Head(toHost) \in Replied
            BY <1>1, <2>1, <4>1, Delivers
          <6>2. QED BY <2>3, <6>1 DEF IInv, Alone
        <5>4. r.mount \in Mounts
          BY <1>1, <4>2, <5>3, OpeningMounts DEF Opens
        <5>5. LoadThenMount(b, r.mount, mounts[r.mount].disc)
          BY <3>1, <4>2, <5>1 DEF Settles
        <5>6. PICK q : AsksFor(b, r.mount, mounts[r.mount].disc, q)
          BY <5>2, <5>4, <5>5, Asks
        <5>7. QED BY <3>2, <5>2, <5>6 DEF AsksFor
      <4>3. CASE ~(r.type = "load" /\ Head(toHost).ok)
        <5>1. adapter'.pending = a.pending
          BY <3>1, <4>1, <4>3 DEF Settles, AdapterType
        <5>2. QED BY <3>2, <5>1
      <4>4. QED BY <4>2, <4>3
    <3>4. \A l \in worker.loads : l.id # r.id
      <4>1. toHost' = Tail(toHost)
        BY <1>6 DEF Deliver
      <4>2. Head(toHost) \in Replied
        BY <1>1, <2>1, <4>1, Delivers
      <4>3. QED BY <1>1, <2>3, <4>2 DEF Numbered
    <3>5. QED BY <2>1, <3>3, <3>4, StaysAwaited DEF FirstLoads
  <2>4. QED BY <1>6, <2>2, <2>3 DEF Deliver
<1>7. CASE WorkerError
  BY <1>7 DEF WorkerError
<1>8. CASE \E m \in Mounts, d \in Discs : OpenDisc(m, d)
  BY <1>2, <1>8 DEF OpenDisc
<1>9. CASE (\E c \in 1 .. Len(cores) : Emulate(c)) \/ UNCHANGED vars
  BY <1>2, <1>9 DEF Emulate, vars
<1>10. QED BY <1>3, <1>4, <1>5, <1>6, <1>7, <1>8, <1>9 DEF Next

(* At the start every mount may still ask for everything.                  *)
LEMMA InitBounded == Init => FirstLoads /\ Bounded
<1> SUFFICES ASSUME Init PROVE FirstLoads /\ Bounded
  OBVIOUS
<1>1. Unasked = Mounts /\ Unretried = Mounts /\ Unmounted = Mounts /\ Unstarted = Mounts
  BY DEF Init, Unasked, Unretried, Unmounted, Unstarted
<1>2. Fetched = {} /\ FirstLoads
  BY DEF Init, Fetched, FirstLoads, LoadsAreAwaited
<1>3. Cardinality(Mounts) = MaxMounts /\ Cardinality(Fetched) = 0
  BY <1>2, MountSets, FS_EmptySet
<1>4. /\ adapter.nextId = 1 /\ worker.created = 0
      /\ budget.clicks \in {0, MaxClicks} /\ budget.polls \in {0, MaxPolls}
  BY DEF Init
<1>5. QED BY <1>1, <1>2, <1>3, <1>4, Bounds DEF Bounded, Unspent

(* So the bounds stay.                                                     *)
LEMMA NextBounded ==
  IInv /\ DInv /\ FirstLoads /\ Bounded /\ [Next]_vars => (FirstLoads /\ Bounded)'
<1> SUFFICES ASSUME IInv, DInv, FirstLoads, Bounded, [Next]_vars PROVE FirstLoads' /\ Bounded'
  OBVIOUS
<1>1. Shape' /\ FirstLoads'
  BY NextInv, NextFirstLoads DEF IInv
<1>2. QED BY <1>1, NextCosts, StaysBounded DEF Costs

(* Every state of the session has the form TypeOK gives it: no more        *)
(* requests are numbered than mounts, clicks and polls ask for, and no     *)
(* more cores are made than discs are opened, however loads overlap, fail  *)
(* and are sent again.                                                     *)
THEOREM TypeCorrect == Spec => []TypeOK
<1>1. ASSUME IInv, DInv, FirstLoads, Bounded PROVE TypeOK
  <2>1. Shape /\ Numbered /\ host \in HostType
    BY <1>1 DEF IInv, DInv
  <2>2. /\ Cardinality(Unasked) \in Nat /\ Cardinality(Unretried) \in Nat
        /\ Cardinality(Unmounted) \in Nat /\ Cardinality(Unstarted) \in Nat
        /\ Cardinality(Fetched) \in Nat
    BY <2>1, MountSets, FetchedSet, FS_CardinalityType
  <2>3. /\ adapter.nextId \in Nat \ {0} /\ worker.created \in Nat
        /\ budget.clicks \in Nat /\ budget.polls \in Nat
    BY <2>1, Bounds DEF Shape, AdapterType, WorkerType, BudgetType
  <2>4. /\ adapter.nextId <= 4 * MaxMounts + MaxClicks + MaxPolls + 1
        /\ worker.created <= MaxMounts
    <3>1. worker.created + Cardinality(Fetched) <= MaxMounts
      BY <1>1, OneLoadEach DEF Bounded
    <3>2. worker.created <= MaxMounts
      BY <2>2, <2>3, <3>1, Bounds
    <3>3. adapter.nextId <= 4 * MaxMounts + MaxClicks + MaxPolls + 1
      BY <1>1, <2>2, <2>3, Bounds DEF Bounded, Unspent
    <3>4. QED BY <3>2, <3>3
  <2>5. PICK n \in Nat : n = 3 * MaxMounts + 2 * MaxClicks + MaxPolls + MaxMounts
    BY Bounds
  <2>6. Ids = 1 .. n /\ Cardinality(Ids) = n
    BY <2>5, FS_Interval DEF Ids
  <2>7. adapter.nextId <= n + 1
    BY <2>3, <2>4, <2>5, Bounds
  <2>8. \A i \in Nat \ {0} : i < adapter.nextId => i \in Ids
    BY <2>3, <2>5, <2>6, <2>7
  <2>9. adapter.nextId \in Ids \cup {Cardinality(Ids) + 1}
    BY <2>3, <2>5, <2>6, <2>7
  <2>10. \A q \in Req : q.id \in Ids => q \in Request
    BY Bounds DEF Req, Request
  <2>11. \A t \in Rep : t.id \in Ids => t \in Reply
    BY DEF Rep, Reply
  <2>12. adapter.pending \subseteq Request
    <3>1. \A p \in adapter.pending : /\ p \in Req \cup {OrphanLoad(1)}
                                     /\ p.id \in Nat \ {0} /\ p.id < adapter.nextId
      BY <2>1, Entries DEF Shape, AdapterType, Entry, Req, OrphanLoad, Numbered
    <3>2. OrphanLoad(1).id = 1 /\ (1 \in Ids => OrphanLoad(1) \in Request)
      BY Bounds DEF OrphanLoad, Request, Types
    <3>3. QED BY <2>8, <2>10, <3>1, <3>2
  <2>13. toWorker \in Seq(Request)
    <3>1. toWorker \in Seq(Req) /\ Len(toWorker) \in Nat
      BY <2>1 DEF Shape
    <3>2. \A j \in 1 .. Len(toWorker) :
            toWorker[j] \in Req /\ toWorker[j].id \in Nat \ {0} /\ toWorker[j].id < adapter.nextId
      BY <2>1, <3>1 DEF Numbered, Queued, Req
    <3>3. \A j \in 1 .. Len(toWorker) : toWorker[j] \in Request
      BY <2>8, <2>10, <3>2
    <3>4. QED BY <3>1, <3>3
  <2>14. toHost \in Seq(Reply)
    <3>1. toHost \in Seq(Rep) /\ Len(toHost) \in Nat
      BY <2>1 DEF Shape
    <3>2. \A t \in Replied : t.id < adapter.nextId
      BY <2>1 DEF Numbered
    <3>3. \A j \in 1 .. Len(toHost) : toHost[j] \in Replied /\ toHost[j] \in Rep
      BY <3>1 DEF Replied
    <3>4. \A t \in Rep : t.id \in Nat \ {0}
      BY DEF Rep
    <3>5. \A j \in 1 .. Len(toHost) : toHost[j] \in Reply
      BY <2>8, <2>11, <3>2, <3>3, <3>4
    <3>6. QED BY <3>1, <3>5
  <2>15. worker.loads \subseteq [id : Ids, at : {"fetching", "installing"}]
    <3>1. \A l \in worker.loads : l \in Load /\ l.id \in Nat \ {0} /\ l.id < adapter.nextId
      BY <2>1 DEF Shape, WorkerType, Load, Numbered
    <3>2. \A l \in Load : l.id \in Ids => l \in [id : Ids, at : {"fetching", "installing"}]
      BY DEF Load
    <3>3. QED BY <2>8, <3>1, <3>2
  <2>16. worker \in [module : 0 .. MaxMounts, created : 0 .. MaxMounts, mounted : BOOLEAN,
                     loads : SUBSET [id : Ids, at : {"fetching", "installing"}]]
    <3>1. worker.module = worker.created /\ worker.created \in 0 .. MaxMounts
      BY <2>1, <2>3, <2>4, Bounds DEF Shape
    <3>2. QED BY <2>1, <2>15, <3>1 DEF Shape, WorkerType
  <2>17. adapter \in [loaded : BOOLEAN, pending : SUBSET Request,
                      nextId : Ids \cup {Cardinality(Ids) + 1}, framePending : BOOLEAN]
    BY <2>1, <2>9, <2>12 DEF Shape, AdapterType
  <2>18. QED
    BY <2>1, <2>13, <2>14, <2>16, <2>17 DEF TypeOK, Shape, MountType, HostType, CoreType, BudgetType
<1>2. Init => IInv /\ DInv /\ FirstLoads /\ Bounded
  BY InitInv, InitShows, InitBounded
<1>3. IInv /\ DInv /\ FirstLoads /\ Bounded /\ [Next]_vars =>
        (IInv /\ DInv /\ FirstLoads /\ Bounded)'
  BY NextInv, NextShows, NextBounded
<1>4. QED BY <1>1, <1>2, <1>3, PTL DEF Spec

-----------------------------------------------------------------------------
(* Who waits for the worker, and for which answer.                         *)
MountsAsk ==
  \A m \in Mounts : mounts[m].at \in Loading \cup {"mounting"} =>
    \E p \in adapter.pending :
      p.mount = m /\ p.type = IF mounts[m].at = "mounting" THEN "mountFile" ELSE "load"
FramesAsk == adapter.framePending => \E p \in adapter.pending : p.type = "runFrame"
Held(p) ==
  \/ p \in Queued
  \/ \E l \in worker.loads : l.id = p.id
  \/ \E t \in Replied : t.id = p.id
  \/ IsOrphan(p)
AllHeld == \A p \in adapter.pending : Held(p)
WInv == MountsAsk /\ FramesAsk /\ AllHeld

(* All but the oldest stay in a queue.                                     *)
LEMMA TakesOne ==
  ASSUME Shape, toWorker # <<>>, toWorker' = Tail(toWorker)
  PROVE  \A q \in Queued : q = Head(toWorker) \/ q \in Queued'
<1>1. /\ Len(toWorker) \in Nat /\ Head(toWorker) = toWorker[1]
      /\ Len(toWorker') = Len(toWorker) - 1
      /\ \A j \in 1 .. Len(toWorker') : toWorker'[j] = toWorker[j + 1]
  BY DEF Shape
<1>2. Queued' = {toWorker'[j] : j \in 1 .. Len(toWorker')}
  BY DEF Queued
<1>3. \A j \in 1 .. Len(toWorker) :
        j = 1 \/ (j - 1 \in 1 .. Len(toWorker') /\ toWorker'[j - 1] = toWorker[j])
  BY <1>1
<1>4. SUFFICES ASSUME NEW q \in Queued PROVE q = Head(toWorker) \/ q \in Queued'
  OBVIOUS
<1>5. PICK j \in 1 .. Len(toWorker) : q = toWorker[j]
  BY DEF Queued
<1>6. QED BY <1>1, <1>2, <1>3, <1>5

(* So do all but the oldest answer.                                        *)
LEMMA DeliversOne ==
  ASSUME Shape, toHost # <<>>, toHost' = Tail(toHost)
  PROVE  \A t \in Replied : t = Head(toHost) \/ t \in Replied'
<1>1. /\ Len(toHost) \in Nat /\ Head(toHost) = toHost[1]
      /\ Len(toHost') = Len(toHost) - 1
      /\ \A j \in 1 .. Len(toHost') : toHost'[j] = toHost[j + 1]
  BY DEF Shape
<1>2. Replied' = {toHost'[j] : j \in 1 .. Len(toHost')}
  BY DEF Replied
<1>3. \A j \in 1 .. Len(toHost) :
        j = 1 \/ (j - 1 \in 1 .. Len(toHost') /\ toHost'[j - 1] = toHost[j])
  BY <1>1
<1>4. SUFFICES ASSUME NEW t \in Replied PROVE t = Head(toHost) \/ t \in Replied'
  OBVIOUS
<1>5. PICK j \in 1 .. Len(toHost) : t = toHost[j]
  BY DEF Replied
<1>6. QED BY <1>1, <1>2, <1>3, <1>5

(* What is not answered stays where it is, or moves on.                    *)
LEMMA StaysHeld ==
  ASSUME AllHeld, adapter'.pending \subseteq adapter.pending,
         \A q \in Queued : q \in Queued' \/ (\E l \in worker'.loads : l.id = q.id)
                             \/ (\E t \in Replied' : t.id = q.id),
         \A l \in worker.loads : (\E k \in worker'.loads : k.id = l.id)
                                   \/ (\E t \in Replied' : t.id = l.id),
         \A t \in Replied : t \in Replied' \/ \A p \in adapter'.pending : p.id # t.id
  PROVE  AllHeld'
BY DEF AllHeld, Held

(* A request is posted.                                                    *)
LEMMA PostHeld ==
  ASSUME Shape, AllHeld, NEW r, toWorker' = Append(toWorker, r), UNCHANGED worker,
         adapter'.pending \subseteq adapter.pending \cup {r},
         \A t \in Replied : t \in Replied' \/ \A p \in adapter'.pending : p.id # t.id
  PROVE  AllHeld'
<1>1. Queued' = Queued \cup {r}
  BY Posts
<1>2. QED BY <1>1 DEF AllHeld, Held

(* The worker takes a request: it is answered, or its load begins.         *)
LEMMA ServeWaits ==
  ASSUME Shape, WInv, Serve
  PROVE  WInv'
<1>1. PICK type : Receives(type)
  BY DEF Serve, ServeLoad, ServeMount, ServeFrame, ServeUnknown
<1>2. /\ UNCHANGED <<mounts, adapter>> /\ toWorker # <<>> /\ toWorker' = Tail(toWorker)
  BY <1>1 DEF Receives
<1>3. MountsAsk' /\ FramesAsk'
  BY <1>2 DEF WInv, MountsAsk, FramesAsk
<1>4. \A q \in Queued : q = Head(toWorker) \/ q \in Queued'
  BY <1>2, TakesOne
<1>5. CASE \E ok, disc : Answer(Head(toWorker).id, ok, disc) /\ worker'.loads = worker.loads
  <2>1. PICK t : t.id = Head(toWorker).id /\ Replied' = Replied \cup {t}
    BY <1>5, Answers
  <2>2. AllHeld'
    BY <1>2, <1>4, <1>5, <2>1, StaysHeld DEF WInv
  <2>3. QED BY <1>3, <2>2 DEF WInv
<1>6. CASE ServeLoad /\ worker.module = 0
  <2>1. /\ UNCHANGED toHost
        /\ worker' = [worker EXCEPT !.loads = @ \cup {[id |-> Head(toWorker).id, at |-> "fetching"]}]
    BY <1>6 DEF ServeLoad, LoadCore
  <2>2. worker'.loads = worker.loads \cup {[id |-> Head(toWorker).id, at |-> "fetching"]}
    BY <2>1 DEF Shape, WorkerType
  <2>3. Replied' = Replied
    BY <2>1 DEF Replied
  <2>4. AllHeld'
    BY <1>2, <1>4, <2>2, <2>3, StaysHeld DEF WInv
  <2>5. QED BY <1>3, <2>4 DEF WInv
<1>7. QED
  <2>1. CASE ServeMount
    <3>1. \/ UNCHANGED worker
          \/ \E d : worker' = MarkMounted(d)
      BY <2>1 DEF ServeMount, MountFile
    <3>2. worker'.loads = worker.loads
      BY <3>1 DEF MarkMounted, Shape, WorkerType
    <3>3. QED BY <1>5, <2>1, <3>2 DEF ServeMount, MountFile
  <2>2. QED BY <1>5, <1>6, <2>1 DEF Serve, ServeLoad, ServeFrame, ServeUnknown, LoadCore

(* A load goes on, is answered or fails; a game runs.                      *)
LEMMA LoadWaits ==
  ASSUME Shape, WInv, LoadStep
  PROVE  WInv'
<1>1. PICK l \in worker.loads : CreateModule(l) \/ FinishLoad(l) \/ FailLoad(l)
  BY DEF LoadStep
<1>2. UNCHANGED <<mounts, adapter, toWorker>> /\ l \in Load
  BY <1>1 DEF CreateModule, FinishLoad, FailLoad, Shape, WorkerType
<1>3. MountsAsk' /\ FramesAsk' /\ Queued' = Queued
  BY <1>2 DEF WInv, MountsAsk, FramesAsk, Queued
<1>4. CASE CreateModule(l)
  <2>1. PICK k : k = [l EXCEPT !.at = "installing"]
    OBVIOUS
  <2>2. worker'.loads = (worker.loads \ {l}) \cup {k} /\ k.id = l.id
    BY <1>2, <1>4, <2>1 DEF CreateModule, Shape, WorkerType, Load
  <2>3. Replied' = Replied
    BY <1>4 DEF CreateModule, Replied
  <2>4. AllHeld'
    BY <1>2, <1>3, <2>2, <2>3, StaysHeld DEF WInv
  <2>5. QED BY <1>3, <2>4 DEF WInv
<1>5. CASE FinishLoad(l) \/ FailLoad(l)
  <2>1. worker'.loads = worker.loads \ {l} /\ \E ok \in BOOLEAN : Answer(l.id, ok, None)
    BY <1>5, LoadEnds
  <2>2. PICK t : t.id = l.id /\ Replied' = Replied \cup {t}
    BY <2>1, Answers
  <2>3. AllHeld'
    BY <1>2, <1>3, <2>1, <2>2, StaysHeld DEF WInv
  <2>4. QED BY <1>3, <2>3 DEF WInv
<1>6. QED BY <1>1, <1>4, <1>5

(* The page's steps.                                                       *)
LEMMA PageWaits ==
  ASSUME Shape, WInv,
         \/ PageCommand
         \/ \E m \in Mounts, d \in Discs : OpenDisc(m, d)
  PROVE  WInv'
<1>1. CASE PageCommand
  <2>1. /\ UNCHANGED <<toHost, worker>>
        /\ \A m \in Mounts : \/ mounts'[m].at = mounts[m].at
                             \/ {mounts[m].at, mounts'[m].at} \subseteq {"starting", "done"}
        /\ \/ UNCHANGED <<adapter, toWorker>>
           \/ \E r : /\ adapter'.pending = adapter.pending \cup {r}
                     /\ toWorker' = Append(toWorker, r)
    BY <1>1, PageCommands
  <2>2. Replied' = Replied /\ adapter.pending \subseteq adapter'.pending
    BY <2>1 DEF Replied
  <2>3. MountsAsk'
    BY <2>1, <2>2 DEF WInv, MountsAsk, Loading
  <2>4. AllHeld'
    <3>1. CASE UNCHANGED <<adapter, toWorker>>
      BY <2>1, <2>2, <3>1 DEF WInv, AllHeld, Held, Queued
    <3>2. CASE \E r : /\ adapter'.pending = adapter.pending \cup {r}
                      /\ toWorker' = Append(toWorker, r)
      BY <2>1, <2>2, <3>2, PostHeld DEF WInv
    <3>3. QED BY <2>1, <3>1, <3>2
  <2>5. FramesAsk'
    <3>1. CASE PollFrame
      <4>1. PICK a, r : /\ a = [adapter EXCEPT !.framePending = TRUE]
                        /\ r = [id |-> a.nextId, type |-> "runFrame", mount |-> 0, disc |-> None]
        OBVIOUS
      <4>2. adapter' = [a EXCEPT !.pending = @ \cup {r}, !.nextId = @ + 1] /\ r.type = "runFrame"
        BY <3>1, <4>1 DEF PollFrame, Send
      <4>3. a \in AdapterType
        BY <4>1 DEF Shape, AdapterType
      <4>4. r \in adapter'.pending
        BY <4>2, <4>3 DEF AdapterType
      <4>5. QED BY <4>2, <4>4 DEF FramesAsk
    <3>2. CASE (\E m \in Mounts : StartAfterMount(m)) \/ ClickRun \/ ClickReset
      <4>1. \/ UNCHANGED adapter
            \/ \E r : adapter' = [adapter EXCEPT !.pending = @ \cup {r}, !.nextId = @ + 1]
        BY <3>2 DEF StartAfterMount, ClickRun, ClickReset, Command, Send
      <4>2. adapter'.framePending = adapter.framePending
        BY <4>1 DEF Shape, AdapterType
      <4>3. QED BY <2>2, <4>2 DEF WInv, FramesAsk
    <3>3. QED BY <1>1, <3>1, <3>2 DEF PageCommand
  <2>6. QED BY <2>3, <2>4, <2>5 DEF WInv
<1>2. ASSUME NEW m \in Mounts, NEW d \in Discs, OpenDisc(m, d) PROVE WInv'
  <2>1. /\ UNCHANGED <<adapter, toWorker, toHost, worker>> /\ mounts \in [Mounts -> MountType]
        /\ mounts' = [mounts EXCEPT ![m] = [disc |-> d, at |-> "probing"]]
    BY <1>2 DEF OpenDisc, Shape
  <2>2. mounts'[m].at = "probing" /\ \A k \in Mounts : k # m => mounts'[k] = mounts[k]
    BY <2>1
  <2>3. MountsAsk'
    BY <2>1, <2>2 DEF WInv, MountsAsk, Loading
  <2>4. QED BY <2>1, <2>3 DEF WInv, FramesAsk, AllHeld, Held, Queued, Replied
<1>3. QED BY <1>1, <1>2

(* LoadThenMount posts the request its mount waits for.                    *)
LEMMA AskWaits ==
  ASSUME Shape, WInv, UNCHANGED worker,
         NEW a \in AdapterType, NEW m \in Mounts, NEW d, LoadThenMount(a, m, d),
         a.pending \subseteq adapter.pending, a.framePending = adapter.framePending,
         \A p \in adapter.pending : p \in a.pending \/ (Opens(p) /\ p.mount = m),
         \A t \in Replied : t \in Replied' \/ \A p \in a.pending : p.id # t.id,
         \A t \in Replied : t.id # a.nextId
  PROVE  WInv'
<1>1. PICK r : AsksFor(a, m, d, r)
  BY Asks
<1>2. /\ Opens(r) /\ r.mount = m /\ mounts \in [Mounts -> MountType] /\ r.id = a.nextId
      /\ adapter'.pending = a.pending \cup {r} /\ toWorker' = Append(toWorker, r)
      /\ r.type \in {"load", "mountFile"}
  BY <1>1 DEF AsksFor, Shape, Opens
<1>3. PICK at \in AwaitedAt(r) : mounts' = [mounts EXCEPT ![m].at = at]
  BY <1>1 DEF AsksFor
<1>4. MountsAsk'
  <2>1. mounts'[m].at = at /\ \A k \in Mounts : k # m => mounts'[k] = mounts[k]
    BY <1>2, <1>3 DEF MountType
  <2>2. r.type = IF at = "mounting" THEN "mountFile" ELSE "load"
    BY <1>2, <1>3 DEF AwaitedAt, Loading
  <2>3. QED BY <1>2, <2>1, <2>2 DEF WInv, MountsAsk
<1>5. adapter'.framePending = a.framePending
  BY DEF LoadThenMount, Send, AdapterType
<1>6. FramesAsk'
  BY <1>2, <1>5 DEF WInv, FramesAsk, Opens
<1>7. AllHeld'
  BY <1>2, PostHeld DEF WInv
<1>8. QED BY <1>4, <1>6, <1>7 DEF WInv

(* The disc was checked: the mount waits for the request it posts.         *)
LEMMA ProbedWaits ==
  ASSUME Shape, Numbered, WInv, NEW m \in Mounts, Probed(m)
  PROVE  WInv'
<1>1. PICK a, d : a = adapter /\ d = mounts[m].disc
  OBVIOUS
<1>2. /\ a \in AdapterType /\ LoadThenMount(a, m, d) /\ UNCHANGED <<toHost, worker>>
      /\ a.pending = adapter.pending /\ a.nextId = adapter.nextId
      /\ a.framePending = adapter.framePending
  BY <1>1 DEF Probed, Shape
<1>3. Replied' = Replied /\ \A t \in Replied : t.id # a.nextId
  BY <1>2, Queues DEF Replied, Numbered
<1>4. QED BY <1>2, <1>3, AskWaits

(* The browser refuses the canvas: an orphan that nobody waits for.        *)
LEMMA RefuseCanvasWaits ==
  ASSUME Shape, WInv, NEW m \in Mounts, RefuseCanvas(m)
  PROVE  WInv'
<1>1. /\ adapter \in AdapterType /\ mounts \in [Mounts -> MountType]
      /\ UNCHANGED <<toWorker, toHost, worker>>
  BY DEF RefuseCanvas, Shape
<1>2. PICK o : o = OrphanLoad(1)
  OBVIOUS
<1>3. /\ IsOrphan(o) /\ adapter'.pending = adapter.pending \cup {o}
      /\ adapter'.framePending = adapter.framePending
  BY <1>1, <1>2, Entries DEF RefuseCanvas, AdapterType
<1>4. PICK at \in {"retrying", "starting"} : mounts' = [mounts EXCEPT ![m].at = at]
  BY DEF RefuseCanvas, LoadRejected
<1>5. mounts'[m].at = at /\ \A k \in Mounts : k # m => mounts'[k] = mounts[k]
  BY <1>1, <1>4 DEF MountType
<1>6. MountsAsk' /\ FramesAsk'
  BY <1>3, <1>5 DEF WInv, MountsAsk, FramesAsk, Loading
<1>7. AllHeld'
  BY <1>1, <1>3 DEF WInv, AllHeld, Held, Queued, Replied
<1>8. QED BY <1>6, <1>7 DEF WInv

(* The load is sent again: the mount waits for that one.                   *)
LEMMA LoadAgainWaits ==
  ASSUME Shape, WInv, NEW m \in Mounts, LoadAgain(m)
  PROVE  WInv'
<1>1. /\ adapter \in AdapterType /\ mounts \in [Mounts -> MountType]
      /\ UNCHANGED <<toHost, worker>>
      /\ mounts' = [mounts EXCEPT ![m].at = "reloading"]
  BY DEF LoadAgain, Shape
<1>2. PICK r : r = [id |-> adapter.nextId, type |-> "load", mount |-> m, disc |-> None]
  OBVIOUS
<1>3. /\ r.type = "load" /\ r.mount = m /\ toWorker' = Append(toWorker, r)
      /\ adapter' = [adapter EXCEPT !.pending = @ \cup {r}, !.nextId = @ + 1]
  BY <1>2 DEF LoadAgain, Send
<1>4. /\ adapter'.pending = adapter.pending \cup {r}
      /\ adapter'.framePending = adapter.framePending
  BY <1>1, <1>3 DEF AdapterType
<1>5. mounts'[m].at = "reloading" /\ \A k \in Mounts : k # m => mounts'[k] = mounts[k]
  BY <1>1 DEF MountType
<1>6. MountsAsk' /\ FramesAsk'
  BY <1>3, <1>4, <1>5 DEF WInv, MountsAsk, FramesAsk
<1>7. AllHeld'
  <2>1. Replied' = Replied
    BY <1>1 DEF Replied
  <2>2. QED BY <1>1, <1>3, <1>4, <2>1, PostHeld DEF WInv
<1>8. QED BY <1>6, <1>7 DEF WInv

(* A reply settles the request of its id, and the mount goes on.           *)
LEMMA DeliverWaits ==
  ASSUME IInv, DInv, WInv, Deliver
  PROVE  WInv'
<1>1. /\ Shape /\ Numbered /\ Awaited /\ UNCHANGED worker /\ mounts \in [Mounts -> MountType]
      /\ toHost # <<>> /\ toHost' = Tail(toHost)
  BY DEF Deliver, IInv, DInv, Shape
<1>2. \A t \in Replied : t = Head(toHost) \/ t \in Replied'
  BY <1>1, DeliversOne
<1>3. CASE \A r \in adapter.pending : r.id # Head(toHost).id
  <2>1. UNCHANGED <<mounts, adapter, toWorker>>
    BY <1>3 DEF Deliver
  <2>2. MountsAsk' /\ FramesAsk' /\ Queued' = Queued
    BY <2>1 DEF WInv, MountsAsk, FramesAsk, Queued
  <2>3. AllHeld'
    BY <1>1, <1>2, <1>3, <2>1, <2>2, StaysHeld DEF WInv
  <2>4. QED BY <2>2, <2>3 DEF WInv
<1>4. ASSUME NEW r \in adapter.pending, r.id = Head(toHost).id,
             Settle([adapter EXCEPT !.pending = @ \ {r}], r, Head(toHost))
      PROVE  WInv'
  <2>1. PICK a : a = [adapter EXCEPT !.pending = @ \ {r}]
    OBVIOUS
  <2>2. /\ a \in AdapterType /\ a.pending = adapter.pending \ {r}
        /\ a.nextId = adapter.nextId /\ a.framePending = adapter.framePending
    BY <1>1, <2>1 DEF Shape, AdapterType
  <2>3. /\ Settle(a, r, Head(toHost)) /\ Head(toHost) \in Rep
    BY <1>1, <1>4, <2>1 DEF Shape
  <2>4. \A p \in a.pending : p.id # Head(toHost).id
    BY <1>1, <1>4, <2>2 DEF Numbered
  <2>5. Opens(r) => r.mount \in Mounts /\ \A p \in a.pending : Opens(p) => p.mount # r.mount
    BY <1>1, <2>2, OpeningMounts DEF Awaited
  <2>5a. Opens(r) <=> r.type \in {"load", "mountFile"}
    <3>1. Head(toHost) \in Replied
      BY <1>1, Delivers
    <3>2. QED BY <1>4, <3>1 DEF IInv, Alone, Opens
  <2>6. ASSUME UNCHANGED toWorker, adapter'.pending = a.pending PROVE AllHeld'
    <3>1. Queued' = Queued
      BY <2>6 DEF Queued
    <3>2. QED BY <1>1, <1>2, <2>2, <2>4, <2>6, <3>1, StaysHeld DEF WInv
  <2>7. CASE r.type = "load" /\ Head(toHost).ok
    <3>1. PICK b : b = [a EXCEPT !.loaded = TRUE]
      OBVIOUS
    <3>2. /\ b \in AdapterType /\ b.pending = a.pending /\ b.nextId = adapter.nextId
          /\ b.framePending = adapter.framePending
      BY <2>2, <3>1 DEF AdapterType
    <3>3. PICK m \in Mounts, d \in {mounts[r.mount].disc} : m = r.mount
      BY <2>5a, <2>5, <2>7
    <3>4. LoadThenMount(b, m, d)
      BY <2>3, <2>7, <3>1, <3>3 DEF Settle
    <3>5. \A p \in adapter.pending : p \in b.pending \/ (Opens(p) /\ p.mount = m)
      BY <2>5a, <2>2, <2>7, <3>2, <3>3
    <3>6. \A t \in Replied : t \in Replied' \/ \A p \in b.pending : p.id # t.id
      BY <1>2, <2>4, <3>2
    <3>7. \A t \in Replied : t.id # b.nextId
      BY <1>1, <3>2, Queues DEF Numbered
    <3>8. QED BY <1>1, <2>2, <3>2, <3>4, <3>5, <3>6, <3>7, AskWaits
  <2>8. CASE Opens(r) /\ ~(r.type = "load" /\ Head(toHost).ok)
    <3>1. /\ \E at \in {"starting", "retrying"} : mounts' = [mounts EXCEPT ![r.mount].at = at]
          /\ adapter' = a /\ UNCHANGED toWorker
      BY <2>5a, <2>3, <2>8 DEF Settle, LoadRejected, Rep
    <3>2. /\ mounts'[r.mount].at \in {"starting", "retrying"}
          /\ \A m \in Mounts : m # r.mount => mounts'[m] = mounts[m]
      BY <1>1, <2>5, <2>8, <3>1 DEF MountType
    <3>3. MountsAsk'
      BY <2>2, <2>5, <2>8, <3>1, <3>2 DEF WInv, MountsAsk, Loading
    <3>4. FramesAsk'
      BY <2>2, <2>8, <3>1 DEF WInv, FramesAsk, Opens
    <3>5. QED BY <2>6, <3>1, <3>3, <3>4 DEF WInv
  <2>9. CASE ~Opens(r)
    <3>1. /\ adapter' = [a EXCEPT !.framePending = @ /\ r.type # "runFrame"]
          /\ UNCHANGED <<mounts, toWorker>>
      BY <2>5a, <2>3, <2>9 DEF Settle
    <3>2. adapter'.pending = a.pending /\ adapter'.framePending = (a.framePending /\ r.type # "runFrame")
      BY <2>2, <3>1 DEF AdapterType
    <3>3. MountsAsk'
      BY <2>5a, <2>2, <2>9, <3>1, <3>2 DEF WInv, MountsAsk
    <3>4. FramesAsk'
      BY <2>2, <3>2 DEF WInv, FramesAsk
    <3>5. QED BY <2>6, <3>1, <3>2, <3>3, <3>4 DEF WInv
  <2>10. QED BY <2>7, <2>8, <2>9
<1>5. QED BY <1>3, <1>4 DEF Deliver

(* An error event ends every wait.                                         *)
LEMMA WorkerErrorWaits ==
  ASSUME Shape, WorkerError
  PROVE  WInv'
<1>1. /\ adapter' = [adapter EXCEPT !.pending = {}, !.framePending = FALSE]
      /\ \E again \in BOOLEAN : \A m \in Mounts : Rejected(again, m)
  BY Rejections
<1>2. adapter'.pending = {} /\ ~adapter'.framePending
  BY <1>1 DEF Shape, AdapterType
<1>3. \A m \in Mounts : mounts'[m].at \notin Loading \cup {"mounting"}
  BY <1>1 DEF Shape, MountType, Rejected, Loading
<1>4. QED BY <1>2, <1>3 DEF WInv, MountsAsk, FramesAsk, AllHeld

(* Every step leaves nobody behind.                                        *)
LEMMA NextWaits == IInv /\ DInv /\ WInv /\ [Next]_vars => WInv'
<1> SUFFICES ASSUME IInv, DInv, WInv, [Next]_vars PROVE WInv'
  OBVIOUS
<1>1. Shape /\ Numbered
  BY DEF IInv, DInv
<1>2. CASE UNCHANGED <<mounts, adapter, toWorker, toHost, worker>>
  BY <1>2 DEF WInv, MountsAsk, FramesAsk, AllHeld, Held, Queued, Replied
<1>3. CASE PageStep \/ ClickRun \/ ClickReset \/ PollFrame
  BY <1>1, <1>3, ProbedWaits, RefuseCanvasWaits, LoadAgainWaits, PageWaits DEF PageStep, PageCommand
<1>4. CASE Serve \/ LoadStep
  BY <1>1, <1>4, ServeWaits, LoadWaits
<1>5. CASE Deliver \/ WorkerError
  BY <1>1, <1>5, DeliverWaits, WorkerErrorWaits
<1>6. CASE \E m \in Mounts, d \in Discs : OpenDisc(m, d)
  BY <1>1, <1>6, PageWaits
<1>7. CASE (\E c \in 1 .. Len(cores) : Emulate(c)) \/ UNCHANGED vars
  BY <1>2, <1>7 DEF Emulate, vars
<1>8. QED BY <1>3, <1>4, <1>5, <1>6, <1>7 DEF Next

(* No request that a mount or a frame waits for is lost between the page,  *)
(* the messages and loadCore, whatever fails, is refused or is rejected;   *)
(* the one that stays in the table for ever is a load whose message the    *)
(* browser refused to post, and nobody waits for that one any more.  So    *)
(* with messages served and loads ended every wait can end.                *)
THEOREM NobodyWaitsForNothing == Spec => []EveryWaitIsServed
<1>1. WInv => EveryWaitIsServed
  BY DEF WInv, MountsAsk, FramesAsk, AllHeld, Held, Queued, Replied, EveryWaitIsServed
<1>2. Init => IInv /\ DInv /\ WInv
  BY InitInv, InitShows DEF Init, WInv, MountsAsk, FramesAsk, AllHeld, Loading
<1>3. IInv /\ DInv /\ WInv /\ [Next]_vars => (IInv /\ DInv /\ WInv)'
  BY NextInv, NextShows, NextWaits
<1>4. QED BY <1>1, <1>2, <1>3, PTL DEF Spec
=============================================================================

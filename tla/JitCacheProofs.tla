--------------------------- MODULE JitCacheProofs ---------------------------
(***************************************************************************)
(* That JitCache never takes the rows of one build for those of another,   *)
(* that its state has its type, that a fence which reports completion was  *)
(* passed by every pthread it was published to, and that a cache reported  *)
(* ready has been delivered to every running pthread; for any number of    *)
(* blocks, builds, pthreads, sessions and any caps.                        *)
(***************************************************************************)
EXTENDS JitCache, FiniteSetTheorems, TLAPS

-----------------------------------------------------------------------------
(* The inductive invariant.  A load is past its reconciliation once it has *)
(* stamped the store.                                                      *)
Past == Pcs \ {"idle", "fetching", "clear", "stamp"}
SomePast == \E l \in Loads : load[l].pc \in Past

LoadType == [pc : Pcs, rows : SUBSET Keys, todo : SUBSET Parts,
             pool : SUBSET Thread, fenced : BOOLEAN]
TypeInv ==
  /\ build \in Builds
  /\ store \in [Keys -> Builds \cup {None}]
  /\ stamp \in [fingerprint : Builds \cup {None}, schema : BOOLEAN]
  /\ unclean \in BOOLEAN
  /\ prebuilt \in Files
  /\ setup \in Setups
  /\ load \in [Loads -> LoadType]

(* Nothing is sent, and no row is about to be written, before some load is *)
(* past that point.                                                        *)
Untouched ==
  /\ thread = [t \in Thread |-> NewThread]
  /\ verifying = {} /\ writing = {} /\ putting = {}
QuietInv == SomePast \/ Untouched

(* From the check or the clearing on, all rows are of this build; and the  *)
(* stamp says so, except between the clearing and the stamping.            *)
RowsOfBuild == \A k \in Keys : store[k] \in {build, None}
NoRow == \A k \in Keys : store[k] = None

LoadInv(l) ==
  /\ load[l].pc = "clear" => load[l].todo = Parts
  /\ load[l].pc = "stamp" =>
       /\ NoRow \/ (Matches /\ RowsOfBuild)
       /\ "fingerprint" \notin load[l].todo => stamp.fingerprint = build
       /\ "schema" \notin load[l].todo => stamp.schema
  /\ load[l].pc \in Past => Matches /\ RowsOfBuild

DiskInv == ~unclean => \A l \in Loads : LoadInv(l)

IInv == TypeInv /\ QuietInv /\ DiskInv /\ StampedStoreIsCurrent

-----------------------------------------------------------------------------
(* It holds of a fresh profile and of whatever another build has left.     *)
LEMMA InitInv == Init => IInv
<1> SUFFICES ASSUME Init PROVE IInv
  OBVIOUS
<1>1. build \in Builds
  BY JitCacheAssumption DEF Init
<1>2. PICK b \in Builds \cup {None} :
        /\ stamp = [fingerprint |-> b, schema |-> b # None]
        /\ store \in [Keys -> {None, b}]
  BY DEF Init
<1>3. TypeInv
  BY <1>1, <1>2 DEF Init, TypeInv, LoadType, NewLoad, Pcs
<1>4. QuietInv /\ DiskInv
  BY DEF Init, QuietInv, Untouched, DiskInv, LoadInv, NewLoad, Past
<1>5. StampedStoreIsCurrent
  BY <1>2 DEF StampedStoreIsCurrent, Stored
<1>6. QED BY <1>3, <1>4, <1>5 DEF IInv

(* What a step must not do to a load for the invariant to survive a step   *)
(* that leaves the store, the stamp and the build alone.                   *)
LoadsGoOn ==
  \A l \in Loads :
    \/ load'[l] = load[l]
    \/ load[l].pc = "idle" /\ load'[l].pc = "fetching"
    \/ load[l].pc \in Past /\ load'[l].pc \in Past

(* Then all that is said of loads and the store still holds.               *)
LEMMA DiskUntouched ==
  ASSUME IInv, LoadsGoOn, UNCHANGED <<build, disk>>
  PROVE  DiskInv' /\ StampedStoreIsCurrent'
<1>1. ~unclean => \A l \in Loads : LoadInv(l)
  BY DEF IInv, DiskInv
<1>2. ASSUME NEW l \in Loads, LoadInv(l) PROVE LoadInv(l)'
  BY <1>2 DEF LoadsGoOn, LoadInv, Past, disk, Matches, RowsOfBuild, NoRow
<1>3. DiskInv'
  BY <1>1, <1>2 DEF DiskInv, disk
<1>4. StampedStoreIsCurrent'
  BY DEF IInv, StampedStoreIsCurrent, Stored, disk
<1>5. QED BY <1>3, <1>4

(* Such a step takes no load back.                                         *)
LEMMA PastStays ==
  ASSUME LoadsGoOn, SomePast
  PROVE  SomePast'
<1>1. PICK l \in Loads : load[l].pc \in Past
  BY DEF SomePast
<1>2. load'[l].pc \in Past
  BY <1>1 DEF LoadsGoOn, Past, Pcs
<1>3. QED BY <1>2 DEF SomePast, Past

(* A step that leaves the store alone, and sends nothing before some load  *)
(* is past that point.                                                     *)
LEMMA PlainStep ==
  ASSUME IInv, LoadsGoOn, UNCHANGED <<given, disk>>,
         load' \in [Loads -> LoadType], SomePast \/ Untouched'
  PROVE  IInv'
<1>1. TypeInv'
  BY DEF IInv, TypeInv, given, disk
<1>2. QuietInv'
  BY PastStays DEF QuietInv
<1>3. DiskInv' /\ StampedStoreIsCurrent'
  BY DiskUntouched DEF given
<1>4. QED BY <1>1, <1>2, <1>3 DEF IInv

(* ... by one load that is past that point.                                *)
LEMMA PastStep ==
  ASSUME IInv, NEW l \in Loads, load[l].pc \in Past,
         NEW changed \in LoadType, changed.pc \in Past, load' = [load EXCEPT ![l] = changed],
         UNCHANGED <<given, disk>>
  PROVE  IInv'
<1>1. LoadsGoOn
  BY DEF LoadsGoOn, IInv, TypeInv
<1>2. load' \in [Loads -> LoadType] /\ SomePast
  BY DEF IInv, TypeInv, SomePast
<1>3. QED BY <1>1, <1>2, PlainStep

(* ... or by something else, when some load is past that point.            *)
LEMMA OtherStep ==
  ASSUME IInv, UNCHANGED <<given, disk, load>>, SomePast \/ Untouched'
  PROVE  IInv'
<1>1. LoadsGoOn /\ load' \in [Loads -> LoadType]
  BY DEF LoadsGoOn, IInv, TypeInv
<1>2. QED BY <1>1, PlainStep

-----------------------------------------------------------------------------
(* The check of the stamp: all rows are of this build if it matches.       *)
LEMMA ReconcileInv ==
  ASSUME IInv, NEW l \in Loads, Reconcile(l)
  PROVE  IInv'
<1>1. UNCHANGED <<given, disk, thread, async>> /\ load[l].pc = "fetching"
  BY DEF Reconcile, pthreads, At
<1> DEFINE next == IF Matches THEN "stamp" ELSE "clear"
<1>2. /\ load' = [load EXCEPT ![l] = [load[l] EXCEPT !.pc = next, !.todo = Parts]]
      /\ load \in [Loads -> LoadType]
  BY DEF Reconcile, IInv, TypeInv
<1> next \in {"stamp", "clear"}
  OBVIOUS
<1> HIDE DEF next
<1>3. TypeInv'
  <2>1. [load[l] EXCEPT !.pc = next, !.todo = Parts] \in LoadType
    BY <1>2 DEF LoadType, Pcs
  <2>2. load' \in [Loads -> LoadType]
    BY <1>2, <2>1
  <2>3. QED BY <1>1, <2>2 DEF IInv, TypeInv, given, disk
<1>4. QuietInv'
  <2>1. CASE SomePast
    BY <1>1, <1>2, <2>1 DEF SomePast, QuietInv, Past
  <2>2. CASE Untouched
    BY <1>1, <2>2 DEF Untouched, QuietInv, async
  <2>3. QED BY <2>1, <2>2 DEF IInv, QuietInv
<1>5. ASSUME ~unclean, NEW m \in Loads PROVE LoadInv(m)'
  <2>1. CASE m = l
    <3>1. Matches => RowsOfBuild
      BY <1>5, JitCacheAssumption
      DEF Matches, RowsOfBuild, IInv, TypeInv, StampedStoreIsCurrent, Stored
    <3>2. load'[l].pc \in {"stamp", "clear"} /\ load'[l].todo = Parts
      BY <1>2 DEF LoadType
    <3>3. load'[l].pc = "stamp" => Matches /\ RowsOfBuild
      BY <1>2, <3>1 DEF LoadType, next
    <3>4. QED
      BY <2>1, <3>2, <3>3, <1>1
      DEF LoadInv, Past, Parts, Matches, RowsOfBuild, NoRow, given, disk
  <2>2. CASE m # l
    BY <1>1, <1>2, <1>5, <2>2
    DEF IInv, DiskInv, LoadInv, Matches, RowsOfBuild, NoRow, given, disk
  <2>3. QED BY <2>1, <2>2
<1>6. DiskInv' /\ StampedStoreIsCurrent'
  BY <1>1, <1>5 DEF DiskInv, disk, IInv, StampedStoreIsCurrent, Stored
<1>7. QED BY <1>3, <1>4, <1>6 DEF IInv

(* Clearing what is not of this build leaves no row, or has failed.        *)
LEMMA ClearInv ==
  ASSUME IInv, NEW l \in Loads, Clear(l)
  PROVE  IInv'
<1>1. UNCHANGED <<given, stamp, thread, async>> /\ load[l].pc = "clear"
  BY DEF Clear, pthreads, At
<1>2. /\ load' = [load EXCEPT ![l] = [load[l] EXCEPT !.pc = "stamp"]]
      /\ load \in [Loads -> LoadType]
  BY DEF Clear, Goes, IInv, TypeInv
<1>3. \/ store' = NoRows /\ unclean' = unclean
      \/ store' = store /\ unclean' = TRUE
  BY DEF Clear
<1>4. TypeInv'
  <2>1. load' \in [Loads -> LoadType]
    BY <1>2 DEF LoadType, Pcs
  <2>2. store' \in [Keys -> Builds \cup {None}] /\ unclean' \in BOOLEAN
    BY <1>3 DEF IInv, TypeInv, NoRows
  <2>3. QED BY <1>1, <2>1, <2>2 DEF IInv, TypeInv, given
<1>5. QuietInv'
  <2>1. CASE SomePast
    BY <1>1, <1>2, <2>1 DEF SomePast, QuietInv, Past
  <2>2. CASE Untouched
    BY <1>1, <2>2 DEF Untouched, QuietInv, async
  <2>3. QED BY <2>1, <2>2 DEF IInv, QuietInv
<1>6. CASE unclean'
  BY <1>4, <1>5, <1>6 DEF IInv, DiskInv, StampedStoreIsCurrent
<1>7. CASE ~unclean' /\ ~unclean /\ store' = NoRows
  <2>1. NoRow' /\ RowsOfBuild'
    BY <1>7 DEF NoRow, RowsOfBuild, NoRows
  <2>2. ASSUME NEW m \in Loads PROVE LoadInv(m)'
    <3>1. CASE m = l
      <4>1. load[l].todo = Parts
        BY <1>1, <1>7 DEF IInv, DiskInv, LoadInv
      <4>2. load'[l].pc = "stamp" /\ load'[l].todo = Parts
        BY <1>2, <4>1 DEF LoadType
      <4>3. QED BY <2>1, <3>1, <4>2 DEF LoadInv, Past, Parts
    <3>2. CASE m # l
      BY <1>1, <1>2, <1>7, <2>1, <3>2 DEF IInv, DiskInv, LoadInv, Matches, given
    <3>3. QED BY <3>1, <3>2
  <2>3. StampedStoreIsCurrent'
    BY <2>1 DEF StampedStoreIsCurrent, Stored, NoRow
  <2>4. QED BY <1>4, <1>5, <2>2, <2>3 DEF IInv, DiskInv
<1>8. QED
  BY <1>3, <1>6, <1>7 DEF IInv, TypeInv

(* A part of the stamp is written over an empty store, or is right already.*)
LEMMA StampInv ==
  ASSUME IInv, NEW l \in Loads, NEW part \in Parts, Stamp(l, part)
  PROVE  IInv'
<1> DEFINE rest == load[l].todo \ {part}
           next == IF load[l].pc = "stamp" THEN "rows" ELSE "rerows"
           pc == IF rest = {} THEN next ELSE load[l].pc
<1>1. /\ UNCHANGED <<given, store, thread, async>>
      /\ load[l].pc \in {"stamp", "restamp"}
  BY DEF Stamp, pthreads, At
<1>2. load \in [Loads -> LoadType]
  BY DEF IInv, TypeInv
<1>3. load' = [load EXCEPT ![l] = [load[l] EXCEPT !.todo = rest, !.pc = pc]]
  BY <1>1, <1>2 DEF Stamp, At, LoadType
<1>4. \/ /\ stamp' = [stamp EXCEPT ![part] = IF part = "schema" THEN TRUE ELSE build]
         /\ unclean' = unclean
      \/ stamp' = stamp /\ unclean' = TRUE
  BY DEF Stamp
<1>5. pc \in {"stamp", "restamp", "rows", "rerows"}
  BY <1>1
<1>6. load'[l].pc = pc /\ load'[l].todo = rest
  BY <1>2, <1>3 DEF LoadType
<1>7. TypeInv'
  <2>1. load[l] \in LoadType /\ rest \in SUBSET Parts /\ pc \in Pcs
    BY <1>2, <1>5 DEF LoadType, Pcs
  <2>2. [load[l] EXCEPT !.todo = rest, !.pc = pc] \in LoadType
    <3> HIDE DEF rest, pc
    <3>1. QED BY <2>1 DEF LoadType
  <2>3. load' \in [Loads -> LoadType]
    BY <1>2, <1>3, <2>2
  <2>4. /\ stamp' \in [fingerprint : Builds \cup {None}, schema : BOOLEAN]
        /\ unclean' \in BOOLEAN
    BY <1>4 DEF IInv, TypeInv, Parts
  <2>5. QED BY <1>1, <2>3, <2>4 DEF IInv, TypeInv, given
<1>8. QuietInv'
  <2>1. CASE SomePast
    <3>1. PICK m \in Loads : load[m].pc \in Past
      BY <2>1 DEF SomePast
    <3>2. load'[m].pc \in Past
      <4>1. CASE m = l
        BY <1>1, <1>5, <1>6, <3>1, <4>1 DEF Past, Pcs
      <4>2. CASE m # l
        BY <1>2, <1>3, <3>1, <4>2
      <4>3. QED BY <4>1, <4>2
    <3>3. QED BY <3>2 DEF QuietInv, SomePast, Past
  <2>2. CASE Untouched
    BY <1>1, <2>2 DEF Untouched, QuietInv, async
  <2>3. QED BY <2>1, <2>2 DEF IInv, QuietInv
<1>9. CASE unclean'
  BY <1>7, <1>8, <1>9 DEF IInv, DiskInv, StampedStoreIsCurrent
<1>10. CASE ~unclean' /\ ~unclean /\ stamp' = [stamp EXCEPT ![part] = IF part = "schema" THEN TRUE ELSE build]
  <2>1. /\ part = "fingerprint" => stamp'.fingerprint = build /\ stamp'.schema = stamp.schema
        /\ part = "schema" => stamp'.fingerprint = stamp.fingerprint /\ stamp'.schema = TRUE
        /\ part \in {"fingerprint", "schema"}
    BY <1>10 DEF IInv, TypeInv, Parts
  <2>2. /\ Matches => Matches'
        /\ NoRow' = NoRow /\ RowsOfBuild' = RowsOfBuild /\ build' = build
        /\ stamp.fingerprint = build => stamp'.fingerprint = build
        /\ stamp.schema => stamp'.schema
    BY <1>1, <2>1 DEF Matches, NoRow, RowsOfBuild, given
  <2>3. \A m \in Loads : LoadInv(m)
    BY <1>10 DEF IInv, DiskInv
  <2>4. NoRow => RowsOfBuild
    BY DEF NoRow, RowsOfBuild
  <2>5. NoRow \/ (Matches /\ RowsOfBuild)
    BY <1>1, <2>3 DEF LoadInv, Past, Pcs
  <2>6. ASSUME NEW m \in Loads PROVE LoadInv(m)'
    <3>1. CASE m # l
      <4>1. load'[m] = load[m]
        BY <1>2, <1>3, <3>1
      <4>2. QED BY <2>2, <2>3, <4>1 DEF LoadInv, Past
    <3>2. CASE m = l /\ load[l].pc = "restamp"
      <4>1. Matches /\ RowsOfBuild
        BY <2>3, <3>2 DEF LoadInv, Past, Pcs
      <4>2. pc \in {"restamp", "rerows"}
        BY <3>2
      <4>3. QED BY <1>6, <2>2, <3>2, <4>1, <4>2 DEF LoadInv, Past
    <3>3. CASE m = l /\ load[l].pc = "stamp"
      <4>1. /\ "fingerprint" \notin rest => stamp'.fingerprint = build
            /\ "schema" \notin rest => stamp'.schema
        BY <2>1, <2>2, <2>3, <3>3 DEF LoadInv
      <4>2. CASE pc = "stamp"
        BY <1>6, <2>2, <2>5, <3>3, <4>1, <4>2 DEF LoadInv, Past
      <4>3. CASE pc = "rows" /\ rest = {}
        BY <1>6, <2>2, <2>4, <2>5, <3>3, <4>1, <4>3 DEF LoadInv, Past, Matches
      <4>4. QED BY <3>3, <4>2, <4>3
    <3>4. QED BY <1>1, <3>1, <3>2, <3>3
  <2>7. StampedStoreIsCurrent'
    BY <1>1, <2>2, <2>5 DEF StampedStoreIsCurrent, Stored, NoRow, RowsOfBuild, Matches
  <2>8. QED BY <1>7, <1>8, <2>6, <2>7 DEF IInv, DiskInv
<1>11. QED
  BY <1>4, <1>9, <1>10 DEF IInv, TypeInv

-----------------------------------------------------------------------------
(* Rows are written with this build's name while the stamp has it too.     *)
LEMMA RowsWritten ==
  ASSUME IInv, SomePast, UNCHANGED <<given, stamp, unclean>>,
         NEW l \in Loads, NEW changed \in LoadType, load' = [load EXCEPT ![l] = changed],
         changed = load[l] \/ (load[l].pc \in Past /\ changed.pc \in Past),
         NEW rows \in SUBSET Keys,
         store' = [k \in Keys |-> IF k \in rows THEN build ELSE store[k]]
  PROVE  IInv'
<1>1. LoadsGoOn /\ load' \in [Loads -> LoadType]
  BY DEF LoadsGoOn, IInv, TypeInv
<1>2. TypeInv'
  BY <1>1 DEF IInv, TypeInv, given
<1>3. QuietInv'
  BY <1>1, PastStays DEF QuietInv
<1>4. CASE unclean
  BY <1>2, <1>3, <1>4 DEF IInv, DiskInv, StampedStoreIsCurrent
<1>5. CASE ~unclean
  <2>1. \A m \in Loads : LoadInv(m)
    BY <1>5 DEF IInv, DiskInv
  <2>2. Matches /\ RowsOfBuild
    BY <2>1 DEF SomePast, LoadInv
  <2>3. Matches' /\ RowsOfBuild'
    BY <2>2 DEF Matches, RowsOfBuild, given
  <2>4. ASSUME NEW m \in Loads PROVE LoadInv(m)'
    <3>1. \/ load'[m] = load[m]
          \/ load[m].pc = "idle" /\ load'[m].pc = "fetching"
          \/ load'[m].pc \in Past
      BY <1>1 DEF LoadsGoOn
    <3>2. QED BY <2>1, <2>2, <2>3, <3>1 DEF LoadInv, Matches, Past, given
  <2>5. StampedStoreIsCurrent'
    BY <2>3 DEF StampedStoreIsCurrent, Stored, Matches, RowsOfBuild
  <2>6. QED BY <1>2, <1>3, <2>4, <2>5 DEF IInv, DiskInv
<1>6. QED BY <1>4, <1>5 DEF IInv, TypeInv

(* Both stay as they are when the tab is closed.                           *)
LEMMA CloseTabInv == IInv /\ CloseTab => IInv'
<1> SUFFICES ASSUME IInv, CloseTab PROVE IInv'
  OBVIOUS
<1>1. UNCHANGED <<setup, disk>> /\ build' \in Builds /\ prebuilt' \in Files
  BY DEF CloseTab
<1>2. load' = [m \in Loads |-> NewLoad]
  BY DEF CloseTab
<1>3. TypeInv'
  BY <1>1, <1>2 DEF IInv, TypeInv, disk, LoadType, NewLoad, Pcs
<1>4. QuietInv'
  BY DEF CloseTab, QuietInv, Untouched
<1>5. DiskInv'
  BY <1>2 DEF DiskInv, LoadInv, NewLoad, Past
<1>6. StampedStoreIsCurrent'
  BY <1>1 DEF IInv, StampedStoreIsCurrent, Stored, disk
<1>7. QED BY <1>3, <1>4, <1>5, <1>6 DEF IInv

-----------------------------------------------------------------------------
(* A build's prebuilt file holds blocks only.                              *)
LEMMA FileInKeys == TypeInv => Range(prebuilt) \subseteq Keys
<1> SUFFICES ASSUME TypeInv PROVE Range(prebuilt) \subseteq Keys
  OBVIOUS
<1>1. PICK n \in 0 .. Cardinality(Keys) : prebuilt \in Injection(1 .. n, Keys)
  BY JitCacheAssumption DEF TypeInv
<1>2. prebuilt \in [1 .. n -> Keys]
  BY <1>1 DEF Injection
<1>3. QED BY <1>2 DEF Range

(* A pool of a load's pthreads.                                            *)
LEMMA PoolInThread ==
  ASSUME TypeInv, NEW l \in Loads, NEW size \in 1 .. setup.threads
  PROVE  {l} \X (1 .. size) \subseteq Thread
<1>1. setup.threads \in 1 .. Threads /\ Threads \in Nat
  BY JitCacheAssumption DEF TypeInv
<1>2. 1 .. size \subseteq 1 .. Threads
  BY <1>1
<1>3. QED BY <1>2 DEF Thread

(* Most steps of a load change its place and its rows only.                *)
To(l, pc, rows) == [load[l] EXCEPT !.pc = pc, !.rows = rows]

(* Such a step keeps the invariant.                                        *)
LEMMA ToStep ==
  ASSUME IInv, NEW l \in Loads, load[l].pc \in Past,
         NEW pc \in Past, NEW rows \in SUBSET Keys,
         load' = [load EXCEPT ![l] = To(l, pc, rows)], UNCHANGED <<given, disk>>
  PROVE  IInv'
<1>1. load[l] \in LoadType
  BY DEF IInv, TypeInv
<1>2. To(l, pc, rows) \in LoadType /\ To(l, pc, rows).pc \in Past
  BY <1>1 DEF To, LoadType, Past
<1>3. QED BY <1>2, PastStep

(* What a load does once it is past its reconciliation.                    *)
LEMMA LoadStepInv ==
  ASSUME IInv, NEW l \in Loads, LoadStep(l)
  PROVE  IInv'
<1>1. load \in [Loads -> LoadType] /\ load[l] \in LoadType
  BY DEF IInv, TypeInv
<1>4. load[l].rows \in SUBSET Keys /\ Stored \in SUBSET Keys
  BY <1>1 DEF LoadType, Stored
<1>5. \A pc : Goes(l, pc) => load' = [load EXCEPT ![l] = To(l, pc, load[l].rows)]
  BY <1>1 DEF Goes, To, LoadType
<1>6. CASE ReadRows(l)
  <2>1. PICK lost \in Bad(Stored) :
          load' = [load EXCEPT ![l].rows = Stored \ lost,
                               ![l].pc = IF @ = "rows" THEN "boot" ELSE "reboot"]
    BY <1>6 DEF ReadRows
  <2> DEFINE pc == IF load[l].pc = "rows" THEN "boot" ELSE "reboot"
  <2>2. load' = [load EXCEPT ![l] = To(l, pc, Stored \ lost)]
    BY <1>1, <2>1 DEF To, LoadType
  <2>3. load[l].pc \in Past /\ pc \in Past /\ UNCHANGED <<given, disk>>
    BY <1>6 DEF ReadRows, At, Past, Pcs
  <2> HIDE DEF pc
  <2>4. QED BY ToStep, <1>4, <2>2, <2>3
<1>7. CASE BootBatch(l)
  <2>1. PICK batch \in BatchesOf(load[l].rows) : load' = [load EXCEPT ![l].rows = @ \ batch]
    BY <1>7 DEF BootBatch
  <2>2. load' = [load EXCEPT ![l] = To(l, load[l].pc, load[l].rows \ batch)]
    BY <1>1, <2>1 DEF To, LoadType
  <2>3. load[l].pc \in Past /\ UNCHANGED <<given, disk>>
    BY <1>7 DEF BootBatch, At, Past, Pcs
  <2>4. QED BY ToStep, <1>4, <2>2, <2>3
<1>8. CASE Booted(l)
  <2> DEFINE pc == IF load[l].pc = "boot" THEN "count" ELSE "factory"
  <2>1. load' = [load EXCEPT ![l] = To(l, pc, {})]
    BY <1>1, <1>8 DEF Booted, To, LoadType
  <2>2. load[l].pc \in Past /\ pc \in Past /\ UNCHANGED <<given, disk>>
    BY <1>8 DEF Booted, At, Past, Pcs
  <2> HIDE DEF pc
  <2>3. {} \in SUBSET Keys
    OBVIOUS
  <2>4. QED BY ToStep, <2>1, <2>2, <2>3
<1>9. CASE SkipSeed(l)
  BY <1>4, <1>5, <1>9, ToStep DEF SkipSeed, At, Past, Pcs
<1>10. CASE StartSeed(l)
  <2> DEFINE rest == Range(SubSeq(prebuilt, BootMax + 1, Len(prebuilt)))
  <2>1. load' = [load EXCEPT ![l] = To(l, "seed", Range(prebuilt) \ rest)]
    BY <1>1, <1>10 DEF StartSeed, To, LoadType
  <2> HIDE DEF rest
  <2>2. Range(prebuilt) \ rest \in SUBSET Keys
    BY FileInKeys DEF IInv
  <2>3. load[l].pc \in Past /\ "seed" \in Past /\ UNCHANGED <<given, disk>>
    BY <1>10 DEF StartSeed, At, Past, Pcs
  <2>4. QED BY ToStep, <2>1, <2>2, <2>3
<1>11. CASE Seeded(l)
  <2> DEFINE changed == [load[l] EXCEPT !.pc = "restamp", !.todo = Parts, !.rows = {}]
  <2>1. load' = [load EXCEPT ![l] = changed]
    BY <1>1, <1>11 DEF Seeded, LoadType
  <2>2. /\ changed \in LoadType /\ load[l].pc \in Past /\ changed.pc \in Past
        /\ SomePast
    BY <1>1, <1>11 DEF Seeded, At, LoadType, Past, Pcs, SomePast
  <2>3. /\ UNCHANGED <<given, stamp, unclean>>
        /\ store' = [k \in Keys |-> IF k \in load[l].rows THEN build ELSE store[k]]
    BY <1>11 DEF Seeded
  <2> HIDE DEF changed
  <2>4. QED BY <1>4, <2>1, <2>2, <2>3, RowsWritten
<1>12. CASE SeedFails(l)
  <2>1. load' = [load EXCEPT ![l] = To(l, "factory", {})]
    BY <1>1, <1>12 DEF SeedFails, To, LoadType
  <2>2. load[l].pc \in Past /\ "factory" \in Past /\ UNCHANGED <<given, disk>>
    BY <1>12 DEF SeedFails, At, Past, Pcs
  <2>3. {} \in SUBSET Keys
    OBVIOUS
  <2>4. QED BY ToStep, <2>1, <2>2, <2>3
<1>13. CASE Install(l)
  <2>1. PICK size \in 1 .. setup.threads :
          load' = [load EXCEPT ![l].pool = {l} \X (1 .. size),
                     ![l].pc = IF fill.at = "not-started" THEN "fill" ELSE "wait"]
    BY <1>13 DEF Install
  <2> DEFINE pc == IF fill.at = "not-started" THEN "fill" ELSE "wait"
             pool == {l} \X (1 .. size)
             changed == [load[l] EXCEPT !.pool = pool, !.pc = pc]
  <2>2. load' = [load EXCEPT ![l] = changed]
    BY <1>1, <2>1 DEF To, LoadType
  <2>3. pool \in SUBSET Thread /\ pc \in Past
    BY PoolInThread DEF IInv, Past, Pcs
  <2> HIDE DEF pool, pc
  <2>4. changed \in LoadType /\ changed.pc \in Past
    BY <1>1, <2>3 DEF LoadType, Past
  <2>5. load[l].pc \in Past /\ UNCHANGED <<given, disk>>
    BY <1>13 DEF Install, At, Past, Pcs
  <2> HIDE DEF changed
  <2>6. QED BY <2>2, <2>4, <2>5, PastStep
<1>14. CASE ScanRows(l) \/ FillBatch(l)
  <2>1. UNCHANGED <<given, disk, load>> /\ load[l].pc \in Past
    <3>1. CASE ScanRows(l)
      BY <3>1 DEF ScanRows, At, Past, Pcs
    <3>2. CASE FillBatch(l)
      BY <3>2 DEF FillBatch, At, Past, Pcs
    <3>3. QED BY <1>14, <3>1, <3>2
  <2>2. SomePast
    BY <2>1 DEF SomePast
  <2>3. QED BY <2>1, <2>2, OtherStep
<1>15. CASE ScanFails(l) \/ EndFill(l)
  <2>1. Goes(l, "wait") /\ UNCHANGED <<given, disk>>
    BY <1>15 DEF ScanFails, EndFill, Fence
  <2>2. load[l].pc \in Past /\ "wait" \in Past
    BY <1>15 DEF ScanFails, EndFill, At, Past, Pcs
  <2>3. QED BY <1>4, <1>5, ToStep, <2>1, <2>2
<1>16. CASE Polled(l)
  <2> DEFINE fenced == ~barrier.postFailed
             changed == [load[l] EXCEPT !.pc = "loaded", !.fenced = fenced]
  <2>1. load' = [load EXCEPT ![l] = changed]
    BY <1>1, <1>16 DEF Polled, LoadType
  <2>2. fenced \in BOOLEAN
    OBVIOUS
  <2> HIDE DEF fenced
  <2>3. changed \in LoadType /\ changed.pc \in Past
    BY <1>1, <2>2 DEF LoadType, Past, Pcs
  <2>4. load[l].pc \in Past /\ UNCHANGED <<given, disk>>
    BY <1>16 DEF Polled, At, Past, Pcs
  <2> HIDE DEF changed
  <2>5. QED BY <2>1, <2>3, <2>4, PastStep
<1>17. CASE TimesOut(l)
  BY <1>4, <1>5, <1>17, ToStep DEF TimesOut, At, Past, Pcs
<1>18. QED
  BY <1>6, <1>7, <1>8, <1>9, <1>10, <1>11, <1>12, <1>13, <1>14, <1>15, <1>16, <1>17,
     ReconcileInv, ClearInv, StampInv DEF LoadStep

(* New blocks, rows to write and what pthreads say: there are none before  *)
(* a load is past its reconciliation.                                      *)
LEMMA BlockStepInv ==
  ASSUME IInv, NEW k \in Keys, BlockStep(k)
  PROVE  IInv'
<1>1. SomePast \/ Untouched
  BY DEF IInv, QuietInv
<1>2. CASE Verified(k)
  <2>1. UNCHANGED <<given, disk, load>> /\ verifying # {}
    BY <1>2 DEF Verified
  <2>2. QED BY <1>1, <2>1, OtherStep DEF Untouched
<1>3. CASE Compiled(k)
  <2>1. UNCHANGED <<given, disk, load>>
    BY <1>3 DEF Compiled
  <2>2. UNCHANGED <<thread, verifying, writing, putting>>
    BY <1>3 DEF Compiled, pthreads
  <2>3. QED BY <1>1, <2>1, <2>2, OtherStep DEF Untouched
<1>4. CASE StartPut(k)
  <2>1. UNCHANGED <<given, disk, load>> /\ writing # {}
    BY <1>4 DEF StartPut
  <2>2. QED BY <1>1, <2>1, OtherStep DEF Untouched
<1>5. CASE Put(k)
  <2>1. SomePast
    BY <1>1, <1>5 DEF Put, Untouched
  <2>2. UNCHANGED <<given, stamp, unclean, load>>
    BY <1>5 DEF Put
  <2>3. CASE store' = [store EXCEPT ![k] = build]
    <3>1. store' = [m \in Keys |-> IF m \in {k} THEN build ELSE store[m]]
      BY <2>3 DEF IInv, TypeInv
    <3>2. /\ load[1] \in LoadType /\ load' = [load EXCEPT ![1] = load[1]]
          /\ 1 \in Loads /\ {k} \in SUBSET Keys
      BY <2>2 DEF IInv, TypeInv, Loads
    <3>3. QED BY <2>1, <2>2, <3>1, <3>2, RowsWritten
  <2>4. CASE store' = store
    BY <2>1, <2>2, <2>4, OtherStep DEF disk
  <2>5. QED BY <1>5, <2>3, <2>4 DEF Put
<1>6. QED BY <1>2, <1>3, <1>4, <1>5 DEF BlockStep

(* Likewise what the pthreads do and the worker hears of them.             *)
LEMMA ThreadStepInv ==
  ASSUME IInv, NEW t \in Thread, ThreadStep(t)
  PROVE  IInv'
<1>1. SomePast \/ Untouched
  BY DEF IInv, QuietInv
<1>2. ASSUME thread[t].in # <<>> \/ thread[t].out # <<>> PROVE SomePast
  BY <1>1, <1>2 DEF Untouched, NewThread
<1>3. CASE Receive(t)
  <2>1. UNCHANGED <<given, disk, load>> /\ thread[t].in # <<>>
    BY <1>3 DEF Receive
  <2>2. QED BY <1>2, <2>1, OtherStep
<1>4. CASE Run(t)
  <2>1. UNCHANGED <<given, disk, load>>
    BY <1>4 DEF Run
  <2>2. UNCHANGED <<thread, verifying, writing, putting>>
    BY <1>4 DEF Run, async
  <2>3. QED BY <1>1, <2>1, <2>2, OtherStep DEF Untouched
<1>5. CASE HandleAck(t)
  <2>1. UNCHANGED <<given, disk, load>> /\ thread[t].out # <<>>
    BY <1>5 DEF HandleAck, Hears
  <2>2. QED BY <1>2, <2>1, OtherStep
<1>6. CASE HandleNewCompile(t)
  <2>1. UNCHANGED <<given, disk, load>> /\ thread[t].out # <<>>
    BY <1>6 DEF HandleNewCompile, Hears
  <2>2. QED BY <1>2, <2>1, OtherStep
<1>7. ASSUME NEW k \in Keys, Miss(t, k) PROVE IInv'
  <2>1. UNCHANGED <<given, disk, load>> /\ load[t[1]].pc = "loaded"
    BY <1>7 DEF Miss, At
  <2>2. t[1] \in Loads
    BY DEF Thread
  <2>3. SomePast
    BY <2>1, <2>2 DEF SomePast, Past, Pcs
  <2>4. QED BY <2>1, <2>3, OtherStep
<1>8. QED BY <1>3, <1>4, <1>5, <1>6, <1>7 DEF ThreadStep

(* Every step keeps the invariant.                                         *)
LEMMA NextInv == IInv /\ [Next]_vars => IInv'
<1> SUFFICES ASSUME IInv, [Next]_vars PROVE IInv'
  OBVIOUS
<1>1. ASSUME NEW l \in Loads, StartLoad(l) PROVE IInv'
  <2>1. load' = [load EXCEPT ![l].pc = "fetching"] /\ load[l].pc = "idle"
    BY <1>1 DEF StartLoad, Goes, At
  <2>2. load \in [Loads -> LoadType]
    BY DEF IInv, TypeInv
  <2>3. LoadsGoOn
    BY <2>1, <2>2 DEF LoadsGoOn, LoadType
  <2>4. load' \in [Loads -> LoadType]
    BY <2>1, <2>2 DEF LoadType, Pcs
  <2>5. UNCHANGED <<given, disk>>
    BY <1>1 DEF StartLoad
  <2>6. UNCHANGED <<thread, verifying, writing, putting>>
    BY <1>1 DEF StartLoad, pthreads, async
  <2>7. QED BY <2>3, <2>4, <2>5, <2>6, PlainStep DEF IInv, QuietInv, Untouched
<1>2. CASE UNCHANGED vars
  <2>1. UNCHANGED <<given, disk, load, thread, verifying, writing, putting>>
    BY <1>2 DEF vars, volatile, async, pthreads
  <2>2. QED BY <2>1, OtherStep DEF IInv, QuietInv, Untouched
<1>3. QED
  BY <1>1, <1>2, LoadStepInv, BlockStepInv, ThreadStepInv, CloseTabInv DEF Next

-----------------------------------------------------------------------------
(* However often the tab is closed or the build changes, and however loads *)
(* of a core overlap: a store that bears a build's stamp has rows of that  *)
(* build only (reconcileJitCacheWithBuild, the seeding and the writes of   *)
(* new blocks), unless a clear or a stamp failed and was overlooked.       *)
THEOREM RowsAreOfTheirBuild == Spec => []StampedStoreIsCurrent
<1>1. IInv => StampedStoreIsCurrent
  BY DEF IInv
<1>2. QED BY <1>1, InitInv, NextInv, PTL DEF Spec

-----------------------------------------------------------------------------
(* What is known of a pthread t, in state th, at a fence of generation g   *)
(* with those targets, when it has acknowledged generation a: the fence's  *)
(* message, its answer and the acknowledgement exist one at a time, and    *)
(* the last two only for targets, and with the map installed.              *)
ThreadType == [in : Seq(Message), out : Seq(Answer), cache : (SUBSET Keys) \cup {None}]

Fences(m, g) == m.type = "barrier" /\ m.generation = g
Answers(m, g) == m.type = "ack" /\ m.generation = g

Knows(t, th, g, targets, a) ==
  /\ \A i \in 1 .. Len(th.in) : th.in[i].type = "barrier" => th.in[i].generation \in 1 .. g
  /\ \A i \in 1 .. Len(th.out) : th.out[i].type = "ack" => th.out[i].generation \in 1 .. g
  /\ \A i, j \in 1 .. Len(th.in) : Fences(th.in[i], g) /\ Fences(th.in[j], g) => i = j
  /\ \A i \in 1 .. Len(th.in) :
       Fences(th.in[i], g) =>
         t \in targets /\ a # g /\ \A j \in 1 .. Len(th.out) : ~Answers(th.out[j], g)
  /\ \A j \in 1 .. Len(th.out) :
       Answers(th.out[j], g) => t \in targets /\ (th.out[j].installed => th.cache # None)
  /\ a = g => t \in targets /\ th.cache # None

(* The parts of the state: the worker's map and the blocks on their way;   *)
(* the lazy fill, which one load at a time runs; the pthreads and the      *)
(* fence, whose acked counts what it says it counts.                       *)
BlockInv ==
  /\ modules \cap reserved = {} /\ reserved \subseteq compiling
  /\ UNION {modules, overflow, verifying, compiling, writing, putting, shared} \subseteq Keys

FillType == [at : {"not-started", "cursor", "running", "complete", "incomplete"},
             left : SUBSET Keys, writeBack : BOOLEAN, failed : BOOLEAN]
FillInv ==
  /\ fill \in FillType
  /\ fill.at \in {"cursor", "running"} <=> \E l \in Loads : At(l, {"fill"})
  /\ \A l, m \in Loads : At(l, {"fill"}) /\ At(m, {"fill"}) => l = m

BarrierType == [generation : Nat, targets : SUBSET Thread, acked : Nat,
                invalid : BOOLEAN, postFailed : BOOLEAN]
ThreadInv ==
  /\ UNION {workers, listened, running} \subseteq Thread
  /\ barrier \in BarrierType
  /\ acks \in [Thread -> (1 .. barrier.generation) \cup {None}]
  /\ thread \in [Thread -> ThreadType]

Acked == {t \in Thread : acks[t] = barrier.generation}
FenceInv ==
  /\ \A t \in Thread :
       Knows(t, thread[t], barrier.generation, barrier.targets, acks[t])
  /\ barrier.acked = Cardinality(Acked)

FInv ==
  /\ bootDone \in BOOLEAN /\ runtime \in 0 .. 2
  /\ TypeInv /\ BlockInv /\ FillInv /\ ThreadInv /\ FenceInv

-----------------------------------------------------------------------------
(* Mail for a pthread that is no fence.                                    *)
LEMMA KnowsSent ==
  ASSUME NEW t, NEW th \in ThreadType, NEW g \in Nat, NEW targets, NEW a,
         NEW m \in Message, m.type # "barrier", Knows(t, th, g, targets, a)
  PROVE  /\ [th EXCEPT !.in = Append(@, m)] \in ThreadType
         /\ Knows(t, [th EXCEPT !.in = Append(@, m)], g, targets, a)
<1> DEFINE new == [th EXCEPT !.in = Append(@, m)]
<1>0. th.in \in Seq(Message) /\ Append(th.in, m) \in Seq(Message)
  BY DEF ThreadType
<1>1. /\ new \in ThreadType /\ new.in = Append(th.in, m) /\ new.out = th.out
      /\ new.cache = th.cache
  BY <1>0 DEF ThreadType
<1>2. /\ Len(new.in) = Len(th.in) + 1 /\ new.in[Len(th.in) + 1] = m
      /\ \A i \in 1 .. Len(th.in) : new.in[i] = th.in[i]
  BY <1>0, <1>1
<1> HIDE DEF new
<1>3. Knows(t, new, g, targets, a)
  BY <1>1, <1>2 DEF Knows, Fences
<1>4. QED BY <1>1, <1>3 DEF new

(* A new fence: nothing that is known of an older one matters.             *)
LEMMA KnowsPassed ==
  ASSUME NEW t, NEW th \in ThreadType, NEW g \in Nat, NEW targets, NEW a,
         NEW others, a \in (1 .. g) \cup {None}, Knows(t, th, g, targets, a)
  PROVE  Knows(t, th, g + 1, others, a) /\ a # g + 1
<1>1. a # g + 1
  BY JitCacheAssumption
<1>2. /\ \A i \in 1 .. Len(th.in) : ~Fences(th.in[i], g + 1)
      /\ \A i \in 1 .. Len(th.out) : ~Answers(th.out[i], g + 1)
  BY DEF Knows, Fences, Answers
<1>3. 1 .. g \subseteq 1 .. g + 1
  OBVIOUS
<1>4. QED BY <1>1, <1>2, <1>3 DEF Knows

(* The new fence's own message.                                             *)
LEMMA KnowsFenced ==
  ASSUME NEW t, NEW th \in ThreadType, NEW g \in Nat, NEW targets, NEW a,
         NEW others, t \in others, a \in (1 .. g) \cup {None}, Knows(t, th, g, targets, a),
         NEW m \in Message, m = [type |-> "barrier", generation |-> g + 1]
  PROVE  /\ [th EXCEPT !.in = Append(@, m)] \in ThreadType
         /\ Knows(t, [th EXCEPT !.in = Append(@, m)], g + 1, others, a)
<1> DEFINE new == [th EXCEPT !.in = Append(@, m)]
<1>0. th.in \in Seq(Message) /\ Append(th.in, m) \in Seq(Message)
  BY DEF ThreadType
<1>1. /\ new \in ThreadType /\ new.in = Append(th.in, m) /\ new.out = th.out
      /\ new.cache = th.cache
  BY <1>0 DEF ThreadType
<1>2. /\ Len(new.in) = Len(th.in) + 1 /\ new.in[Len(th.in) + 1] = m
      /\ \A i \in 1 .. Len(th.in) : new.in[i] = th.in[i]
  BY <1>0, <1>1
<1> HIDE DEF new
<1>3. Knows(t, th, g + 1, others, a) /\ a # g + 1
  BY KnowsPassed
<1>4. /\ \A i \in 1 .. Len(th.in) : ~Fences(th.in[i], g + 1)
      /\ \A i \in 1 .. Len(th.out) : ~Answers(th.out[i], g + 1)
  BY DEF Knows, Fences, Answers
<1>5. m.type = "barrier" /\ m.generation = g + 1 /\ g + 1 \in 1 .. g + 1
  OBVIOUS
<1>6. Knows(t, new, g + 1, others, a)
  BY <1>0, <1>1, <1>2, <1>3, <1>4, <1>5 DEF Knows, Fences
<1>7. QED BY <1>1, <1>6 DEF new

(* A pthread has taken a message that it need not answer, or that is the   *)
(* fence's, or says something else.                                        *)
LEMMA KnowsTaken ==
  ASSUME NEW t, NEW th \in ThreadType, NEW new \in ThreadType, NEW g \in Nat, NEW targets, NEW a,
         Knows(t, th, g, targets, a),
         th.in # <<>>, new.in = Tail(th.in), new.out = th.out,
         th.cache # None => new.cache # None
  PROVE  Knows(t, new, g, targets, a)
<1>1. /\ th.in \in Seq(Message) /\ Len(new.in) = Len(th.in) - 1 /\ Len(th.in) \in Nat
      /\ \A i \in 1 .. Len(new.in) : new.in[i] = th.in[i + 1]
  BY DEF ThreadType
<1>2. QED BY <1>1 DEF Knows

(* It has taken a fence's message and answered it.                          *)
LEMMA KnowsAnswered ==
  ASSUME NEW t, NEW th \in ThreadType, NEW new \in ThreadType, NEW g \in Nat, NEW targets, NEW a,
         Knows(t, th, g, targets, a),
         th.in # <<>>, new.in = Tail(th.in), new.cache = th.cache,
         NEW m, m = Head(th.in), m.type = "barrier",
         NEW answer \in Answer, answer.type = "ack", answer.generation = m.generation,
         answer.installed = (th.cache # None), new.out = Append(th.out, answer)
  PROVE  Knows(t, new, g, targets, a)
<1>1. /\ th.in \in Seq(Message) /\ Len(new.in) = Len(th.in) - 1 /\ Len(th.in) \in Nat
      /\ \A i \in 1 .. Len(new.in) : new.in[i] = th.in[i + 1]
      /\ m = th.in[1] /\ 1 \in 1 .. Len(th.in)
  BY DEF ThreadType
<1>2. /\ th.out \in Seq(Answer) /\ Len(new.out) = Len(th.out) + 1 /\ Len(th.out) \in Nat
      /\ \A i \in 1 .. Len(th.out) : new.out[i] = th.out[i]
      /\ new.out[Len(th.out) + 1] = answer
  BY DEF ThreadType
<1>3. m.generation \in 1 .. g
  BY <1>1 DEF Knows
<1>4. /\ \A i \in 1 .. Len(new.in) :
           new.in[i].type = "barrier" => new.in[i].generation \in 1 .. g
      /\ \A i, j \in 1 .. Len(new.in) : Fences(new.in[i], g) /\ Fences(new.in[j], g) => i = j
  BY <1>1 DEF Knows
<1>5. \A i \in 1 .. Len(new.out) :
        new.out[i].type = "ack" => new.out[i].generation \in 1 .. g
  BY <1>2, <1>3 DEF Knows
<1>6. CASE m.generation # g
  <2>1. ~Answers(answer, g)
    BY <1>6 DEF Answers
  <2>2. \A j \in 1 .. Len(new.out) :
          Answers(new.out[j], g) => j \in 1 .. Len(th.out) /\ new.out[j] = th.out[j]
    BY <1>2, <2>1
  <2>3. \A i \in 1 .. Len(new.in) :
          Fences(new.in[i], g) =>
            t \in targets /\ a # g /\ \A j \in 1 .. Len(new.out) : ~Answers(new.out[j], g)
    BY <1>1, <2>2 DEF Knows
  <2>4. \A j \in 1 .. Len(new.out) :
          Answers(new.out[j], g) => t \in targets /\ (new.out[j].installed => new.cache # None)
    BY <2>2 DEF Knows
  <2>5. QED BY <1>4, <1>5, <2>3, <2>4 DEF Knows
<1>7. CASE m.generation = g
  <2>1. Fences(th.in[1], g)
    BY <1>1, <1>7 DEF Fences
  <2>2. /\ t \in targets /\ a # g
        /\ \A j \in 1 .. Len(th.out) : ~Answers(th.out[j], g)
    BY <1>1, <2>1 DEF Knows
  <2>3. ASSUME NEW i \in 1 .. Len(new.in) PROVE ~Fences(new.in[i], g)
    <3>1. \A k, j \in 1 .. Len(th.in) : Fences(th.in[k], g) /\ Fences(th.in[j], g) => k = j
      BY DEF Knows
    <3>2. i + 1 \in 1 .. Len(th.in) /\ new.in[i] = th.in[i + 1] /\ i + 1 # 1
      BY <1>1
    <3>3. QED BY <1>1, <2>1, <3>1, <3>2
  <2>4. \A j \in 1 .. Len(new.out) : Answers(new.out[j], g) => new.out[j] = answer
    BY <1>2, <2>2
  <2>5. \A j \in 1 .. Len(new.out) :
          Answers(new.out[j], g) => t \in targets /\ (new.out[j].installed => new.cache # None)
    BY <2>2, <2>4
  <2>6. QED BY <1>4, <1>5, <2>2, <2>3, <2>5 DEF Knows
<1>8. QED BY <1>6, <1>7

(* It has said something else.                                              *)
LEMMA KnowsSaid ==
  ASSUME NEW t, NEW th \in ThreadType, NEW new \in ThreadType, NEW g \in Nat, NEW targets, NEW a,
         Knows(t, th, g, targets, a), new.in = th.in, th.cache # None => new.cache # None,
         NEW said \in Answer, said.type # "ack",
         new.out = th.out \/ new.out = Append(th.out, said)
  PROVE  Knows(t, new, g, targets, a)
<1>1. CASE new.out = th.out
  BY <1>1 DEF Knows
<1>2. CASE new.out = Append(th.out, said)
  <2>1. /\ th.out \in Seq(Answer) /\ Len(new.out) = Len(th.out) + 1 /\ Len(th.out) \in Nat
        /\ \A i \in 1 .. Len(th.out) : new.out[i] = th.out[i]
        /\ new.out[Len(th.out) + 1] = said
    BY <1>2 DEF ThreadType
  <2>2. \A j \in 1 .. Len(new.out) :
          new.out[j].type = "ack" => j \in 1 .. Len(th.out) /\ new.out[j] = th.out[j]
    BY <2>1
  <2>3. \A j \in 1 .. Len(new.out) :
          Answers(new.out[j], g) => j \in 1 .. Len(th.out) /\ new.out[j] = th.out[j]
    BY <2>2 DEF Answers
  <2>4. \A i \in 1 .. Len(new.in) :
          Fences(new.in[i], g) =>
            t \in targets /\ a # g /\ \A j \in 1 .. Len(new.out) : ~Answers(new.out[j], g)
    BY <2>3 DEF Knows
  <2>5. QED BY <2>2, <2>3, <2>4 DEF Knows
<1>3. QED BY <1>1, <1>2

(* The worker has heard it, and counts the acknowledgement or does not.    *)
LEMMA KnowsHeard ==
  ASSUME NEW t, NEW th \in ThreadType, NEW new \in ThreadType, NEW g \in Nat, NEW targets, NEW a,
         Knows(t, th, g, targets, a), new.in = th.in, new.cache = th.cache,
         th.out # <<>>, new.out = Tail(th.out)
  PROVE  /\ Knows(t, new, g, targets, a)
         /\ Answers(Head(th.out), g) /\ Head(th.out).installed => Knows(t, new, g, targets, g)
<1>1. /\ th.out \in Seq(Answer) /\ Len(new.out) = Len(th.out) - 1 /\ Len(th.out) \in Nat
      /\ \A i \in 1 .. Len(new.out) : new.out[i] = th.out[i + 1]
      /\ Head(th.out) = th.out[1] /\ 1 \in 1 .. Len(th.out)
  BY DEF ThreadType
<1>2. Knows(t, new, g, targets, a)
  BY <1>1 DEF Knows
<1>3. ASSUME Answers(Head(th.out), g), Head(th.out).installed
      PROVE  Knows(t, new, g, targets, g)
  <2>1. t \in targets /\ th.cache # None
    BY <1>1, <1>3 DEF Knows
  <2>2. \A i \in 1 .. Len(th.in) : ~Fences(th.in[i], g)
    BY <1>1, <1>3 DEF Knows
  <2>3. QED BY <1>2, <2>1, <2>2 DEF Knows
<1>4. QED BY <1>2, <1>3

-----------------------------------------------------------------------------
(* What is known of all pthreads, as far as each step changes it.          *)
KnowsAll(threads) ==
  \A t \in Thread : Knows(t, threads[t], barrier.generation, barrier.targets, acks[t])

(* The fence is the same one, and no acknowledgement was counted.           *)
LEMMA FenceKept ==
  ASSUME ThreadInv, FenceInv, acks' = acks, UNION {workers', listened', running'} \subseteq Thread,
         barrier' \in BarrierType, barrier'.generation = barrier.generation,
         barrier'.targets = barrier.targets, barrier'.acked = barrier.acked,
         thread' \in [Thread -> ThreadType], KnowsAll(thread')
  PROVE  ThreadInv' /\ FenceInv'
<1>1. Acked' = Acked
  BY DEF Acked
<1>2. QED BY <1>1 DEF ThreadInv, FenceInv, KnowsAll

(* Mail for some of them.                                                  *)
LEMMA PostedKnows ==
  ASSUME ThreadInv, FenceInv, NEW to, NEW m \in Message, m.type # "barrier"
  PROVE  Posted(thread, to, m) \in [Thread -> ThreadType] /\ KnowsAll(Posted(thread, to, m))
<1> DEFINE sent == Posted(thread, to, m)
<1>1. ASSUME NEW t \in Thread
      PROVE  /\ sent[t] \in ThreadType
             /\ Knows(t, sent[t], barrier.generation, barrier.targets, acks[t])
  <2>1. /\ thread[t] \in ThreadType /\ barrier.generation \in Nat
        /\ Knows(t, thread[t], barrier.generation, barrier.targets, acks[t])
    BY DEF ThreadInv, FenceInv, BarrierType
  <2>2. sent[t] = thread[t] \/ sent[t] = [thread[t] EXCEPT !.in = Append(@, m)]
    BY DEF Posted
  <2> HIDE DEF sent
  <2>3. CASE sent[t] = thread[t]
    BY <2>1, <2>3
  <2>4. CASE sent[t] = [thread[t] EXCEPT !.in = Append(@, m)]
    <3>1. /\ [thread[t] EXCEPT !.in = Append(@, m)] \in ThreadType
          /\ Knows(t, [thread[t] EXCEPT !.in = Append(@, m)], barrier.generation,
                   barrier.targets, acks[t])
      BY <2>1, KnowsSent
    <3>2. QED BY <2>4, <3>1
  <2>5. QED BY <2>2, <2>3, <2>4
<1>2. sent = [t \in Thread |-> sent[t]]
  BY DEF Posted
<1> HIDE DEF sent
<1>3. sent \in [Thread -> ThreadType] /\ KnowsAll(sent)
  BY <1>1, <1>2 DEF KnowsAll
<1>4. QED BY <1>3 DEF sent

(* A new fence.                                                            *)
LEMMA PublishInv ==
  ASSUME ThreadInv, NEW pool \in SUBSET Thread,
         NEW threads \in [Thread -> ThreadType], KnowsAll(threads),
         NEW failed \in BOOLEAN, Publish(pool, threads, failed),
         acks' = acks, UNION {workers', listened', running'} \subseteq Thread
  PROVE  ThreadInv' /\ FenceInv'
<1> DEFINE g == barrier.generation
           m == [type |-> "barrier", generation |-> g + 1]
<1>1. PICK lost \in Unsent(pool) :
        /\ barrier' = [generation |-> g + 1, targets |-> pool, acked |-> 0,
                       invalid |-> FALSE, postFailed |-> failed \/ lost # {}]
        /\ thread' = Posted(threads, pool \ lost, m)
  BY DEF Publish
<1>2. g \in Nat /\ m \in Message /\ acks \in [Thread -> (1 .. g) \cup {None}]
  BY DEF ThreadInv, BarrierType, Message
<1>3. barrier' \in BarrierType /\ barrier'.generation = g + 1 /\ barrier'.targets = pool
      /\ barrier'.acked = 0
  BY <1>1, <1>2 DEF BarrierType
<1>4. ASSUME NEW t \in Thread
      PROVE  /\ thread'[t] \in ThreadType /\ Knows(t, thread'[t], g + 1, pool, acks[t])
             /\ acks[t] # g + 1
  <2>1. /\ threads[t] \in ThreadType /\ acks[t] \in (1 .. g) \cup {None}
        /\ Knows(t, threads[t], g, barrier.targets, acks[t])
    BY <1>2 DEF KnowsAll
  <2>2. Knows(t, threads[t], g + 1, pool, acks[t]) /\ acks[t] # g + 1
    BY <1>2, <2>1, KnowsPassed
  <2>3. CASE t \in pool \ lost
    <3>1. thread'[t] = [threads[t] EXCEPT !.in = Append(@, m)]
      BY <1>1, <2>3 DEF Posted
    <3>2. t \in pool /\ m = [type |-> "barrier", generation |-> g + 1]
      BY <2>3
    <3> HIDE DEF g, m
    <3>3. QED BY <1>2, <2>1, <2>2, <3>1, <3>2, KnowsFenced
  <2>4. CASE t \notin pool \ lost
    <3>1. thread'[t] = threads[t]
      BY <1>1, <2>4 DEF Posted
    <3>2. QED BY <2>1, <2>2, <3>1
  <2>5. QED BY <2>3, <2>4
<1>5. thread' = [t \in Thread |-> thread'[t]]
  BY <1>1 DEF Posted
<1>6. Acked' = {}
  BY <1>3, <1>4 DEF Acked
<1>7. (1 .. g) \cup {None} \subseteq (1 .. barrier'.generation) \cup {None}
  BY <1>2, <1>3
<1>8. ThreadInv'
  BY <1>2, <1>3, <1>4, <1>5, <1>7 DEF ThreadInv
<1>9. FenceInv'
  BY <1>3, <1>4, <1>6, FS_EmptySet DEF FenceInv
<1>10. QED BY <1>8, <1>9

-----------------------------------------------------------------------------
(* All steps but those of a load under way.                                *)
NoLoadStep ==
  \/ \E k \in Keys : BlockStep(k)
  \/ \E t \in Thread : ThreadStep(t)
  \/ CloseTab
  \/ \E l \in Loads : StartLoad(l)
  \/ UNCHANGED vars

(* Blocks stay blocks, and a key is reserved only while it is compiled.    *)
LEMMA BatchIn ==
  ASSUME NEW S \in SUBSET Keys, NEW batch \in BatchesOf(S)
  PROVE  batch \subseteq S
BY DEF BatchesOf, kSubset

(* Most steps leave them alone.                                             *)
LEMMA BlocksUnchanged ==
  ASSUME BlockInv, UNCHANGED <<master, async, shared>>
  PROVE  BlockInv'
BY DEF BlockInv, master, async

(* A load's own steps.                                                      *)
LEMMA BlocksOfLoad ==
  ASSUME TypeInv, FillInv, BlockInv, NEW l \in Loads, LoadStep(l)
  PROVE  BlockInv'
<1>1. CASE UNCHANGED <<master, async, shared>>
  BY <1>1, BlocksUnchanged
<1>2. CASE Clear(l)
  BY <1>2 DEF Clear, BlockInv, async
<1>3. CASE BootBatch(l)
  <2>1. load[l].rows \in SUBSET Keys
    BY DEF TypeInv, LoadType
  <2>2. PICK batch \in BatchesOf(load[l].rows) : \E lost \in Bad(batch) :
          /\ modules' = modules \cup ((batch \ lost) \ reserved)
          /\ shared' = shared \cup (batch \ lost)
    BY <1>3 DEF BootBatch
  <2>3. batch \subseteq Keys
    BY <2>1, BatchIn
  <2>4. UNCHANGED <<reserved, overflow, async>>
    BY <1>3 DEF BootBatch
  <2>5. QED BY <2>2, <2>3, <2>4 DEF BlockInv, async
<1>4. CASE StartSeed(l)
  <2> DEFINE rest == Range(SubSeq(prebuilt, BootMax + 1, Len(prebuilt)))
  <2>1. rest \subseteq Keys
    <3>1. PICK n \in 0 .. Cardinality(Keys) : prebuilt \in Injection(1 .. n, Keys)
      BY JitCacheAssumption DEF TypeInv
    <3>2. n \in Nat /\ prebuilt \in [1 .. n -> Keys]
      BY <3>1 DEF Injection
    <3>3. prebuilt \in Seq(Keys)
      BY <3>2
    <3>4. SubSeq(prebuilt, BootMax + 1, Len(prebuilt)) \in Seq(Keys)
      BY <3>3, JitCacheAssumption
    <3>5. QED BY <3>4 DEF Range
  <2>2. overflow' = overflow \/ overflow' = rest
    BY <1>4 DEF StartSeed
  <2>3. UNCHANGED <<modules, reserved, async, shared>>
    BY <1>4 DEF StartSeed
  <2> HIDE DEF rest
  <2>4. QED BY <2>1, <2>2, <2>3 DEF BlockInv, async
<1>5. CASE Install(l)
  <2>1. UNCHANGED <<modules, reserved, async, shared>> /\ overflow' \in {overflow, {}}
    BY <1>5 DEF Install
  <2>2. QED BY <2>1 DEF BlockInv, async
<1>6. CASE FillBatch(l)
  <2>1. fill.left \in SUBSET Keys
    BY DEF FillInv, FillType
  <2>2. PICK batch \in BatchesOf(fill.left) : \E lost \in Bad(batch) :
          /\ modules' = modules \cup (batch \ lost) /\ reserved' = reserved \ (batch \ lost)
          /\ shared' = shared \cup (batch \ lost)
          /\ writing' = writing \/ writing' = writing \cup (batch \ lost)
    BY <1>6 DEF FillBatch
  <2>3. batch \subseteq Keys
    BY <2>1, BatchIn
  <2>4. UNCHANGED <<overflow, verifying, compiling, putting>>
    BY <1>6 DEF FillBatch
  <2>5. QED BY <2>2, <2>3, <2>4 DEF BlockInv
<1>7. QED
  BY <1>1, <1>2, <1>3, <1>4, <1>5, <1>6
  DEF LoadStep, Reconcile, Stamp, ReadRows, Booted, SkipSeed, Seeded, SeedFails, ScanRows,
      ScanFails, EndFill, Fence, Polled, TimesOut

(* All other steps.                                                         *)
LEMMA BlocksOfOthers ==
  ASSUME BlockInv, ThreadInv, NoLoadStep
  PROVE  BlockInv'
<1> USE DEF NoLoadStep
<1>1. CASE UNCHANGED <<master, async, shared>>
  BY <1>1, BlocksUnchanged
<1>2. ASSUME NEW k \in Keys, BlockStep(k) PROVE BlockInv'
  <2>1. CASE Verified(k)
    BY <2>1 DEF Verified, BlockInv, IsNew, Cached
  <2>2. CASE Compiled(k)
    BY <2>2 DEF Compiled, BlockInv
  <2>3. CASE StartPut(k)
    BY <2>3 DEF StartPut, BlockInv, master
  <2>4. CASE Put(k)
    BY <2>4 DEF Put, BlockInv, master
  <2>5. QED BY <1>2, <2>1, <2>2, <2>3, <2>4 DEF BlockStep
<1>3. ASSUME NEW t \in Thread, HandleNewCompile(t) PROVE BlockInv'
  <2> DEFINE m == Head(thread[t].out)
  <2>1. m \in Answer /\ m.type = "new-compile"
    BY <1>3 DEF HandleNewCompile, Hears, ThreadInv, ThreadType
  <2>2. m.key \in Keys
    BY <2>1 DEF Answer
  <2>3. verifying' = verifying \/ verifying' = verifying \cup {m.key}
    BY <1>3 DEF HandleNewCompile
  <2> HIDE DEF m
  <2>4. QED BY <1>3, <2>2, <2>3 DEF HandleNewCompile, BlockInv, master
<1>4. CASE CloseTab
  BY <1>4 DEF CloseTab, BlockInv
<1>5. ASSUME NEW t \in Thread, ThreadStep(t) PROVE BlockInv'
  BY <1>1, <1>3, <1>5 DEF ThreadStep, Receive, Run, HandleAck, Miss
<1>6. QED
  BY <1>1, <1>2, <1>4, <1>5 DEF StartLoad, vars, volatile

-----------------------------------------------------------------------------
(* The lazy fill runs exactly while the load that has started it is at it. *)
LEMMA FillUnchanged ==
  ASSUME FillInv, fill' = fill,
         \A m \in Loads : load'[m].pc = "fill" <=> load[m].pc = "fill"
  PROVE  FillInv'
BY DEF FillInv, At

(* The load that fills goes on to its fence.                               *)
LEMMA FillEnds ==
  ASSUME TypeInv, FillInv, NEW l \in Loads, At(l, {"fill"}), Goes(l, "wait"),
         fill' \in FillType, fill'.at \notin {"cursor", "running"}
  PROVE  FillInv'
<1>1. load' = [load EXCEPT ![l] = [load[l] EXCEPT !.pc = "wait"]]
  BY DEF Goes
<1>2. load'[l].pc = "wait" /\ \A m \in Loads : m # l => load'[m] = load[m]
  BY <1>1 DEF TypeInv, LoadType
<1>3. \A m \in Loads : ~At(m, {"fill"})'
  BY <1>2 DEF FillInv, At
<1>4. QED BY <1>3 DEF FillInv

(* The first load to install starts the fill.                               *)
LEMMA FillOfInstall ==
  ASSUME TypeInv, BlockInv, FillInv, NEW l \in Loads, Install(l)
  PROVE  FillInv'
<1>1. PICK size \in 1 .. setup.threads :
        load' = [load EXCEPT ![l].pool = {l} \X (1 .. size),
                   ![l].pc = IF fill.at = "not-started" THEN "fill" ELSE "wait"]
  BY DEF Install
<1>2. /\ load'[l].pc = IF fill.at = "not-started" THEN "fill" ELSE "wait"
      /\ \A m \in Loads : m # l => load'[m] = load[m]
      /\ load[l].pc = "factory"
  BY <1>1 DEF TypeInv, LoadType, Install, At
<1>3. CASE fill.at = "not-started"
  <2>1. \A m \in Loads : load[m].pc # "fill"
    BY <1>3 DEF FillInv, At
  <2>2. \A m \in Loads : load'[m].pc = "fill" <=> m = l
    BY <1>2, <1>3, <2>1
  <2>3. \/ fill' = [fill EXCEPT !.at = "running", !.left = overflow \ Cached,
                                !.writeBack = TRUE]
        \/ fill' = [fill EXCEPT !.at = "cursor", !.left = Keys \ Cached]
    BY <1>3 DEF Install
  <2>4. fill \in FillType /\ overflow \ Cached \in SUBSET Keys /\ Keys \ Cached \in SUBSET Keys
    BY DEF FillInv, BlockInv
  <2>5. fill' \in FillType /\ fill'.at \in {"cursor", "running"}
    BY <2>3, <2>4 DEF FillType
  <2>6. QED BY <2>2, <2>5 DEF FillInv, At
<1>4. CASE fill.at # "not-started"
  BY <1>2, <1>4, FillUnchanged DEF Install
<1>5. QED BY <1>3, <1>4

(* A load's own steps.                                                      *)
LEMMA FillOfLoad ==
  ASSUME TypeInv, BlockInv, FillInv, NEW l \in Loads, LoadStep(l)
  PROVE  FillInv'
<1>1. fill \in FillType /\ load \in [Loads -> LoadType] /\ load[l] \in LoadType
  BY DEF TypeInv, FillInv
<1>2. ASSUME fill' = fill, load[l].pc # "fill", load'[l].pc # "fill",
             \A m \in Loads : m # l => load'[m] = load[m]
      PROVE  FillInv'
  BY <1>2, FillUnchanged
<1>3. CASE Reconcile(l)
  BY <1>1, <1>2, <1>3 DEF Reconcile, At, LoadType
<1>4. CASE Clear(l)
  BY <1>1, <1>2, <1>4 DEF Clear, Goes, At, LoadType
<1>5. CASE \E part \in Parts : Stamp(l, part)
  <2>1. PICK part \in Parts : Stamp(l, part)
    BY <1>5
  <2> DEFINE rest == load[l].todo \ {part}
             next == IF load[l].pc = "stamp" THEN "rows" ELSE "rerows"
             pc == IF rest = {} THEN next ELSE load[l].pc
  <2>2. load' = [load EXCEPT ![l] = [load[l] EXCEPT !.todo = rest, !.pc = pc]]
    BY <1>1, <2>1 DEF Stamp, At, LoadType
  <2>3. fill' = fill /\ load[l].pc # "fill" /\ pc # "fill"
    BY <2>1 DEF Stamp, At
  <2> HIDE DEF rest, pc
  <2>4. QED BY <1>1, <1>2, <2>2, <2>3 DEF LoadType
<1>6. CASE ReadRows(l)
  BY <1>1, <1>2, <1>6 DEF ReadRows, At, LoadType
<1>7. CASE BootBatch(l)
  BY <1>1, <1>2, <1>7 DEF BootBatch, At, LoadType
<1>8. CASE Booted(l)
  BY <1>1, <1>2, <1>8 DEF Booted, At, LoadType
<1>9. CASE SkipSeed(l)
  BY <1>1, <1>2, <1>9 DEF SkipSeed, Goes, At, LoadType
<1>10. CASE StartSeed(l)
  BY <1>1, <1>2, <1>10 DEF StartSeed, At, LoadType
<1>11. CASE Seeded(l)
  BY <1>1, <1>2, <1>11 DEF Seeded, At, LoadType
<1>12. CASE SeedFails(l)
  BY <1>1, <1>2, <1>12 DEF SeedFails, At, LoadType
<1>13. CASE ScanRows(l)
  <2>1. fill' \in FillType /\ fill'.at = "running" /\ fill.at = "cursor" /\ load' = load
    BY <1>1, <1>13 DEF ScanRows, FillType
  <2>2. QED BY <2>1 DEF FillInv, At
<1>14. CASE FillBatch(l)
  <2>1. PICK batch \in BatchesOf(fill.left) : \E lost \in Bad(batch), unsent \in Unsent(workers) :
          fill' = [fill EXCEPT !.left = @ \ batch,
                     !.failed = @ \/ lost # {} \/ (batch \ lost # {} /\ unsent # {})]
    BY <1>14 DEF FillBatch
  <2>2. PICK lost, unsent :
          fill' = [fill EXCEPT !.left = @ \ batch,
                     !.failed = @ \/ lost # {} \/ (batch \ lost # {} /\ unsent # {})]
    BY <2>1
  <2> DEFINE left == fill.left \ batch
             failed == fill.failed \/ lost # {} \/ (batch \ lost # {} /\ unsent # {})
  <2>3. fill' = [fill EXCEPT !.left = left, !.failed = failed]
    BY <1>1, <2>2 DEF FillType
  <2>4. failed \in BOOLEAN
    OBVIOUS
  <2>5. left \in SUBSET Keys
    BY <1>1 DEF FillType
  <2> HIDE DEF left, failed
  <2>6. fill.at = "running" /\ load' = load
    BY <1>14 DEF FillBatch
  <2>7. fill' \in FillType /\ fill'.at = "running"
    BY <1>1, <2>3, <2>4, <2>5, <2>6 DEF FillType
  <2>8. QED BY <2>6, <2>7 DEF FillInv, At
<1>15. CASE ScanFails(l)
  <2>1. /\ fill' = [fill EXCEPT !.at = "incomplete", !.left = {}, !.failed = TRUE]
        /\ Goes(l, "wait") /\ At(l, {"fill"})
    BY <1>15 DEF ScanFails, Fence
  <2>2. fill' \in FillType /\ fill'.at = "incomplete"
    BY <1>1, <2>1 DEF FillType
  <2>3. QED BY <2>1, <2>2, FillEnds
<1>16. CASE EndFill(l)
  <2>1. PICK at \in {"complete", "incomplete"} : fill' = [fill EXCEPT !.left = {}, !.at = at]
    BY <1>16 DEF EndFill, Fence
  <2>2. Goes(l, "wait") /\ At(l, {"fill"})
    BY <1>16 DEF EndFill, Fence
  <2>3. fill' \in FillType /\ fill'.at = at
    BY <1>1, <2>1 DEF FillType
  <2>4. QED BY <2>1, <2>2, <2>3, FillEnds
<1>17. CASE Polled(l)
  BY <1>1, <1>2, <1>17 DEF Polled, At, LoadType
<1>18. CASE TimesOut(l)
  BY <1>1, <1>2, <1>18 DEF TimesOut, Goes, At, LoadType
<1>19. QED
  BY <1>3, <1>4, <1>5, <1>6, <1>7, <1>8, <1>9, <1>10, <1>11, <1>12, <1>13, <1>14, <1>15,
     <1>16, <1>17, <1>18, FillOfInstall DEF LoadStep

(* All other steps.                                                         *)
LEMMA FillOfOthers ==
  ASSUME TypeInv, FillInv, NoLoadStep
  PROVE  FillInv'
<1> USE DEF NoLoadStep
<1>1. CASE UNCHANGED <<fill, load>>
  BY <1>1, FillUnchanged
<1>2. CASE CloseTab
  BY <1>2 DEF CloseTab, FillInv, FillType, NewFill, NewLoad, At
<1>3. ASSUME NEW l \in Loads, StartLoad(l) PROVE FillInv'
  <2>1. /\ load[l].pc = "idle" /\ fill' = fill
        /\ load' = [load EXCEPT ![l] = [load[l] EXCEPT !.pc = "fetching"]]
    BY <1>3 DEF StartLoad, At, Goes
  <2>2. QED BY <2>1, FillUnchanged DEF TypeInv, LoadType
<1>4. QED
  BY <1>1, <1>2, <1>3
  DEF vars, volatile, BlockStep, Verified, Compiled, StartPut, Put,
      ThreadStep, Receive, Run, HandleAck, HandleNewCompile, Miss

-----------------------------------------------------------------------------
(* The pthreads and the fence: a step of one pthread.                      *)
LEMMA OneThread ==
  ASSUME ThreadInv, FenceInv, NEW t \in Thread, NEW new \in ThreadType,
         thread' = [thread EXCEPT ![t] = new],
         Knows(t, new, barrier.generation, barrier.targets, acks[t])
  PROVE  thread' \in [Thread -> ThreadType] /\ KnowsAll(thread')
BY DEF ThreadInv, FenceInv, KnowsAll

(* Most steps leave them alone.                                             *)
LEMMA FenceUnchanged ==
  ASSUME ThreadInv, FenceInv, UNCHANGED <<fence, pthreads>>
  PROVE  ThreadInv' /\ FenceInv'
<1>1. Acked' = Acked
  BY DEF Acked, fence
<1>2. UNCHANGED <<workers, listened, running, barrier, acks, thread>>
  BY DEF fence, pthreads
<1>3. QED BY <1>1, <1>2 DEF ThreadInv, FenceInv

(* A load sends its pthreads the map, and perhaps its fence right after.   *)
LEMMA FenceOfInstall ==
  ASSUME TypeInv, BlockInv, ThreadInv, FenceInv, NEW l \in Loads, Install(l)
  PROVE  ThreadInv' /\ FenceInv'
<1> DEFINE m == [type |-> "cache", keys |-> modules]
<1>1. PICK size \in 1 .. setup.threads : \E lost \in Unsent({l} \X (1 .. size)) :
        LET pool == {l} \X (1 .. size)
            sent == Posted(thread, pool \ lost, m)
        IN  /\ workers' = pool /\ listened' = listened \cup pool
            /\ IF fill.at = "not-started"
               THEN thread' = sent /\ barrier' = [barrier EXCEPT !.postFailed = lost # {}]
               ELSE Publish(pool, sent, lost # {})
  BY DEF Install
<1> DEFINE pool == {l} \X (1 .. size)
<1>2. PICK lost :
        /\ workers' = pool /\ listened' = listened \cup pool
        /\ IF fill.at = "not-started"
           THEN /\ thread' = Posted(thread, pool \ lost, m)
                /\ barrier' = [barrier EXCEPT !.postFailed = lost # {}]
           ELSE Publish(pool, Posted(thread, pool \ lost, m), lost # {})
  BY <1>1
<1> DEFINE to == pool \ lost
           failed == lost # {}
<1>3. m \in Message /\ m.type # "barrier"
  BY DEF BlockInv, Message
<1>4. pool \in SUBSET Thread /\ failed \in BOOLEAN
  BY PoolInThread
<1>5. acks' = acks /\ running' = running
  BY DEF Install
<1>6. UNION {workers', listened', running'} \subseteq Thread
  BY <1>2, <1>4, <1>5 DEF ThreadInv
<1> HIDE DEF pool, m
<1>7. Posted(thread, to, m) \in [Thread -> ThreadType] /\ KnowsAll(Posted(thread, to, m))
  BY <1>3, PostedKnows
<1>8. CASE fill.at = "not-started"
  <2>1. thread' = Posted(thread, to, m) /\ barrier' = [barrier EXCEPT !.postFailed = failed]
    BY <1>2, <1>8
  <2> HIDE DEF failed
  <2>2. /\ barrier' \in BarrierType /\ barrier'.generation = barrier.generation
        /\ barrier'.targets = barrier.targets /\ barrier'.acked = barrier.acked
    BY <1>4, <2>1 DEF ThreadInv, BarrierType
  <2>3. QED BY <1>5, <1>6, <1>7, <2>1, <2>2, FenceKept
<1>9. CASE fill.at # "not-started"
  <2>1. Publish(pool, Posted(thread, to, m), failed)
    BY <1>2, <1>9
  <2> HIDE DEF failed, to
  <2>2. QED BY <1>4, <1>5, <1>6, <1>7, <2>1, PublishInv
<1>10. QED BY <1>8, <1>9

(* A load's own steps: mail while it fills, and a fence at the end.         *)
LEMMA FenceOfLoad ==
  ASSUME TypeInv, BlockInv, FillInv, ThreadInv, FenceInv, NEW l \in Loads, LoadStep(l)
  PROVE  ThreadInv' /\ FenceInv'
<1>1. CASE UNCHANGED <<fence, pthreads>>
  BY <1>1, FenceUnchanged
<1>2. CASE FillBatch(l)
  <2>1. PICK batch \in BatchesOf(fill.left) : \E lost \in Bad(batch), unsent \in Unsent(workers) :
          \/ thread' = thread
          \/ thread' = Posted(thread, workers \ unsent,
                              [type |-> "add", keys |-> batch \ lost])
    BY <1>2 DEF FillBatch
  <2>2. batch \subseteq Keys
    BY BatchIn DEF FillInv, FillType
  <2>3. /\ UNCHANGED <<barrier, acks, workers, listened, running>>
        /\ barrier \in BarrierType /\ UNION {workers', listened', running'} \subseteq Thread
    BY <1>2 DEF FillBatch, fence, ThreadInv
  <2>4. CASE thread' = thread
    BY <2>3, <2>4, FenceUnchanged, <1>2 DEF FillBatch, pthreads
  <2>5. ASSUME NEW lost, NEW unsent,
               thread' = Posted(thread, workers \ unsent,
                                [type |-> "add", keys |-> batch \ lost])
        PROVE  ThreadInv' /\ FenceInv'
    <3> DEFINE m == [type |-> "add", keys |-> batch \ lost]
               to == workers \ unsent
    <3>1. m \in Message /\ m.type # "barrier" /\ thread' = Posted(thread, to, m)
      BY <2>2, <2>5 DEF Message
    <3> HIDE DEF m, to
    <3>2. thread' \in [Thread -> ThreadType] /\ KnowsAll(thread')
      BY <3>1, PostedKnows
    <3>3. QED BY <2>3, <3>2, FenceKept
  <2>6. QED BY <2>1, <2>4, <2>5
<1>3. ASSUME NEW ended, Fence(l, ended) PROVE ThreadInv' /\ FenceInv'
  <2>1. /\ Publish(load[l].pool, thread, barrier.postFailed)
        /\ UNCHANGED <<acks, workers, listened, running>>
    BY <1>3 DEF Fence
  <2>2. load[l].pool \in SUBSET Thread /\ barrier.postFailed \in BOOLEAN
    BY DEF TypeInv, LoadType, ThreadInv, BarrierType
  <2>3. thread \in [Thread -> ThreadType] /\ KnowsAll(thread)
    BY DEF ThreadInv, FenceInv, KnowsAll
  <2>4. UNION {workers', listened', running'} \subseteq Thread
    BY <2>1 DEF ThreadInv
  <2>5. QED BY <2>1, <2>2, <2>3, <2>4, PublishInv
<1>4. QED
  BY <1>1, <1>2, <1>3, FenceOfInstall
  DEF LoadStep, Reconcile, Clear, Stamp, ReadRows, BootBatch, Booted, SkipSeed, StartSeed,
      Seeded, SeedFails, ScanRows, ScanFails, EndFill, Polled, TimesOut

(* A pthread takes a message, and answers if it is the fence's.            *)
LEMMA FenceOfReceive ==
  ASSUME ThreadInv, FenceInv, NEW t \in Thread, Receive(t)
  PROVE  ThreadInv' /\ FenceInv'
<1> DEFINE th == thread[t]
           m == Head(th.in)
           g == barrier.generation
           answer == [type |-> "ack", generation |-> m.generation,
                      installed |-> th.cache # None]
           new == thread'[t]
<1>1. /\ th \in ThreadType /\ g \in Nat /\ th.in # <<>> /\ th.in \in Seq(Message)
      /\ th.out \in Seq(Answer) /\ th.cache \in (SUBSET Keys) \cup {None}
      /\ Knows(t, th, g, barrier.targets, acks[t]) /\ UNCHANGED <<fence, listened, running>>
  BY DEF ThreadInv, FenceInv, ThreadType, BarrierType, Receive
<1>2. m \in Message /\ Tail(th.in) \in Seq(Message)
  BY <1>1
<1>3. thread \in [Thread -> ThreadType]
  BY DEF ThreadInv
<1>4. ASSUME new \in ThreadType, thread' = [thread EXCEPT ![t] = new],
             Knows(t, new, g, barrier.targets, acks[t])
      PROVE  ThreadInv' /\ FenceInv'
  <2>1. thread' \in [Thread -> ThreadType] /\ KnowsAll(thread')
    <3> HIDE DEF new
    <3>1. QED BY <1>4, OneThread
  <2>2. /\ UNCHANGED <<barrier, acks, workers, listened, running>>
        /\ barrier \in BarrierType /\ UNION {workers', listened', running'} \subseteq Thread
    BY <1>1 DEF fence, ThreadInv
  <2>3. QED BY <2>1, <2>2, FenceKept
<1>5. CASE m.type = "cache"
  <2>1. thread' = [thread EXCEPT ![t] = [th EXCEPT !.in = Tail(th.in), !.cache = m.keys]]
    BY <1>3, <1>5 DEF Receive
  <2>2. m.keys \in SUBSET Keys
    BY <1>2, <1>5 DEF Message
  <2>3. new = [th EXCEPT !.in = Tail(th.in), !.cache = m.keys]
    BY <1>3, <2>1
  <2>4. /\ new \in ThreadType /\ new.in = Tail(th.in) /\ new.out = th.out
        /\ new.cache = m.keys /\ m.keys # None
    BY <1>1, <1>2, <2>2, <2>3, JitCacheAssumption DEF ThreadType
  <2>5. thread' = [thread EXCEPT ![t] = new]
    BY <2>1, <2>3
  <2> HIDE DEF new, th, m, g
  <2>6. QED BY <1>1, <1>4, <2>4, <2>5, KnowsTaken
<1>6. CASE m.type = "add"
  <2> DEFINE cache == IF th.cache = None THEN None ELSE th.cache \cup m.keys
  <2>1. thread' = [thread EXCEPT ![t] = [th EXCEPT !.in = Tail(th.in), !.cache = cache]]
    BY <1>1, <1>3, <1>6 DEF Receive, ThreadType
  <2>2. m.keys \in SUBSET Keys
    BY <1>2, <1>6 DEF Message
  <2>3. cache \in (SUBSET Keys) \cup {None} /\ (th.cache # None => cache # None)
    <3>1. CASE th.cache = None
      BY <3>1
    <3>2. CASE th.cache \in SUBSET Keys
      <4>1. th.cache \cup m.keys \in SUBSET Keys
        BY <2>2, <3>2
      <4>2. cache \in SUBSET Keys
        BY <3>2, <4>1, JitCacheAssumption
      <4>3. QED BY <4>2, JitCacheAssumption
    <3>3. QED BY <1>1, <3>1, <3>2
  <2> HIDE DEF cache
  <2>4. new = [th EXCEPT !.in = Tail(th.in), !.cache = cache]
    BY <1>3, <2>1
  <2>5. /\ new \in ThreadType /\ new.in = Tail(th.in) /\ new.out = th.out
        /\ (th.cache # None => new.cache # None)
    BY <1>1, <1>2, <2>3, <2>4 DEF ThreadType
  <2>6. thread' = [thread EXCEPT ![t] = new]
    BY <2>1, <2>4
  <2> HIDE DEF new, th, m, g
  <2>7. QED BY <1>1, <1>4, <2>5, <2>6, KnowsTaken
<1>7. CASE m.type = "barrier"
  <2>1. thread' = [thread EXCEPT ![t] = [th EXCEPT !.in = Tail(th.in), !.out = Said(t, answer)]]
    BY <1>3, <1>7 DEF Receive
  <2>2. m.generation \in Nat
    BY <1>2, <1>7 DEF Message
  <2>3. /\ answer \in Answer /\ answer.type = "ack" /\ answer.generation = m.generation
        /\ answer.installed = (th.cache # None)
    BY <2>2 DEF Answer
  <2>4. Said(t, answer) \in {th.out, Append(th.out, answer)}
    BY DEF Said
  <2> HIDE DEF answer
  <2>5. Append(th.out, answer) \in Seq(Answer)
    BY <1>1, <2>3
  <2>6. new = [th EXCEPT !.in = Tail(th.in), !.out = Said(t, answer)]
    BY <1>3, <2>1
  <2>7. /\ new \in ThreadType /\ new.in = Tail(th.in) /\ new.cache = th.cache
        /\ new.out = Said(t, answer)
    BY <1>1, <1>2, <2>4, <2>5, <2>6 DEF ThreadType
  <2>8. thread' = [thread EXCEPT ![t] = new]
    BY <2>1, <2>6
  <2> HIDE DEF new, th, m, g
  <2>9. CASE new.out = th.out
    BY <1>1, <1>4, <2>7, <2>8, <2>9, KnowsTaken
  <2>10. CASE new.out = Append(th.out, answer)
    <3>1. m = Head(th.in)
      BY DEF m
    <3>2. Knows(t, new, g, barrier.targets, acks[t])
      BY <1>1, <1>7, <2>3, <2>7, <2>10, <3>1, KnowsAnswered
    <3>3. QED BY <1>4, <2>7, <2>8, <3>2
  <2>11. QED BY <2>4, <2>7, <2>9, <2>10
<1>8. m.type \in {"cache", "add", "barrier"}
  BY <1>2 DEF Message
<1>9. QED BY <1>5, <1>6, <1>7, <1>8

(* A pthread that misses a block says so.                                  *)
LEMMA FenceOfMiss ==
  ASSUME ThreadInv, FenceInv, NEW t \in Thread, NEW k \in Keys, Miss(t, k)
  PROVE  ThreadInv' /\ FenceInv'
<1> DEFINE th == thread[t]
           said == [type |-> "new-compile", key |-> k]
           new == [th EXCEPT !.cache = th.cache \cup {k}, !.out = Said(t, said)]
<1>0. /\ th \in ThreadType /\ barrier.generation \in Nat
      /\ Knows(t, th, barrier.generation, barrier.targets, acks[t])
  BY DEF ThreadInv, FenceInv, BarrierType
<1>1. /\ th \in ThreadType /\ barrier.generation \in Nat /\ th.in \in Seq(Message)
      /\ th.out \in Seq(Answer) /\ th.cache \in SUBSET Keys
      /\ Knows(t, th, barrier.generation, barrier.targets, acks[t])
  BY <1>0 DEF ThreadType, Miss
<1>2. thread' = [thread EXCEPT ![t] = new]
  BY <1>1 DEF Miss, ThreadInv, ThreadType
<1>3. said \in Answer /\ said.type # "ack"
  BY DEF Answer
<1>4. Said(t, said) \in {th.out, Append(th.out, said)}
  BY DEF Said
<1> HIDE DEF said
<1>5. Append(th.out, said) \in Seq(Answer)
  BY <1>1, <1>3
<1>6. th.cache \cup {k} \in SUBSET Keys /\ th.cache \cup {k} # None
  BY <1>1, JitCacheAssumption
<1>7. /\ new \in ThreadType /\ new.in = th.in /\ new.out = Said(t, said)
      /\ new.cache = th.cache \cup {k}
  BY <1>1, <1>4, <1>5, <1>6 DEF ThreadType
<1> HIDE DEF new, th
<1>8. Knows(t, new, barrier.generation, barrier.targets, acks[t])
  BY <1>1, <1>3, <1>4, <1>6, <1>7, KnowsSaid
<1>9. thread' \in [Thread -> ThreadType] /\ KnowsAll(thread')
  BY <1>2, <1>7, <1>8, OneThread
<1>10. /\ UNCHANGED <<barrier, acks, workers, listened, running>>
       /\ barrier \in BarrierType /\ UNION {workers', listened', running'} \subseteq Thread
  BY DEF Miss, fence, ThreadInv
<1>11. QED BY <1>9, <1>10, FenceKept

(* There are finitely many pthreads.                                       *)
LEMMA ThreadFinite == IsFiniteSet(Thread)
<1>1. Threads \in Int
  BY JitCacheAssumption
<1>2. IsFiniteSet(Loads) /\ IsFiniteSet(1 .. Threads)
  <2>1. 1 \in Int /\ 2 \in Int
    OBVIOUS
  <2>2. IsFiniteSet(1 .. 2)
    BY <2>1, FS_Interval
  <2>3. IsFiniteSet(1 .. Threads)
    BY <1>1, <2>1, FS_Interval
  <2>4. QED BY <2>2, <2>3 DEF Loads
<1>3. IsFiniteSet(Loads \X (1 .. Threads))
  BY <1>2, FS_Product
<1>4. QED BY <1>3 DEF Thread

(* A tab that was just opened.                                             *)
NewPthreads ==
  /\ workers = {} /\ listened = {} /\ running = {} /\ barrier = NewBarrier
  /\ acks = [t \in Thread |-> None] /\ thread = [t \in Thread |-> NewThread]

(* Then nothing is sent, and nothing is acknowledged.                       *)
LEMMA NewFence == NewPthreads => ThreadInv /\ FenceInv
<1> SUFFICES ASSUME NewPthreads PROVE ThreadInv /\ FenceInv
  OBVIOUS
<1>0. /\ workers = {} /\ listened = {} /\ running = {} /\ barrier = NewBarrier
      /\ acks = [t \in Thread |-> None] /\ thread = [t \in Thread |-> NewThread]
  BY DEF NewPthreads
<1>1. /\ barrier \in BarrierType /\ barrier.generation = 0 /\ barrier.acked = 0
      /\ barrier.targets = {}
  BY <1>0 DEF NewBarrier, BarrierType
<1>2. NewThread \in ThreadType /\ Len(NewThread.in) = 0 /\ Len(NewThread.out) = 0
  BY DEF NewThread, ThreadType
<1>3. ThreadInv
  BY <1>0, <1>1, <1>2 DEF ThreadInv
<1>4. None # 0
  BY JitCacheAssumption
<1>5. Acked = {}
  BY <1>0, <1>1, <1>4 DEF Acked
<1>6. Cardinality(Acked) = 0
  BY <1>5, FS_EmptySet
<1>7. \A t \in Thread : Knows(t, thread[t], 0, {}, acks[t])
  BY <1>0, <1>2, <1>4 DEF Knows
<1>8. QED BY <1>1, <1>3, <1>6, <1>7 DEF FenceInv

(* The worker hears a pthread, and counts what acknowledges its fence.     *)
LEMMA HeardThread ==
  ASSUME ThreadInv, FenceInv, NEW t \in Thread, NEW type, Hears(t, type)
  PROVE  LET m == Head(thread[t].out)
             g == barrier.generation
         IN  /\ m \in Answer /\ m.type = type
             /\ m.type = "ack" => m.generation \in 1 .. g
             /\ thread' \in [Thread -> ThreadType] /\ KnowsAll(thread')
             /\ Answers(m, g) /\ m.installed => Knows(t, thread'[t], g, barrier.targets, g)
             /\ \A u \in Thread : u # t => thread'[u] = thread[u]
<1> DEFINE th == thread[t]
           m == Head(th.out)
           g == barrier.generation
           new == [th EXCEPT !.out = Tail(th.out)]
<1>1. /\ th \in ThreadType /\ g \in Nat /\ th.out \in Seq(Answer) /\ th.out # <<>>
      /\ Knows(t, th, g, barrier.targets, acks[t]) /\ m.type = type
  BY DEF ThreadInv, FenceInv, ThreadType, BarrierType, Hears
<1>2. m \in Answer /\ Tail(th.out) \in Seq(Answer) /\ 1 \in 1 .. Len(th.out) /\ m = th.out[1]
  BY <1>1
<1>3. m.type = "ack" => m.generation \in 1 .. g
  BY <1>1, <1>2 DEF Knows
<1>4. thread' = [thread EXCEPT ![t] = new] /\ thread \in [Thread -> ThreadType]
  BY DEF Hears, ThreadInv
<1>5. /\ new \in ThreadType /\ new.in = th.in /\ new.cache = th.cache
      /\ new.out = Tail(th.out)
  BY <1>1, <1>2 DEF ThreadType
<1>6. thread'[t] = new /\ \A u \in Thread : u # t => thread'[u] = thread[u]
  BY <1>4
<1>7. /\ Knows(t, new, g, barrier.targets, acks[t])
      /\ Answers(m, g) /\ m.installed => Knows(t, new, g, barrier.targets, g)
  <2> HIDE DEF new, th, g
  <2>1. QED BY <1>1, <1>5, KnowsHeard
<1>8. thread' \in [Thread -> ThreadType] /\ KnowsAll(thread')
  <2> HIDE DEF new
  <2>1. QED BY <1>4, <1>5, <1>7, OneThread
<1>9. QED BY <1>1, <1>2, <1>3, <1>6, <1>7, <1>8

(* An acknowledgement is counted at most once for each pthread.             *)
LEMMA FenceOfHeard ==
  ASSUME ThreadInv, FenceInv, NEW t \in Thread, HandleAck(t) \/ HandleNewCompile(t)
  PROVE  ThreadInv' /\ FenceInv'
<1> DEFINE m == Head(thread[t].out)
           g == barrier.generation
<1>1. /\ UNCHANGED <<workers, listened, running>> /\ barrier \in BarrierType
      /\ UNION {workers', listened', running'} \subseteq Thread
  BY DEF HandleAck, HandleNewCompile, fence, ThreadInv
<1>2. CASE HandleNewCompile(t)
  <2>1. Hears(t, "new-compile") /\ UNCHANGED <<barrier, acks>>
    BY <1>2 DEF HandleNewCompile, fence
  <2>2. thread' \in [Thread -> ThreadType] /\ KnowsAll(thread')
    BY <2>1, HeardThread
  <2>3. QED BY <1>1, <2>1, <2>2, FenceKept
<1>3. CASE HandleAck(t)
  <2>1. Hears(t, "ack")
    BY <1>3 DEF HandleAck
  <2>2. /\ m \in Answer /\ m.type = "ack" /\ m.generation \in 1 .. g
        /\ thread' \in [Thread -> ThreadType] /\ KnowsAll(thread')
        /\ Answers(m, g) /\ m.installed => Knows(t, thread'[t], g, barrier.targets, g)
        /\ \A u \in Thread : u # t => thread'[u] = thread[u]
    BY <2>1, HeardThread
  <2>3. \/ UNCHANGED <<barrier, acks>>
        \/ barrier' = [barrier EXCEPT !.invalid = TRUE] /\ UNCHANGED acks
        \/ /\ m.generation = g /\ acks[t] # g /\ m.installed
           /\ acks' = [acks EXCEPT ![t] = m.generation]
           /\ barrier' = [barrier EXCEPT !.acked = barrier.acked + 1]
    BY <1>3 DEF HandleAck, Counts
  <2>4. CASE \/ UNCHANGED <<barrier, acks>>
             \/ barrier' = [barrier EXCEPT !.invalid = TRUE] /\ UNCHANGED acks
    <3>1. /\ barrier' \in BarrierType /\ barrier'.generation = g /\ acks' = acks
          /\ barrier'.targets = barrier.targets /\ barrier'.acked = barrier.acked
      BY <1>1, <2>4 DEF BarrierType
    <3>2. QED BY <1>1, <2>2, <3>1, FenceKept
  <2>5. CASE /\ m.generation = g /\ acks[t] # g /\ m.installed
             /\ acks' = [acks EXCEPT ![t] = m.generation]
             /\ barrier' = [barrier EXCEPT !.acked = barrier.acked + 1]
    <3>1. /\ barrier' \in BarrierType /\ barrier'.generation = g
          /\ barrier'.targets = barrier.targets /\ barrier'.acked = barrier.acked + 1
      BY <1>1, <2>5 DEF BarrierType
    <3>2. /\ acks \in [Thread -> (1 .. g) \cup {None}] /\ acks' = [acks EXCEPT ![t] = g]
          /\ acks' \in [Thread -> (1 .. g) \cup {None}]
      BY <2>2, <2>5 DEF ThreadInv
    <3>3. ThreadInv'
      BY <1>1, <2>2, <3>1, <3>2 DEF ThreadInv
    <3>4. ASSUME NEW u \in Thread
          PROVE  Knows(u, thread'[u], g, barrier.targets, acks'[u])
      <4>1. CASE u = t
        BY <2>2, <2>5, <3>2, <4>1 DEF Answers
      <4>2. CASE u # t
        BY <2>2, <3>2, <4>2 DEF KnowsAll
      <4>3. QED BY <4>1, <4>2
    <3>5. Acked' = Acked \cup {t} /\ t \notin Acked
      BY <2>5, <3>1, <3>2 DEF Acked
    <3>6. IsFiniteSet(Acked)
      BY ThreadFinite, FS_Subset DEF Acked
    <3>7. Cardinality(Acked') = Cardinality(Acked) + 1
      BY <3>5, <3>6, FS_AddElement
    <3>8. FenceInv'
      BY <3>1, <3>4, <3>7 DEF FenceInv
    <3>9. QED BY <3>3, <3>8
  <2>6. QED BY <2>3, <2>4, <2>5
<1>4. QED BY <1>2, <1>3

(* All other steps.                                                         *)
LEMMA FenceOfOthers ==
  ASSUME ThreadInv, FenceInv, NoLoadStep
  PROVE  ThreadInv' /\ FenceInv'
<1> USE DEF NoLoadStep
<1>1. CASE UNCHANGED <<fence, pthreads>>
  BY <1>1, FenceUnchanged
<1>2. ASSUME NEW t \in Thread, Run(t) PROVE ThreadInv' /\ FenceInv'
  <2>1. running' = running \cup {t} /\ UNCHANGED <<workers, barrier, acks, thread, listened>>
    BY <1>2 DEF Run, fence
  <2>2. Acked' = Acked
    BY <2>1 DEF Acked
  <2>3. QED BY <2>1, <2>2 DEF ThreadInv, FenceInv
<1>3. CASE CloseTab
  <2>1. NewPthreads'
    BY <1>3 DEF CloseTab, NewPthreads
  <2>2. (NewPthreads => ThreadInv /\ FenceInv)'
    BY NewFence, PTL
  <2>3. QED BY <2>1, <2>2
<1>4. ASSUME NEW t \in Thread, ThreadStep(t) PROVE ThreadInv' /\ FenceInv'
  BY <1>2, <1>4, FenceOfReceive, FenceOfMiss, FenceOfHeard DEF ThreadStep
<1>5. QED
  BY <1>1, <1>3, <1>4
  DEF StartLoad, vars, volatile, BlockStep, Verified, Compiled, StartPut, Put

-----------------------------------------------------------------------------
(* All of it, and what a fence's end means.                                *)
LEMMA FInit == Init => FInv
<1> SUFFICES ASSUME Init PROVE FInv
  OBVIOUS
<1>1. TypeInv
  BY InitInv DEF IInv
<1>2. BlockInv /\ bootDone \in BOOLEAN /\ runtime \in 0 .. 2
  <2>1. BlockInv /\ runtime \in 0 .. 2
    BY DEF Init, BlockInv
  <2>2. bootDone \in BOOLEAN
    BY DEF Init
  <2>3. QED BY <2>1, <2>2
<1>3. FillInv
  BY DEF Init, FillInv, FillType, NewFill, NewLoad, At
<1>4. NewPthreads
  BY DEF Init, NewPthreads
<1>5. QED BY <1>1, <1>2, <1>3, <1>4, NewFence DEF FInv

(* The two variables that nothing else depends on.                          *)
LEMMA BootAndRuntime ==
  ASSUME bootDone \in BOOLEAN, runtime \in 0 .. 2, Next
  PROVE  bootDone' \in BOOLEAN /\ runtime' \in 0 .. 2
<1>1. CASE UNCHANGED <<bootDone, runtime>>
  BY <1>1
<1>2. ASSUME NEW l \in Loads, LoadStep(l) PROVE bootDone' \in BOOLEAN /\ runtime' \in 0 .. 2
  <2>1. CASE UNCHANGED <<bootDone, fence>>
    BY <1>1, <2>1 DEF fence
  <2>2. CASE Reconcile(l) \/ Booted(l) \/ SkipSeed(l) \/ SeedFails(l)
    <3>1. runtime' = runtime
      BY <2>2 DEF Reconcile, Booted, SkipSeed, SeedFails, fence
    <3>2. CASE Reconcile(l)
      BY <3>1, <3>2 DEF Reconcile
    <3>3. CASE Booted(l)
      BY <3>1, <3>3 DEF Booted
    <3>4. CASE SkipSeed(l)
      BY <3>1, <3>4 DEF SkipSeed
    <3>5. CASE SeedFails(l)
      BY <3>1, <3>5 DEF SeedFails
    <3>6. QED BY <2>2, <3>2, <3>3, <3>4, <3>5
  <2>3. CASE Install(l)
    <3>1. bootDone' = bootDone /\ runtime' = l
      BY <2>3 DEF Install
    <3>2. QED BY <3>1 DEF Loads
  <2>4. CASE ScanFails(l) \/ EndFill(l)
    BY <1>1, <2>4 DEF ScanFails, EndFill, Fence
  <2>5. QED
    BY <1>2, <2>1, <2>2, <2>3, <2>4
    DEF LoadStep, Clear, Stamp, ReadRows, BootBatch, StartSeed, Seeded, ScanRows,
        FillBatch, Polled, TimesOut
<1>3. CASE CloseTab
  <2>1. bootDone' = FALSE /\ runtime' = 0
    BY <1>3 DEF CloseTab
  <2>2. bootDone' \in BOOLEAN
    BY <2>1
  <2>3. runtime' \in 0 .. 2
    BY <2>1
  <2>4. QED BY <2>2, <2>3
<1>4. ASSUME NEW t \in Thread, ThreadStep(t) PROVE UNCHANGED <<bootDone, runtime>>
  BY <1>4 DEF ThreadStep, Receive, Run, HandleAck, HandleNewCompile, Miss, fence
<1>5. ASSUME NEW k \in Keys, BlockStep(k) PROVE UNCHANGED <<bootDone, runtime>>
  BY <1>5 DEF BlockStep, Verified, Compiled, StartPut, Put, fence
<1>6. ASSUME NEW l \in Loads, StartLoad(l) PROVE UNCHANGED <<bootDone, runtime>>
  BY <1>6 DEF StartLoad, fence
<1>7. QED
  BY <1>1, <1>2, <1>3, <1>4, <1>5, <1>6 DEF Next

(* Every step keeps all of it.                                              *)
LEMMA FNext == IInv /\ FInv /\ [Next]_vars => FInv'
<1> SUFFICES ASSUME IInv, FInv, [Next]_vars PROVE FInv'
  OBVIOUS
<1>1. /\ bootDone \in BOOLEAN /\ runtime \in 0 .. 2
      /\ TypeInv /\ BlockInv /\ FillInv /\ ThreadInv /\ FenceInv
  BY DEF FInv
<1>2. TypeInv'
  BY NextInv DEF IInv
<1>3. ASSUME NEW l \in Loads, LoadStep(l) PROVE BlockInv' /\ FillInv' /\ ThreadInv' /\ FenceInv'
  BY <1>1, <1>3, BlocksOfLoad, FillOfLoad, FenceOfLoad
<1>4. ASSUME NoLoadStep PROVE BlockInv' /\ FillInv' /\ ThreadInv' /\ FenceInv'
  BY <1>1, <1>4, BlocksOfOthers, FillOfOthers, FenceOfOthers
<1>5. BlockInv' /\ FillInv' /\ ThreadInv' /\ FenceInv'
  BY <1>3, <1>4 DEF Next, NoLoadStep
<1>6. bootDone' \in BOOLEAN /\ runtime' \in 0 .. 2
  <2>1. CASE Next
    BY <1>1, <2>1, BootAndRuntime
  <2>2. CASE UNCHANGED vars
    BY <1>1, <2>2 DEF vars, volatile, fence
  <2>3. QED BY <2>1, <2>2
<1>7. QED BY <1>2, <1>5, <1>6 DEF FInv

(* A fence ends when it has as many acknowledgements as targets: they are  *)
(* those of its targets.                                                   *)
LEMMA FenceEnds ==
  ASSUME ThreadInv, FenceInv, barrier.acked = Cardinality(barrier.targets),
         NEW t \in barrier.targets
  PROVE  /\ thread[t].cache # None
         /\ \A i \in 1 .. Len(thread[t].in) :
              thread[t].in[i] # [type |-> "barrier", generation |-> barrier.generation]
<1> DEFINE g == barrier.generation
<1>1. barrier.targets \in SUBSET Thread
  BY DEF ThreadInv, BarrierType
<1>2. \A u \in Thread : Knows(u, thread[u], g, barrier.targets, acks[u])
  BY DEF FenceInv
<1>3. Acked \in SUBSET barrier.targets
  BY <1>2 DEF Acked, Knows
<1>4. IsFiniteSet(barrier.targets)
  BY <1>1, ThreadFinite, FS_Subset
<1>5. Acked = barrier.targets
  BY <1>3, <1>4, FS_Subset DEF FenceInv
<1>6. t \in Thread /\ acks[t] = g
  BY <1>5 DEF Acked
<1>7. Knows(t, thread[t], g, barrier.targets, acks[t])
  BY <1>2, <1>6
<1>8. QED BY <1>6, <1>7 DEF Knows, Fences

(* Only looking at the fence makes a load fenced.                           *)
LEMMA FenceStep ==
  ASSUME FInv, [Next]_vars, NEW l \in Loads, ~load[l].fenced, load'[l].fenced
  PROVE  Polled(l)
<1>1. load \in [Loads -> LoadType] /\ load[l] \in LoadType
  BY DEF FInv, TypeInv
<1>2. ASSUME NEW m \in Loads, LoadStep(m), ~Polled(m) PROVE load'[l].fenced = load[l].fenced
  <2>1. CASE Reconcile(m)
    BY <1>1, <2>1 DEF Reconcile, LoadType
  <2>2. CASE Clear(m)
    BY <1>1, <2>2 DEF Clear, Goes, LoadType
  <2>3. CASE \E part \in Parts : Stamp(m, part)
    BY <1>1, <2>3 DEF Stamp, LoadType
  <2>4. CASE ReadRows(m)
    BY <1>1, <2>4 DEF ReadRows, LoadType
  <2>5. CASE BootBatch(m)
    BY <1>1, <2>5 DEF BootBatch, LoadType
  <2>6. CASE Booted(m)
    BY <1>1, <2>6 DEF Booted, LoadType
  <2>7. CASE SkipSeed(m)
    BY <1>1, <2>7 DEF SkipSeed, Goes, LoadType
  <2>8. CASE StartSeed(m)
    BY <1>1, <2>8 DEF StartSeed, LoadType
  <2>9. CASE Seeded(m)
    BY <1>1, <2>9 DEF Seeded, LoadType
  <2>10. CASE SeedFails(m)
    BY <1>1, <2>10 DEF SeedFails, LoadType
  <2>11. CASE Install(m)
    BY <1>1, <2>11 DEF Install, LoadType
  <2>12. CASE ScanRows(m)
    BY <1>1, <2>12 DEF ScanRows, LoadType
  <2>13. CASE ScanFails(m)
    BY <1>1, <2>13 DEF ScanFails, Fence, Goes, LoadType
  <2>14. CASE FillBatch(m)
    BY <1>1, <2>14 DEF FillBatch, LoadType
  <2>15. CASE EndFill(m)
    BY <1>1, <2>15 DEF EndFill, Fence, Goes, LoadType
  <2>16. CASE TimesOut(m)
    BY <1>1, <2>16 DEF TimesOut, Goes, LoadType
  <2>17. QED
    BY <1>2, <2>1, <2>2, <2>3, <2>4, <2>5, <2>6, <2>7, <2>8,
       <2>9, <2>10, <2>11, <2>12, <2>13, <2>14, <2>15, <2>16 DEF LoadStep
<1>3. ASSUME NEW m \in Loads, Polled(m), m # l PROVE load'[l].fenced = load[l].fenced
  BY <1>1, <1>3 DEF Polled
<1>4. ASSUME NEW m \in Loads, StartLoad(m) PROVE load'[l].fenced = load[l].fenced
  BY <1>1, <1>4 DEF StartLoad, Goes, LoadType
<1>5. CASE CloseTab
  BY <1>5 DEF CloseTab, NewLoad
<1>6. ASSUME load' = load PROVE FALSE
  BY <1>6
<1>7. QED
  BY <1>2, <1>3, <1>4, <1>5, <1>6
  DEF Next, vars, volatile, BlockStep, Verified, Compiled, StartPut, Put, ThreadStep,
      Receive, Run, HandleAck, HandleNewCompile, Miss

-----------------------------------------------------------------------------
(* What a pthread has been given.  With one load, the map comes first, the *)
(* blocks of the lazy fill follow, and the fence is last: whoever has      *)
(* acknowledged it has taken all that was sent.                            *)
Carries(m, k) == m.type \in {"cache", "add"} /\ k \in m.keys
Holds(th, k) ==
  \/ th.cache # None /\ k \in th.cache
  \/ \E i \in 1 .. Len(th.in) : Carries(th.in[i], k)
Answered(th, a) == a # None \/ \E i \in 1 .. Len(th.out) : th.out[i].type = "ack"

Gets(th, a, keys) ==
  /\ th.cache = None => th.in # <<>> /\ th.in[1].type = "cache"
  /\ \A i \in 1 .. Len(th.in) : th.in[i].type = "cache" => i = 1 /\ th.cache = None
  /\ \A i \in 1 .. Len(th.in) : th.in[i].type = "barrier" => i = Len(th.in)
  /\ \A k \in keys : Holds(th, k)
  /\ Answered(th, a) => Len(th.in) = 0

(* Until the load installs its module nothing is sent, and what came from  *)
(* the store is in the map.                                                *)
Installed == load[1].pc \in {"fill", "wait", "loaded"}
BeforeInstall ==
  /\ NewPthreads
  /\ verifying = {} /\ compiling = {} /\ shared \subseteq modules
  /\ fill.at = "not-started" /\ load[1].pool = {}
AfterInstall ==
  /\ workers = load[1].pool /\ fill.at # "not-started"
  /\ barrier.generation = IF load[1].pc = "fill" THEN 0 ELSE 1
  /\ \A t \in Thread \ workers : thread[t] = NewThread /\ acks[t] = None
  /\ fill.failed \/ barrier.postFailed \/ \A t \in workers : Gets(thread[t], acks[t], shared)

DInv ==
  setup.loads = 1 =>
    /\ load[2] = NewLoad
    /\ IF Installed THEN AfterInstall ELSE BeforeInstall

(* Mail while nothing has been acknowledged, and no fence sent.            *)
LEMMA GetsSent ==
  ASSUME NEW th \in ThreadType, NEW keys, NEW more, NEW m \in Message, m.type # "cache",
         Gets(th, None, keys), ~Answered(th, None),
         \A i \in 1 .. Len(th.in) : th.in[i].type # "barrier",
         \A k \in more : k \in keys \/ Carries(m, k)
  PROVE  Gets([th EXCEPT !.in = Append(@, m)], None, more)
<1> DEFINE new == [th EXCEPT !.in = Append(@, m)]
<1>0. th.in \in Seq(Message) /\ Append(th.in, m) \in Seq(Message)
  BY DEF ThreadType
<1>1. new.in = Append(th.in, m) /\ new.out = th.out /\ new.cache = th.cache
  BY <1>0 DEF ThreadType
<1>2. /\ Len(new.in) = Len(th.in) + 1 /\ new.in[Len(th.in) + 1] = m /\ Len(th.in) \in Nat
      /\ \A i \in 1 .. Len(th.in) : new.in[i] = th.in[i]
  BY <1>0, <1>1
<1> HIDE DEF new
<1>3. new.cache = None => new.in # <<>> /\ new.in[1].type = "cache"
  <2>1. th.cache = None => Len(th.in) >= 1 /\ th.in[1].type = "cache"
    BY <1>0 DEF Gets
  <2>2. QED BY <1>0, <1>1, <1>2, <2>1
<1>4. \A i \in 1 .. Len(new.in) : new.in[i].type = "cache" => i = 1 /\ new.cache = None
  BY <1>1, <1>2 DEF Gets
<1>5. \A i \in 1 .. Len(new.in) : new.in[i].type = "barrier" => i = Len(new.in)
  BY <1>1, <1>2
<1>6. ASSUME NEW k \in more PROVE Holds(new, k)
  <2>1. CASE Carries(m, k)
    BY <1>2, <2>1 DEF Holds
  <2>2. CASE k \in keys
    <3>1. Holds(th, k)
      BY <2>2 DEF Gets
    <3>2. QED BY <1>1, <1>2, <3>1 DEF Holds
  <2>3. QED BY <2>1, <2>2
<1>7. ~Answered(new, None)
  BY <1>1 DEF Answered
<1>8. Gets(new, None, more)
  BY <1>3, <1>4, <1>5, <1>6, <1>7 DEF Gets
<1>9. QED BY <1>8 DEF new

(* The map, sent to a pthread that has nothing yet.                        *)
LEMMA GetsMap ==
  ASSUME NEW keys \in SUBSET Keys, NEW shown \in SUBSET keys, NEW m,
         m = [type |-> "cache", keys |-> keys]
  PROVE  Gets([NewThread EXCEPT !.in = Append(@, m)], None, shown)
<1> DEFINE new == [NewThread EXCEPT !.in = Append(@, m)]
<1>1. new.in = <<m>> /\ new.out = <<>> /\ new.cache = None
  BY DEF NewThread
<1>2. Len(new.in) = 1 /\ new.in[1] = m /\ m.type = "cache" /\ Len(new.out) = 0
      /\ m.keys = keys /\ new.in # <<>>
  BY <1>1
<1> HIDE DEF new
<1>3. \A k \in shown : Holds(new, k)
  BY <1>2 DEF Holds, Carries
<1>4. ~Answered(new, None)
  BY <1>2 DEF Answered
<1>5. Gets(new, None, shown)
  BY <1>1, <1>2, <1>3, <1>4 DEF Gets
<1>6. QED BY <1>5 DEF new

(* Taking the head of the mail, whatever it adds to the cache.             *)
LEMMA GetsRest ==
  ASSUME NEW th \in ThreadType, NEW new, NEW a, NEW keys, Gets(th, a, keys), th.in # <<>>,
         new.in = Tail(th.in), new.out = th.out, new.cache # None,
         \A k : th.cache # None /\ k \in th.cache => k \in new.cache,
         \A k : Carries(th.in[1], k) => k \in new.cache
  PROVE  Gets(new, a, keys)
<1>1. th.in \in Seq(Message)
  BY DEF ThreadType
<1>2. /\ Len(new.in) = Len(th.in) - 1 /\ Len(th.in) \in Nat /\ Len(th.in) >= 1
      /\ \A i \in 1 .. Len(new.in) : new.in[i] = th.in[i + 1] /\ i + 1 \in 2 .. Len(th.in)
  BY <1>1
<1>3. /\ \A i \in 2 .. Len(th.in) : th.in[i].type # "cache"
      /\ \A i \in 1 .. Len(th.in) : th.in[i].type = "barrier" => i = Len(th.in)
      /\ \A k \in keys : Holds(th, k)
      /\ ~Answered(th, a)
  BY <1>2 DEF Gets
<1>4. \A i \in 1 .. Len(new.in) : new.in[i].type # "cache"
  BY <1>2, <1>3
<1>5. \A i \in 1 .. Len(new.in) : new.in[i].type = "barrier" => i = Len(new.in)
  BY <1>2, <1>3
<1>6. ASSUME NEW k \in keys PROVE Holds(new, k)
  <2>1. CASE th.cache # None /\ k \in th.cache
    BY <2>1 DEF Holds
  <2>2. ASSUME NEW i \in 1 .. Len(th.in), Carries(th.in[i], k) PROVE Holds(new, k)
    <3>1. CASE i = 1
      BY <2>2, <3>1 DEF Holds
    <3>2. CASE i # 1
      <4>1. i - 1 \in 1 .. Len(new.in) /\ new.in[i - 1] = th.in[i]
        BY <1>2, <2>2, <3>2
      <4>2. QED BY <2>2, <4>1 DEF Holds
    <3>3. QED BY <3>1, <3>2
  <2>3. QED BY <1>3, <2>1, <2>2 DEF Holds
<1>7. ~Answered(new, a)
  BY <1>3 DEF Answered
<1>8. QED BY <1>4, <1>5, <1>6, <1>7 DEF Gets

(* Having taken all there was.                                             *)
LEMMA GetsAll ==
  ASSUME NEW th, NEW a, NEW keys, Len(th.in) = 0, th.cache # None,
         \A k \in keys : k \in th.cache
  PROVE  Gets(th, a, keys)
  BY DEF Gets, Holds

(* Leaving the mail where it is.                                           *)
LEMMA GetsKept ==
  ASSUME NEW th, NEW new, NEW a, NEW b, NEW keys, Gets(th, a, keys),
         new.in = th.in, new.cache = None <=> th.cache = None,
         \A k : th.cache # None /\ k \in th.cache => k \in new.cache,
         Answered(new, b) => Answered(th, a)
  PROVE  Gets(new, b, keys)
<1>1. \A k : Holds(th, k) => Holds(new, k)
  BY DEF Holds
<1>2. QED BY <1>1 DEF Gets

(* A pthread takes what it was sent.                                       *)
LEMMA GetsTaken ==
  ASSUME ThreadInv, NEW t \in Thread, NEW a, NEW keys, Gets(thread[t], a, keys), Receive(t)
  PROVE  Gets(thread'[t], a, keys)
<1> DEFINE th == thread[t]
           m == th.in[1]
           new == thread'[t]
<1>1. /\ th \in ThreadType /\ th.in # <<>> /\ th.in \in Seq(Message) /\ m = Head(th.in)
      /\ th.out \in Seq(Answer) /\ th.cache \in (SUBSET Keys) \cup {None}
      /\ thread \in [Thread -> ThreadType]
  BY DEF ThreadInv, ThreadType, Receive
<1>2. m \in Message /\ m.type \in {"cache", "add", "barrier"}
  BY <1>1 DEF Message
<1>3. m.type = "cache" \/ m.type = "add" => m.keys \in SUBSET Keys
  BY <1>2 DEF Message
<1>4. m.type = "cache" <=> th.cache = None
  <2>1. 1 \in 1 .. Len(th.in)
    BY <1>1
  <2>2. QED BY <2>1 DEF Gets
<1>7. CASE m.type = "cache"
  <2>1. thread' = [thread EXCEPT ![t] = [th EXCEPT !.in = Tail(th.in), !.cache = m.keys]]
    BY <1>1, <1>7 DEF Receive
  <2>2. new = [th EXCEPT !.in = Tail(th.in), !.cache = m.keys]
    BY <1>1, <2>1
  <2>3. new.in = Tail(th.in) /\ new.out = th.out /\ new.cache = m.keys
    BY <1>1, <2>2 DEF ThreadType
  <2>4. new.cache # None
    BY <1>3, <1>7, <2>3, JitCacheAssumption
  <2>5. \A k : Carries(m, k) => k \in new.cache
    BY <2>3 DEF Carries
  <2>6. \A k : th.cache # None /\ k \in th.cache => k \in new.cache
    BY <1>4, <1>7
  <2>7. QED BY <1>1, <2>3, <2>4, <2>5, <2>6, GetsRest
<1>8. CASE m.type = "add"
  <2> DEFINE cache == IF th.cache = None THEN None ELSE th.cache \cup m.keys
  <2>1. thread' = [thread EXCEPT ![t] = [th EXCEPT !.in = Tail(th.in), !.cache = cache]]
    BY <1>1, <1>8 DEF Receive, ThreadType
  <2>2. new = [th EXCEPT !.in = Tail(th.in), !.cache = cache]
    BY <1>1, <2>1
  <2>3. new.in = Tail(th.in) /\ new.out = th.out /\ new.cache = cache
    BY <1>1, <2>2 DEF ThreadType
  <2>4. th.cache # None /\ th.cache \in SUBSET Keys /\ new.cache = th.cache \cup m.keys
    BY <1>1, <1>4, <1>8, <2>3
  <2>5. new.cache # None
    <3>1. th.cache \cup m.keys \in SUBSET Keys
      BY <1>3, <1>8, <2>4
    <3>2. QED BY <2>4, <3>1, JitCacheAssumption
  <2>6. /\ \A k : th.cache # None /\ k \in th.cache => k \in new.cache
        /\ \A k : Carries(m, k) => k \in new.cache
    BY <2>4 DEF Carries
  <2>7. QED BY <1>1, <2>3, <2>5, <2>6, GetsRest
<1>9. CASE m.type = "barrier"
  <2>1. /\ Len(th.in) = 1 /\ th.cache # None
        /\ \A k \in keys : Holds(th, k)
    <3>1. 1 \in 1 .. Len(th.in) /\ m.type # "cache"
      BY <1>1, <1>9
    <3>2. QED BY <1>4, <1>9, <3>1 DEF Gets
  <2>2. new.in = Tail(th.in) /\ new.cache = th.cache
    BY <1>1, <1>9 DEF Receive, ThreadType
  <2>3. Len(Tail(th.in)) = 0
    <3> HIDE DEF th
    <3>1. QED BY <1>1, <2>1
  <2>4. ASSUME NEW k \in keys PROVE k \in th.cache
    <3>1. ~Carries(m, k)
      BY <1>9 DEF Carries
    <3>2. QED BY <2>1, <3>1 DEF Holds
  <2>5. /\ Len(new.in) = 0 /\ new.cache # None
        /\ \A k \in keys : k \in new.cache
    BY <2>1, <2>2, <2>3, <2>4
  <2>6. QED BY <2>5, GetsAll
<1>10. QED BY <1>2, <1>7, <1>8, <1>9

(* It compiles a block of its own, and says so.                            *)
LEMMA GetsMissed ==
  ASSUME ThreadInv, NEW t \in Thread, NEW k \in Keys, NEW a, NEW keys,
         Gets(thread[t], a, keys), Miss(t, k)
  PROVE  Gets(thread'[t], a, keys)
<1> DEFINE th == thread[t]
           new == thread'[t]
           said == Said(t, [type |-> "new-compile", key |-> k])
           cache == th.cache \cup {k}
<1>1. /\ th \in ThreadType /\ thread \in [Thread -> ThreadType] /\ th.cache # None
      /\ th.out \in Seq(Answer) /\ th.cache \in SUBSET Keys
  BY DEF ThreadInv, ThreadType, Miss
<1>2. said = th.out \/ said = Append(th.out, [type |-> "new-compile", key |-> k])
  BY DEF Said
<1>3. \A i \in 1 .. Len(said) : said[i].type = "ack" =>
           i \in 1 .. Len(th.out) /\ th.out[i].type = "ack"
  <2>1. CASE said = th.out
    BY <2>1
  <2>2. CASE said = Append(th.out, [type |-> "new-compile", key |-> k])
    <3> HIDE DEF said, th
    <3>1. QED BY <1>1, <2>2
  <2>3. QED BY <1>2, <2>1, <2>2
<1> HIDE DEF said, cache
<1>4. thread' = [thread EXCEPT ![t] = [th EXCEPT !.cache = cache, !.out = said]]
  BY <1>1 DEF Miss, said, cache, ThreadType
<1>5. new = [th EXCEPT !.cache = cache, !.out = said]
  BY <1>1, <1>4
<1>6. new.in = th.in /\ new.cache = cache /\ new.out = said
  BY <1>1, <1>5 DEF ThreadType
<1>7. cache # None
  BY <1>1, JitCacheAssumption DEF cache
<1>8. Answered(new, a) => Answered(th, a)
  BY <1>3, <1>6 DEF Answered
<1>9. \A j : th.cache # None /\ j \in th.cache => j \in new.cache
  BY <1>6 DEF cache
<1>10. QED BY <1>1, <1>6, <1>7, <1>8, <1>9, GetsKept

(* The worker hears it.                                                    *)
LEMMA GetsHeard ==
  ASSUME ThreadInv, NEW t \in Thread, NEW type, Hears(t, type), NEW a, NEW b, NEW keys,
         Gets(thread[t], a, keys), type = "ack" \/ b = a
  PROVE  Gets(thread'[t], b, keys)
<1> DEFINE th == thread[t]
           new == thread'[t]
<1>1. /\ th \in ThreadType /\ thread \in [Thread -> ThreadType] /\ th.out \in Seq(Answer)
      /\ th.out # <<>> /\ Head(th.out).type = type
      /\ thread' = [thread EXCEPT ![t] = [th EXCEPT !.out = Tail(th.out)]]
  BY DEF ThreadInv, ThreadType, Hears
<1>2. new.in = th.in /\ new.cache = th.cache /\ new.out = Tail(th.out)
  BY <1>1 DEF ThreadType
<1>3. /\ Len(Tail(th.out)) = Len(th.out) - 1 /\ Len(th.out) \in Nat /\ Len(th.out) >= 1
      /\ Head(th.out) = th.out[1]
      /\ \A i \in 1 .. Len(th.out) - 1 : Tail(th.out)[i] = th.out[i + 1]
  BY <1>1
<1>4. Answered(new, b) => Answered(th, a)
  <2>1. CASE type = "ack"
    BY <1>1, <1>3, <2>1 DEF Answered
  <2>2. CASE b = a
    BY <1>2, <1>3, <2>2 DEF Answered
  <2>3. QED BY <2>1, <2>2
<1>5. QED BY <1>2, <1>4, GetsKept

(* Steps before the module is installed, which send nothing.               *)
LEMMA EarlyStep ==
  ASSUME setup.loads = 1, DInv, ~Installed, setup' = setup,
         UNCHANGED <<fence, pthreads, fill>>, verifying' = {}, compiling' = {},
         load'[2] = load[2], load'[1].pool = load[1].pool,
         load'[1].pc \notin {"fill", "wait", "loaded"}, shared' \subseteq modules'
  PROVE  DInv'
<1>1. load[2] = NewLoad /\ BeforeInstall
  BY DEF DInv
<1>2. ~Installed'
  BY DEF Installed
<1>3. NewPthreads'
  BY <1>1 DEF BeforeInstall, NewPthreads, fence, pthreads
<1>4. BeforeInstall'
  BY <1>1, <1>3 DEF BeforeInstall
<1>5. QED BY <1>1, <1>2, <1>4 DEF DInv

(* Steps after that which leave the pthreads alone.                        *)
LEMMA LateStep ==
  ASSUME setup.loads = 1, DInv, Installed, setup' = setup,
         UNCHANGED <<workers, barrier, acks, thread, shared>>,
         load'[2] = load[2], load'[1].pool = load[1].pool,
         load'[1].pc \in {"fill", "wait", "loaded"},
         load'[1].pc = "fill" <=> load[1].pc = "fill",
         fill'.at # "not-started", fill.failed => fill'.failed
  PROVE  DInv'
<1>1. load[2] = NewLoad /\ AfterInstall
  BY DEF DInv
<1>2. Installed'
  BY DEF Installed
<1>3. AfterInstall'
  BY <1>1 DEF AfterInstall
<1>4. QED BY <1>1, <1>2, <1>3 DEF DInv

(* A step of one pthread.                                                  *)
LEMMA OneGets ==
  ASSUME setup.loads = 1, DInv, Installed, setup' = setup, NEW t \in workers,
         UNCHANGED <<workers, load, fill, shared>>,
         \A u \in Thread : u # t => thread'[u] = thread[u] /\ acks'[u] = acks[u],
         workers \subseteq Thread,
         barrier'.generation = barrier.generation, barrier'.postFailed = barrier.postFailed,
         Gets(thread[t], acks[t], shared) => Gets(thread'[t], acks'[t], shared)
  PROVE  DInv'
<1>1. load[2] = NewLoad /\ AfterInstall
  BY DEF DInv
<1>2. Installed'
  BY DEF Installed
<1>3. \A u \in Thread \ workers : u # t
  OBVIOUS
<1>4. ASSUME NEW u \in workers, Gets(thread[u], acks[u], shared)
      PROVE  Gets(thread'[u], acks'[u], shared)
  BY <1>4
<1>5. AfterInstall'
  BY <1>1, <1>3, <1>4 DEF AfterInstall
<1>6. QED BY <1>1, <1>2, <1>5 DEF DInv

(* Before the fence is sent nobody has acknowledged anything.              *)
LEMMA NoneAnswered ==
  ASSUME ThreadInv, FenceInv, barrier.generation = 0, NEW t \in Thread
  PROVE  /\ acks[t] = None /\ ~Answered(thread[t], None) /\ thread[t] \in ThreadType
         /\ \A i \in 1 .. Len(thread[t].in) : thread[t].in[i].type # "barrier"
<1>1. acks[t] = None
  BY DEF ThreadInv
<1>2. Knows(t, thread[t], 0, barrier.targets, acks[t])
  BY DEF FenceInv
<1>3. /\ \A i \in 1 .. Len(thread[t].out) : thread[t].out[i].type # "ack"
      /\ \A i \in 1 .. Len(thread[t].in) : thread[t].in[i].type # "barrier"
  BY <1>2 DEF Knows
<1>4. QED BY <1>1, <1>3 DEF Answered, ThreadInv

(* The map is sent to the pool.                                            *)
LEMMA GetsInstall ==
  ASSUME setup.loads = 1, TypeInv, BlockInv, FillInv, DInv, ~Installed, Install(1)
  PROVE  DInv'
<1> DEFINE m == [type |-> "cache", keys |-> modules]
<1>1. load[2] = NewLoad /\ BeforeInstall /\ setup' = setup /\ acks' = acks /\ shared' = shared
  BY DEF DInv, Install, given
<1>2. fill.at = "not-started" /\ shared \subseteq modules /\ modules \subseteq Keys
  BY <1>1 DEF BeforeInstall, BlockInv
<1>3. PICK size \in 1 .. setup.threads : \E lost \in Unsent({1} \X (1 .. size)) :
        /\ workers' = {1} \X (1 .. size)
        /\ load' = [load EXCEPT ![1].pool = {1} \X (1 .. size), ![1].pc = "fill"]
        /\ thread' = Posted(thread, ({1} \X (1 .. size)) \ lost, m)
        /\ barrier' = [barrier EXCEPT !.postFailed = lost # {}]
  BY <1>2 DEF Install
<1> DEFINE pool == {1} \X (1 .. size)
<1>4. PICK lost :
        /\ workers' = pool
        /\ load' = [load EXCEPT ![1].pool = pool, ![1].pc = "fill"]
        /\ thread' = Posted(thread, pool \ lost, m)
        /\ barrier' = [barrier EXCEPT !.postFailed = lost # {}]
  BY <1>3
<1>5. pool \in SUBSET Thread
  BY PoolInThread DEF Loads
<1> HIDE DEF pool
<1>6. /\ load'[1].pc = "fill" /\ load'[1].pool = pool /\ load'[2] = NewLoad
  <2>1. load \in [Loads -> LoadType] /\ 1 \in Loads /\ 2 \in Loads
    BY DEF TypeInv, Loads
  <2>2. QED BY <1>1, <1>4, <2>1 DEF LoadType
<1>7. barrier'.generation = 0 /\ (lost # {} => barrier'.postFailed)
  <2>1. barrier = NewBarrier
    BY <1>1 DEF BeforeInstall, NewPthreads
  <2> DEFINE failed == lost # {}
  <2>2. barrier' = [barrier EXCEPT !.postFailed = failed]
    BY <1>4
  <2> HIDE DEF failed
  <2>3. barrier'.generation = 0 /\ barrier'.postFailed = failed
    BY <2>1, <2>2 DEF NewBarrier
  <2>4. QED BY <2>3 DEF failed
<1>8. \A t \in Thread : thread[t] = NewThread /\ acks[t] = None
  BY <1>1 DEF BeforeInstall, NewPthreads
<1>9. \A t \in Thread \ workers' : thread'[t] = NewThread /\ acks'[t] = None
  BY <1>1, <1>4, <1>8 DEF Posted
<1>10. fill'.at # "not-started"
  BY <1>2 DEF Install, FillInv, FillType
<1>11. ASSUME lost = {}, NEW t \in workers'
       PROVE  Gets(thread'[t], acks'[t], shared)
  <2>1. t \in pool \ lost /\ t \in Thread
    BY <1>4, <1>5, <1>11
  <2>2. thread'[t] = [NewThread EXCEPT !.in = Append(@, m)] /\ acks'[t] = None
    BY <1>1, <1>4, <1>8, <2>1 DEF Posted
  <2>3. modules \in SUBSET Keys /\ shared \in SUBSET modules
    BY <1>2
  <2>4. Gets([NewThread EXCEPT !.in = Append(@, m)], None, shared)
    BY <2>3, GetsMap
  <2>5. QED BY <2>2, <2>4
<1>12. AfterInstall'
  <2>1. workers' = load'[1].pool
        /\ barrier'.generation = IF load'[1].pc = "fill" THEN 0 ELSE 1
    BY <1>4, <1>6, <1>7
  <2>2. barrier'.postFailed \/ \A t \in workers' : Gets(thread'[t], acks'[t], shared')
    BY <1>1, <1>7, <1>11
  <2>3. QED BY <1>9, <1>10, <2>1, <2>2 DEF AfterInstall
<1>13. Installed'
  BY <1>6 DEF Installed
<1>14. QED BY <1>1, <1>6, <1>12, <1>13 DEF DInv

(* A batch of the fill is sent to all of them.                             *)
LEMMA GetsBatch ==
  ASSUME setup.loads = 1, FillInv, ThreadInv, FenceInv, DInv, Installed, FillBatch(1)
  PROVE  DInv'
<1>1. /\ load[2] = NewLoad /\ AfterInstall /\ setup' = setup /\ load' = load
      /\ UNCHANGED <<workers, barrier, acks>> /\ load[1].pc = "fill"
  BY DEF DInv, FillBatch, given, fence, At
<1>1a. PICK batch \in BatchesOf(fill.left) :
        \E lost \in Bad(batch), unsent \in Unsent(workers) :
          /\ shared' = shared \cup (batch \ lost)
          /\ thread' = IF batch \ lost = {} THEN thread
                       ELSE Posted(thread, workers \ unsent,
                                   [type |-> "add", keys |-> batch \ lost])
          /\ fill' = [fill EXCEPT !.left = @ \ batch,
                        !.failed = @ \/ lost # {} \/ (batch \ lost # {} /\ unsent # {})]
  BY DEF FillBatch
<1>2. PICK lost, unsent :
        /\ shared' = shared \cup (batch \ lost)
        /\ thread' = IF batch \ lost = {} THEN thread
                     ELSE Posted(thread, workers \ unsent,
                                 [type |-> "add", keys |-> batch \ lost])
        /\ fill' = [fill EXCEPT !.left = @ \ batch,
                      !.failed = @ \/ lost # {} \/ (batch \ lost # {} /\ unsent # {})]
  BY <1>1a
<1> DEFINE good == batch \ lost
           m == [type |-> "add", keys |-> good]
           failed == fill.failed \/ lost # {} \/ (good # {} /\ unsent # {})
           left == fill.left \ batch
<1>3. /\ shared' = shared \cup good /\ good \subseteq Keys
      /\ thread' = IF good = {} THEN thread ELSE Posted(thread, workers \ unsent, m)
      /\ fill' = [fill EXCEPT !.left = left, !.failed = failed]
  <2>1. batch \subseteq Keys
    BY BatchIn DEF FillInv, FillType
  <2>2. QED BY <1>2, <2>1 DEF FillInv, FillType
<1>4. failed = (fill.failed \/ lost # {} \/ (good # {} /\ unsent # {}))
  OBVIOUS
<1>5. m \in Message /\ m.type # "cache" /\ \A k \in good : Carries(m, k)
  BY <1>3 DEF Message, Carries
<1> HIDE DEF good, m, failed, left
<1>6. fill'.at = fill.at /\ fill'.failed = failed
  BY <1>3 DEF FillInv, FillType
<1>7. workers \subseteq Thread /\ barrier.generation = 0
  BY <1>1 DEF ThreadInv, AfterInstall
<1>8. ASSUME NEW t \in Thread \ workers PROVE thread'[t] = thread[t]
  BY <1>3, <1>8 DEF Posted
<1>9. ASSUME NEW t \in workers, ~failed, Gets(thread[t], acks[t], shared)
      PROVE  Gets(thread'[t], acks[t], shared \cup good)
  <2>1. t \in Thread
    BY <1>7
  <2>2. /\ acks[t] = None /\ ~Answered(thread[t], None) /\ thread[t] \in ThreadType
        /\ \A i \in 1 .. Len(thread[t].in) : thread[t].in[i].type # "barrier"
    BY <1>7, <2>1, NoneAnswered
  <2>3. CASE good = {}
    <3>1. thread' = thread /\ shared \cup good = shared
      BY <1>3, <2>3
    <3>2. QED BY <1>9, <3>1
  <2>4. CASE good # {}
    <3>1. t \in workers \ unsent
      BY <1>4, <1>9, <2>4
    <3>2. thread'[t] = [thread[t] EXCEPT !.in = Append(@, m)]
      BY <1>3, <2>1, <2>4, <3>1 DEF Posted
    <3>3. \A k \in shared \cup good : k \in shared \/ Carries(m, k)
      BY <1>5
    <3>4. Gets([thread[t] EXCEPT !.in = Append(@, m)], None, shared \cup good)
      BY <1>5, <1>9, <2>2, <3>3, GetsSent
    <3>5. QED BY <2>2, <3>2, <3>4
  <2>5. QED BY <2>3, <2>4
<1>10. \/ fill'.failed \/ barrier'.postFailed
       \/ \A t \in workers' : Gets(thread'[t], acks'[t], shared')
  <2>1. fill.failed => failed
    BY <1>4
  <2>2. ASSUME ~failed, ~barrier.postFailed, NEW t \in workers
        PROVE  Gets(thread'[t], acks[t], shared \cup good)
    <3>1. Gets(thread[t], acks[t], shared)
      BY <1>1, <2>1, <2>2 DEF AfterInstall
    <3>2. QED BY <1>9, <2>2, <3>1
  <2>3. QED BY <1>1, <1>3, <1>6, <2>2
<1>11. \A t \in Thread \ workers' : thread'[t] = NewThread /\ acks'[t] = None
  BY <1>1, <1>8 DEF AfterInstall
<1>12. AfterInstall'
  <2>1. workers' = load'[1].pool /\ fill'.at # "not-started"
        /\ barrier'.generation = IF load'[1].pc = "fill" THEN 0 ELSE 1
    BY <1>1, <1>6 DEF AfterInstall
  <2>2. QED BY <1>10, <1>11, <2>1 DEF AfterInstall
<1>13. Installed'
  BY <1>1 DEF Installed
<1>14. QED BY <1>1, <1>12, <1>13 DEF DInv

(* The fence is the last they are sent.                                    *)
LEMMA GetsFence ==
  ASSUME setup.loads = 1, TypeInv, ThreadInv, FenceInv, DInv, Installed, At(1, {"fill"}),
         NEW ended, Fence(1, ended), ended.at # "not-started", fill.failed => ended.failed
  PROVE  DInv'
<1>1. /\ load[2] = NewLoad /\ AfterInstall /\ setup' = setup /\ fill' = ended
      /\ UNCHANGED <<workers, acks, shared>> /\ load[1].pc = "fill"
      /\ load[1].pool = workers
  BY DEF DInv, Fence, given, At, AfterInstall
<1>2. workers \subseteq Thread /\ barrier.generation = 0
  BY <1>1 DEF ThreadInv, AfterInstall
<1> DEFINE m == [type |-> "barrier", generation |-> barrier.generation + 1]
<1>3. PICK lost \in Unsent(workers) :
        /\ barrier' = [generation |-> barrier.generation + 1, targets |-> workers, acked |-> 0,
                       invalid |-> FALSE, postFailed |-> barrier.postFailed \/ lost # {}]
        /\ thread' = Posted(thread, workers \ lost, m)
  BY <1>1 DEF Fence, Publish
<1>4. barrier'.generation = 1 /\ (barrier.postFailed \/ lost # {} => barrier'.postFailed)
  <2> DEFINE failed == barrier.postFailed \/ lost # {}
  <2>1. barrier' = [generation |-> barrier.generation + 1, targets |-> workers, acked |-> 0,
                    invalid |-> FALSE, postFailed |-> failed]
    BY <1>3
  <2> HIDE DEF failed
  <2>2. barrier'.generation = 1 /\ barrier'.postFailed = failed
    BY <1>2, <2>1
  <2>3. QED BY <2>2 DEF failed
<1>5. m \in Message /\ m.type # "cache"
  BY <1>2 DEF Message
<1> HIDE DEF m
<1>6. load'[1].pc = "wait" /\ load'[1].pool = workers /\ load'[2] = NewLoad
  <2>1. load \in [Loads -> LoadType] /\ 1 \in Loads /\ 2 \in Loads
    BY DEF TypeInv, Loads
  <2>2. Goes(1, "wait")
    BY DEF Fence
  <2>3. QED BY <1>1, <2>1, <2>2 DEF LoadType, Goes
<1>7. \A t \in Thread \ workers' : thread'[t] = NewThread /\ acks'[t] = None
  BY <1>1, <1>3 DEF AfterInstall, Posted
<1>8. ASSUME NEW t \in workers, lost = {}, Gets(thread[t], acks[t], shared)
      PROVE  Gets(thread'[t], acks[t], shared)
  <2>1. t \in Thread /\ t \in workers \ lost
    BY <1>2, <1>8
  <2>2. /\ acks[t] = None /\ ~Answered(thread[t], None) /\ thread[t] \in ThreadType
        /\ \A i \in 1 .. Len(thread[t].in) : thread[t].in[i].type # "barrier"
    BY <1>2, <2>1, NoneAnswered
  <2>3. thread'[t] = [thread[t] EXCEPT !.in = Append(@, m)]
    BY <1>3, <2>1 DEF Posted
  <2>4. Gets([thread[t] EXCEPT !.in = Append(@, m)], None, shared)
    BY <1>5, <1>8, <2>2, GetsSent
  <2>5. QED BY <2>2, <2>3, <2>4
<1>9. \/ fill'.failed \/ barrier'.postFailed
      \/ \A t \in workers' : Gets(thread'[t], acks'[t], shared')
  BY <1>1, <1>4, <1>8 DEF AfterInstall
<1>10. AfterInstall'
  BY <1>1, <1>4, <1>6, <1>7, <1>9 DEF AfterInstall
<1>11. Installed'
  BY <1>6 DEF Installed
<1>12. QED BY <1>1, <1>6, <1>10, <1>11 DEF DInv

(* A load's own steps; the other load never starts.                        *)
LEMMA GetsOfLoad ==
  ASSUME setup.loads = 1, FInv, DInv, NEW l \in Loads, LoadStep(l)
  PROVE  DInv'
<1>1. /\ TypeInv /\ BlockInv /\ FillInv /\ ThreadInv /\ FenceInv
      /\ load \in [Loads -> LoadType] /\ 1 \in Loads /\ 2 \in Loads
      /\ load[2] = NewLoad /\ load[2].pc = "idle" /\ load[1] \in LoadType
  BY DEF FInv, TypeInv, DInv, NewLoad, Loads
<1>2. l = 1
  <2>1. l # 2
    BY <1>1
    DEF LoadStep, Reconcile, Clear, Stamp, ReadRows, BootBatch, Booted, SkipSeed, StartSeed,
        Seeded, SeedFails, Install, ScanRows, ScanFails, FillBatch, EndFill, Polled,
        TimesOut, At
  <2>2. QED BY <2>1 DEF Loads
<1>3. ASSUME ~Installed, setup' = setup, UNCHANGED <<fence, pthreads, fill, async>>,
             NEW new, load' = [load EXCEPT ![1] = new], new.pool = load[1].pool,
             new.pc \notin {"fill", "wait", "loaded"}, shared' \subseteq modules'
      PROVE  DInv'
  <2>1. load'[1] = new /\ load'[2] = load[2]
    BY <1>1, <1>3
  <2>2. verifying' = {} /\ compiling' = {}
    BY <1>3 DEF DInv, BeforeInstall, async
  <2>3. QED BY <1>3, <2>1, <2>2, EarlyStep
<1>4. ~Installed => shared \subseteq modules /\ reserved = {}
  BY <1>1 DEF DInv, BeforeInstall, BlockInv
<1>5. CASE Reconcile(1)
  <2> DEFINE new == [load[1] EXCEPT !.pc = IF Matches THEN "stamp" ELSE "clear", !.todo = Parts]
  <2>1. /\ ~Installed /\ setup' = setup /\ UNCHANGED <<fence, pthreads, fill, async>>
        /\ load' = [load EXCEPT ![1] = new] /\ UNCHANGED <<shared, modules>>
    BY <1>1, <1>5 DEF Reconcile, At, Installed, given, master, LoadType
  <2>2. new.pool = load[1].pool /\ new.pc \notin {"fill", "wait", "loaded"}
    BY <1>1 DEF LoadType
  <2> HIDE DEF new
  <2>3. QED BY <1>3, <1>4, <2>1, <2>2
<1>6. CASE Clear(1)
  <2> DEFINE new == [load[1] EXCEPT !.pc = "stamp"]
  <2>1. /\ ~Installed /\ setup' = setup /\ UNCHANGED <<fence, pthreads, fill, async>>
        /\ load' = [load EXCEPT ![1] = new] /\ shared' = {}
    BY <1>1, <1>6 DEF Clear, Goes, At, Installed, given, LoadType
  <2>2. new.pool = load[1].pool /\ new.pc \notin {"fill", "wait", "loaded"}
    BY <1>1 DEF LoadType
  <2> HIDE DEF new
  <2>3. QED BY <1>3, <2>1, <2>2
<1>7. CASE \E part \in Parts : Stamp(1, part)
  <2>1. PICK part \in Parts : Stamp(1, part)
    BY <1>7
  <2> DEFINE rest == load[1].todo \ {part}
             next == IF load[1].pc = "stamp" THEN "rows" ELSE "rerows"
             pc == IF rest = {} THEN next ELSE load[1].pc
             new == [load[1] EXCEPT !.todo = rest, !.pc = pc]
  <2>2. load' = [load EXCEPT ![1] = new]
    BY <1>1, <2>1 DEF Stamp, At, LoadType
  <2>3. pc \notin {"fill", "wait", "loaded"}
    BY <2>1 DEF Stamp, At
  <2>4. /\ ~Installed /\ setup' = setup /\ UNCHANGED <<fence, pthreads, fill, async>>
        /\ UNCHANGED <<shared, modules>>
    BY <2>1 DEF Stamp, At, Installed, given, master
  <2> HIDE DEF rest, pc
  <2>5. new.pool = load[1].pool /\ new.pc = pc
    BY <1>1 DEF LoadType
  <2> HIDE DEF new
  <2>6. QED BY <1>3, <1>4, <2>2, <2>3, <2>4, <2>5
<1>8. ASSUME NEW pc \in Pcs \ {"fill", "wait", "loaded"}, NEW rows, NEW todo,
             ~Installed, setup' = setup, UNCHANGED <<fence, pthreads, fill, async>>,
             load' = [load EXCEPT ![1] = [load[1] EXCEPT !.pc = pc, !.rows = rows, !.todo = todo]],
             shared' \subseteq modules'
      PROVE  DInv'
  <2> DEFINE new == [load[1] EXCEPT !.pc = pc, !.rows = rows, !.todo = todo]
  <2>1. new.pool = load[1].pool /\ new.pc = pc
    BY <1>1 DEF LoadType
  <2> HIDE DEF new
  <2>2. load' = [load EXCEPT ![1] = new]
    BY <1>8 DEF new
  <2>3. QED BY <1>3, <1>8, <2>1, <2>2
<1>9. CASE ReadRows(1)
  <2>1. PICK rows : load' = [load EXCEPT ![1].rows = rows,
                                         ![1].pc = IF @ = "rows" THEN "boot" ELSE "reboot"]
    BY <1>9 DEF ReadRows
  <2> DEFINE pc == IF load[1].pc = "rows" THEN "boot" ELSE "reboot"
  <2>2. load' = [load EXCEPT ![1] = [load[1] EXCEPT !.pc = pc, !.rows = rows,
                                                    !.todo = load[1].todo]]
    BY <1>1, <2>1 DEF LoadType
  <2>3. pc \in Pcs \ {"fill", "wait", "loaded"}
    BY DEF Pcs
  <2>4. ~Installed /\ UNCHANGED <<setup, fence, pthreads, fill, async, shared, modules>>
    BY <1>9 DEF ReadRows, At, Installed, given, master
  <2> HIDE DEF pc
  <2>5. QED BY <1>4, <1>8, <2>2, <2>3, <2>4
<1>10. CASE BootBatch(1)
  <2>1. PICK batch, lost :
          /\ modules' = modules \cup ((batch \ lost) \ reserved)
          /\ shared' = shared \cup (batch \ lost)
          /\ load' = [load EXCEPT ![1].rows = @ \ batch]
    BY <1>10 DEF BootBatch
  <2> DEFINE rows == load[1].rows \ batch
  <2>2. load' = [load EXCEPT ![1] = [load[1] EXCEPT !.pc = load[1].pc, !.rows = rows,
                                                    !.todo = load[1].todo]]
    BY <1>1, <2>1 DEF LoadType
  <2>3. /\ ~Installed /\ UNCHANGED <<setup, fence, pthreads, fill, async>>
        /\ load[1].pc \in Pcs \ {"fill", "wait", "loaded"}
    BY <1>10 DEF BootBatch, At, Installed, given, Pcs
  <2>4. shared' \subseteq modules'
    BY <1>4, <2>1, <2>3
  <2> HIDE DEF rows
  <2>5. QED BY <1>8, <2>2, <2>3, <2>4
<1>11. CASE Booted(1)
  <2> DEFINE pc == IF load[1].pc = "boot" THEN "count" ELSE "factory"
  <2>1. load' = [load EXCEPT ![1] = [load[1] EXCEPT !.pc = pc, !.rows = {},
                                                    !.todo = load[1].todo]]
    BY <1>1, <1>11 DEF LoadType, Booted
  <2>2. pc \in Pcs \ {"fill", "wait", "loaded"}
    BY DEF Pcs
  <2>3. ~Installed /\ UNCHANGED <<setup, fence, pthreads, fill, async, shared, modules>>
    BY <1>11 DEF Booted, At, Installed, given, master
  <2> HIDE DEF pc
  <2>4. QED BY <1>4, <1>8, <2>1, <2>2, <2>3
<1>12. CASE SkipSeed(1)
  <2>1. load' = [load EXCEPT ![1] = [load[1] EXCEPT !.pc = "factory", !.rows = load[1].rows,
                                                    !.todo = load[1].todo]]
    BY <1>1, <1>12 DEF LoadType, SkipSeed, Goes
  <2>2. "factory" \in Pcs \ {"fill", "wait", "loaded"}
    BY DEF Pcs
  <2>3. ~Installed /\ UNCHANGED <<setup, fence, pthreads, fill, async, shared, modules>>
    BY <1>12 DEF SkipSeed, At, Installed, given, master
  <2>4. QED BY <1>4, <1>8, <2>1, <2>2, <2>3
<1>13. CASE StartSeed(1)
  <2>1. PICK rows : load' = [load EXCEPT ![1].pc = "seed", ![1].rows = rows]
    BY <1>13 DEF StartSeed
  <2>2. load' = [load EXCEPT ![1] = [load[1] EXCEPT !.pc = "seed", !.rows = rows,
                                                    !.todo = load[1].todo]]
    BY <1>1, <2>1 DEF LoadType
  <2>3. "seed" \in Pcs \ {"fill", "wait", "loaded"}
    BY DEF Pcs
  <2>4. ~Installed /\ UNCHANGED <<setup, fence, pthreads, fill, async, shared, modules>>
    BY <1>13 DEF StartSeed, At, Installed, given
  <2>5. QED BY <1>4, <1>8, <2>2, <2>3, <2>4
<1>14. CASE Seeded(1)
  <2>1. load' = [load EXCEPT ![1] = [load[1] EXCEPT !.pc = "restamp", !.rows = {},
                                                    !.todo = Parts]]
    BY <1>1, <1>14 DEF LoadType, Seeded
  <2>2. "restamp" \in Pcs \ {"fill", "wait", "loaded"}
    BY DEF Pcs
  <2>3. ~Installed /\ UNCHANGED <<setup, fence, pthreads, fill, async, shared, modules>>
    BY <1>14 DEF Seeded, At, Installed, given, master
  <2>4. QED BY <1>4, <1>8, <2>1, <2>2, <2>3
<1>15. CASE SeedFails(1)
  <2>1. load' = [load EXCEPT ![1] = [load[1] EXCEPT !.pc = "factory", !.rows = {},
                                                    !.todo = load[1].todo]]
    BY <1>1, <1>15 DEF LoadType, SeedFails
  <2>2. "factory" \in Pcs \ {"fill", "wait", "loaded"}
    BY DEF Pcs
  <2>3. ~Installed /\ UNCHANGED <<setup, fence, pthreads, fill, async, shared, modules>>
    BY <1>15 DEF SeedFails, At, Installed, given, master
  <2>4. QED BY <1>4, <1>8, <2>1, <2>2, <2>3
<1>16. CASE Install(1)
  <2>1. ~Installed
    BY <1>16 DEF Install, At, Installed
  <2>2. QED BY <1>1, <1>16, <2>1, GetsInstall
<1>17. CASE ScanRows(1)
  <2>1. /\ Installed /\ load' = load /\ setup' = setup
        /\ UNCHANGED <<workers, barrier, acks, thread, shared>>
    BY <1>17 DEF ScanRows, At, Installed, given, fence, pthreads
  <2>2. fill'.at # "not-started" /\ fill'.failed = fill.failed
    BY <1>1, <1>17 DEF ScanRows, FillInv, FillType
  <2>3. QED BY <2>1, <2>2, LateStep DEF Installed
<1>18. CASE ScanFails(1)
  <2> DEFINE ended == [fill EXCEPT !.at = "incomplete", !.left = {}, !.failed = TRUE]
  <2>1. Fence(1, ended) /\ At(1, {"fill"}) /\ Installed
    BY <1>18 DEF ScanFails, At, Installed
  <2>2. ended.at # "not-started" /\ ended.failed
    BY <1>1 DEF FillInv, FillType
  <2> HIDE DEF ended
  <2>3. QED BY <1>1, <2>1, <2>2, GetsFence
<1>19. CASE FillBatch(1)
  <2>1. Installed
    BY <1>19 DEF FillBatch, At, Installed
  <2>2. QED BY <1>1, <1>19, <2>1, GetsBatch
<1>20. CASE EndFill(1)
  <2> DEFINE ended == [fill EXCEPT !.left = {},
                !.at = IF fill.left = {} /\ ~fill.failed THEN "complete" ELSE "incomplete"]
  <2>1. Fence(1, ended) /\ At(1, {"fill"}) /\ Installed
    BY <1>20 DEF EndFill, At, Installed
  <2>2. ended.at # "not-started" /\ ended.failed = fill.failed
    BY <1>1 DEF FillInv, FillType
  <2> HIDE DEF ended
  <2>3. QED BY <1>1, <2>1, <2>2, GetsFence
<1>21. CASE Polled(1) \/ TimesOut(1)
  <2>1. /\ Installed /\ load[1].pc = "wait" /\ setup' = setup /\ fill' = fill
        /\ UNCHANGED <<workers, barrier, acks, thread, shared>>
    BY <1>21 DEF Polled, TimesOut, At, Installed, given, fence, pthreads
  <2>2. load'[1].pc = "loaded" /\ load'[1].pool = load[1].pool /\ load'[2] = load[2]
    <3>1. CASE Polled(1)
      BY <1>1, <3>1 DEF Polled, LoadType
    <3>2. CASE TimesOut(1)
      BY <1>1, <3>2 DEF TimesOut, Goes, LoadType
    <3>3. QED BY <1>21, <3>1, <3>2
  <2>3. fill.at # "not-started"
    BY <2>1 DEF DInv, AfterInstall
  <2>4. QED BY <2>1, <2>2, <2>3, LateStep
<1>22. QED
  BY <1>2, <1>5, <1>6, <1>7, <1>9, <1>10, <1>11, <1>12, <1>13, <1>14, <1>15, <1>16, <1>17,
     <1>18, <1>19, <1>20, <1>21 DEF LoadStep

(* A pthread's steps: only those of the pool have anything to do.          *)
LEMMA GetsOfThread ==
  ASSUME setup.loads = 1, FInv, DInv, NEW t \in Thread, ThreadStep(t)
  PROVE  DInv'
<1>1. /\ ThreadInv /\ FenceInv /\ BlockInv
      /\ workers \subseteq Thread /\ setup' = setup /\ fill' = fill /\ load' = load
      /\ shared' = shared /\ modules' = modules /\ compiling' = compiling /\ workers' = workers
  BY DEF FInv, ThreadInv, ThreadStep, Receive, Run, HandleAck, HandleNewCompile, Miss, given,
         fence, async, master
<1>2. \/ Run(t) \/ Receive(t) \/ HandleAck(t) \/ HandleNewCompile(t)
      \/ \E k \in Keys : Miss(t, k)
  BY DEF ThreadStep
<1>3. ASSUME thread[t] = NewThread PROVE Run(t)
  BY <1>2, <1>3 DEF Receive, HandleAck, HandleNewCompile, Hears, Miss, NewThread
<1>4. CASE ~Installed
  <2>1. thread[t] = NewThread /\ load[1].pool = {} /\ load[2].pool = {} /\ t[1] \in 1 .. 2
    BY <1>4 DEF DInv, BeforeInstall, NewPthreads, NewLoad, Thread, Loads
  <2>2. QED BY <1>3, <2>1 DEF Run
<1>5. CASE Installed /\ Run(t)
  <2>1. UNCHANGED <<barrier, acks, thread>>
    BY <1>5 DEF Run, fence
  <2>2. load[1].pc \in {"fill", "wait", "loaded"} /\ fill.at # "not-started"
    BY <1>5 DEF DInv, AfterInstall, Installed
  <2>3. QED BY <1>1, <1>5, <2>1, <2>2, LateStep
<1>6. CASE Installed /\ ~Run(t)
  <2>1. t \in workers
    BY <1>3, <1>6 DEF DInv, AfterInstall
  <2>2. CASE Receive(t)
    <3>1. UNCHANGED <<barrier, acks>> /\ \A u \in Thread : u # t => thread'[u] = thread[u]
      <4>1. PICK new : thread' = [thread EXCEPT ![t] = new]
        BY <2>2 DEF Receive
      <4>2. QED BY <2>2, <4>1 DEF Receive, fence, ThreadInv
    <3>2. Gets(thread[t], acks[t], shared) => Gets(thread'[t], acks'[t], shared)
      BY <1>1, <2>2, <3>1, GetsTaken
    <3>3. QED BY <1>1, <1>6, <2>1, <3>1, <3>2, OneGets
  <2>3. ASSUME NEW k \in Keys, Miss(t, k) PROVE DInv'
    <3>1. UNCHANGED <<barrier, acks>> /\ \A u \in Thread : u # t => thread'[u] = thread[u]
      <4> DEFINE said == Said(t, [type |-> "new-compile", key |-> k])
      <4>1. thread \in [Thread -> ThreadType] /\ thread[t] \in ThreadType
        BY <1>1 DEF ThreadInv
      <4> HIDE DEF said
      <4>2. thread' = [thread EXCEPT ![t] = [thread[t] EXCEPT !.cache = @ \cup {k},
                                                              !.out = said]]
        BY <2>3, <4>1 DEF Miss, ThreadType, said
      <4>3. QED BY <2>3, <4>1, <4>2 DEF Miss, fence
    <3>2. Gets(thread[t], acks[t], shared) => Gets(thread'[t], acks'[t], shared)
      BY <1>1, <2>3, <3>1, GetsMissed
    <3>3. QED BY <1>1, <1>6, <2>1, <3>1, <3>2, OneGets
  <2>4. CASE HandleNewCompile(t)
    <3>1. /\ UNCHANGED <<barrier, acks>> /\ Hears(t, "new-compile")
          /\ \A u \in Thread : u # t => thread'[u] = thread[u]
      BY <2>4 DEF HandleNewCompile, Hears, fence, ThreadInv
    <3>2. Gets(thread[t], acks[t], shared) => Gets(thread'[t], acks'[t], shared)
      BY <1>1, <3>1, GetsHeard
    <3>3. QED BY <1>1, <1>6, <2>1, <3>1, <3>2, OneGets
  <2>5. CASE HandleAck(t)
    <3>1. /\ Hears(t, "ack")
          /\ \A u \in Thread : u # t => thread'[u] = thread[u]
      BY <1>1, <2>5 DEF HandleAck, Hears, ThreadInv
    <3>2. /\ barrier'.generation = barrier.generation /\ barrier'.postFailed = barrier.postFailed
          /\ \A u \in Thread : u # t => acks'[u] = acks[u]
      <4>1. barrier \in BarrierType /\ acks \in [Thread -> (1 .. barrier.generation) \cup {None}]
        BY <1>1 DEF ThreadInv
      <4>2. \/ UNCHANGED <<barrier, acks>>
            \/ barrier' = [barrier EXCEPT !.invalid = TRUE] /\ UNCHANGED acks
            \/ /\ acks' = [acks EXCEPT ![t] = Head(thread[t].out).generation]
               /\ barrier' = [barrier EXCEPT !.acked = barrier.acked + 1]
        BY <2>5 DEF HandleAck
      <4>3. QED BY <4>1, <4>2 DEF BarrierType
    <3>3. Gets(thread[t], acks[t], shared) => Gets(thread'[t], acks'[t], shared)
      BY <1>1, <3>1, GetsHeard
    <3>4. QED BY <1>1, <1>6, <2>1, <3>1, <3>2, <3>3, OneGets
  <2>6. QED BY <1>2, <1>6, <2>2, <2>3, <2>4, <2>5
<1>7. QED BY <1>4, <1>5, <1>6

(* All other steps.                                                        *)
LEMMA GetsOfOthers ==
  ASSUME setup.loads = 1, FInv, DInv, NoLoadStep
  PROVE  DInv'
<1>1. /\ TypeInv /\ load \in [Loads -> LoadType] /\ 1 \in Loads /\ 2 \in Loads
      /\ load[1] \in LoadType /\ load[2] = NewLoad
  BY DEF FInv, TypeInv, DInv, Loads
<1>2. ASSUME setup' = setup, UNCHANGED <<fence, pthreads, fill, shared>>, load' = load,
             verifying' \subseteq verifying, compiling' \subseteq compiling,
             ~Installed => modules' = modules
      PROVE  DInv'
  <2>1. CASE ~Installed
    <3>1. /\ verifying' = {} /\ compiling' = {} /\ shared' \subseteq modules'
          /\ load'[1].pc \notin {"fill", "wait", "loaded"}
      BY <1>2, <2>1 DEF DInv, BeforeInstall, Installed
    <3>2. QED BY <1>2, <2>1, <3>1, EarlyStep
  <2>2. CASE Installed
    <3>1. /\ load'[1].pc \in {"fill", "wait", "loaded"} /\ fill'.at # "not-started"
          /\ UNCHANGED <<workers, barrier, acks, thread>>
      BY <1>2, <2>2 DEF DInv, AfterInstall, Installed, fence, pthreads
    <3>2. QED BY <1>2, <2>2, <3>1, LateStep
  <2>3. QED BY <2>1, <2>2
<1>3. CASE UNCHANGED vars
  BY <1>2, <1>3 DEF vars, volatile, given, async, master
<1>4. ASSUME NEW k \in Keys, BlockStep(k) PROVE DInv'
  <2>1. ~Installed => verifying = {} /\ compiling = {}
    BY DEF DInv, BeforeInstall
  <2>2. CASE Verified(k)
    <3>1. Installed
      BY <2>1, <2>2 DEF Verified
    <3>2. /\ setup' = setup /\ UNCHANGED <<workers, barrier, acks, thread, fill, shared>>
          /\ load' = load
      BY <2>2 DEF Verified, given, fence, pthreads
    <3>3. load[1].pc \in {"fill", "wait", "loaded"} /\ fill.at # "not-started"
      BY <3>1 DEF DInv, AfterInstall, Installed
    <3>4. QED BY <3>1, <3>2, <3>3, LateStep
  <2>3. CASE Compiled(k)
    <3>1. Installed
      BY <2>1, <2>3 DEF Compiled
    <3>2. /\ setup' = setup /\ UNCHANGED <<workers, barrier, acks, thread, fill, shared>>
          /\ load' = load
      BY <2>3 DEF Compiled, given, fence, pthreads
    <3>3. load[1].pc \in {"fill", "wait", "loaded"} /\ fill.at # "not-started"
      BY <3>1 DEF DInv, AfterInstall, Installed
    <3>4. QED BY <3>1, <3>2, <3>3, LateStep
  <2>4. CASE StartPut(k)
    BY <1>2, <2>4 DEF StartPut, given, master
  <2>5. CASE Put(k)
    BY <1>2, <2>5 DEF Put, given, master
  <2>6. QED BY <1>4, <2>2, <2>3, <2>4, <2>5 DEF BlockStep
<1>5. ASSUME NEW t \in Thread, ThreadStep(t) PROVE DInv'
  BY <1>5, GetsOfThread
<1>6. CASE CloseTab
  <2>1. /\ load'[1] = NewLoad /\ load'[2] = NewLoad /\ NewPthreads'
        /\ verifying' = {} /\ compiling' = {} /\ shared' = {} /\ fill' = NewFill
    BY <1>1, <1>6 DEF CloseTab, NewPthreads
  <2>2. ~Installed' /\ BeforeInstall'
    BY <2>1 DEF Installed, BeforeInstall, NewLoad, NewFill
  <2>3. QED BY <2>1, <2>2 DEF DInv
<1>7. ASSUME NEW l \in Loads, StartLoad(l) PROVE DInv'
  <2>1. l = 1 /\ load[1].pc = "idle" /\ ~Installed
    BY <1>7 DEF StartLoad, Loads, At, Installed
  <2>2. load' = [load EXCEPT ![1] = [load[1] EXCEPT !.pc = "fetching"]]
    BY <1>7, <2>1 DEF StartLoad, Goes
  <2>3. load'[1].pc = "fetching" /\ load'[1].pool = load[1].pool /\ load'[2] = load[2]
    BY <1>1, <2>2 DEF LoadType
  <2>4. /\ setup' = setup /\ UNCHANGED <<fence, pthreads, fill, async, shared, modules>>
    BY <1>7 DEF StartLoad, given, master
  <2>5. verifying' = {} /\ compiling' = {} /\ shared' \subseteq modules'
    BY <2>1, <2>4 DEF DInv, BeforeInstall, async
  <2>6. QED BY <2>1, <2>3, <2>4, <2>5, EarlyStep
<1>8. QED BY <1>3, <1>4, <1>5, <1>6, <1>7 DEF NoLoadStep

(* All of them.                                                            *)
LEMMA DInit == Init => DInv
BY DEF Init, DInv, Installed, BeforeInstall, NewPthreads, NewLoad, NewFill, Loads

(* Every step keeps it.                                                    *)
LEMMA DNext == FInv /\ DInv /\ [Next]_vars => DInv'
<1> SUFFICES ASSUME FInv, DInv, [Next]_vars PROVE DInv'
  OBVIOUS
<1>1. setup' = setup
  BY DEF Next, LoadStep, BlockStep, ThreadStep, StartLoad, Reconcile, Clear, Stamp, ReadRows,
         BootBatch, Booted, SkipSeed, StartSeed, Seeded, SeedFails, Install, ScanRows,
         ScanFails, Fence, FillBatch, EndFill, Polled, TimesOut, Verified, Compiled, StartPut,
         Put, Receive, Run, HandleAck, HandleNewCompile, Miss, CloseTab, vars, given
<1>2. CASE setup.loads = 1
  BY <1>2, GetsOfLoad, GetsOfOthers DEF Next, NoLoadStep
<1>3. CASE setup.loads # 1
  BY <1>1, <1>3 DEF DInv
<1>4. QED BY <1>2, <1>3

(* Every required pthread has acknowledged a fence, and so has taken the   *)
(* map and all that followed it.                                           *)
LEMMA ReadyDelivers == FInv /\ DInv => ReadyMeansDelivered
<1> SUFFICES ASSUME FInv, DInv, Ready, setup.loads = 1, NEW t \in Required
             PROVE  thread[t].cache # None /\ shared \subseteq thread[t].cache
  BY DEF ReadyMeansDelivered
<1>1. /\ t \in Thread /\ acks[t] = barrier.generation /\ workers # {}
      /\ fill.at = "complete" /\ ~fill.failed /\ ~barrier.postFailed
      /\ barrier.generation \in Nat
  BY DEF Ready, Required, Acknowledged, FInv, ThreadInv, BarrierType
<1>2. Installed
  BY <1>1 DEF DInv, BeforeInstall, NewPthreads
<1>3. AfterInstall
  BY <1>2 DEF DInv
<1>4. acks[t] # None
  BY <1>1, JitCacheAssumption
<1>5. Gets(thread[t], acks[t], shared)
  BY <1>1, <1>3, <1>4 DEF AfterInstall
<1>6. Len(thread[t].in) = 0 /\ \A k \in shared : Holds(thread[t], k)
  BY <1>4, <1>5 DEF Gets, Answered
<1>7. thread[t].cache # None
  BY <1>5, <1>6 DEF Gets
<1>8. QED BY <1>6, <1>7 DEF Holds

-----------------------------------------------------------------------------
(* The worker's, the store's and the pthreads' state has its type: a key   *)
(* is reserved only while its block is compiled, and a fill runs exactly   *)
(* while the load that started it is at it.                                *)
THEOREM TypeCorrect == Spec => []TypeOK
<1>1. FInv => TypeOK
  BY DEF FInv, TypeInv, BlockInv, FillInv, ThreadInv, TypeOK, LoadType, FillType, BarrierType,
         ThreadType
<1>2. QED BY <1>1, InitInv, NextInv, FInit, FNext, PTL DEF Spec

(* Whatever posts fail, whichever pthreads are added or answer late, and   *)
(* however fences are published over one another: when a load sees its     *)
(* fence complete (waitForDolphinJitPthreadBarrier), every pthread it was  *)
(* published to has the map and has passed that fence.                     *)
THEOREM CompleteFence == Spec => FenceMeansInstalled
<1>1. ASSUME FInv, [Next]_vars
      PROVE  [\A l \in Loads : ~load[l].fenced /\ load'[l].fenced =>
                \A t \in barrier.targets :
                  /\ thread[t].cache # None
                  /\ \A i \in 1 .. Len(thread[t].in) :
                       thread[t].in[i] # [type |-> "barrier",
                                          generation |-> barrier.generation]]_vars
  <2>1. ASSUME NEW l \in Loads, ~load[l].fenced, load'[l].fenced
        PROVE  barrier.acked = Cardinality(barrier.targets)
    <3>1. Polled(l)
      BY <1>1, <2>1, FenceStep
    <3>2. ~barrier.postFailed
      <4> DEFINE fenced == ~barrier.postFailed
      <4>1. load \in [Loads -> LoadType] /\ load[l] \in LoadType
        BY <1>1 DEF FInv, TypeInv
      <4>2. load' = [load EXCEPT ![l] = [load[l] EXCEPT !.pc = "loaded", !.fenced = fenced]]
        BY <3>1, <4>1 DEF Polled, LoadType
      <4> HIDE DEF fenced
      <4>3. load'[l].fenced = fenced
        BY <4>1, <4>2 DEF LoadType
      <4>4. QED BY <2>1, <4>3 DEF fenced
    <3>3. QED BY <3>1, <3>2 DEF Polled
  <2>2. QED BY <1>1, <2>1, FenceEnds DEF FInv
<1>2. QED
  BY <1>1, InitInv, NextInv, FInit, FNext, PTL DEF Spec, FenceMeansInstalled

(* When the cache is reported ready, every running pthread of the core has *)
(* every block that came from the store or the file.                       *)
THEOREM ReadyIsDelivered == Spec => []ReadyMeansDelivered
<1>1. Init => IInv /\ FInv /\ DInv
  BY InitInv, FInit, DInit
<1>2. IInv /\ FInv /\ DInv /\ [Next]_vars => (IInv /\ FInv /\ DInv)'
  BY NextInv, FNext, DNext
<1>3. IInv /\ FInv /\ DInv => ReadyMeansDelivered
  BY ReadyDelivers
<1>4. QED BY <1>1, <1>2, <1>3, PTL DEF Spec
=============================================================================

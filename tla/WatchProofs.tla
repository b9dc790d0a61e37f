----------------------------- MODULE WatchProofs -----------------------------
(***************************************************************************)
(* What ensureWatch believes about the watch of a kind, for any number of  *)
(* pools and any number of stopped informers, races and failed watches.    *)
(***************************************************************************)
EXTENDS Watch, FiniteSetTheorems, TLAPS

-----------------------------------------------------------------------------
(* The inductive invariant.                                                *)

Informer == [running : BOOLEAN, synced : BOOLEAN, handlers : 0 .. Many, joining : Nat]

PassRecord ==
    [pc : {"idle", "fetched", "live", "stopped", "removed", "watched", "synced",
           "unsynced", "failed"},
     inf : Instances \cup {None}]

\* A pass holds an instance from the lookup to the question whether it has
\* synced.
PassOK ==
    /\ pass \in [Pools -> PassRecord]
    /\ \A p \in Pools : pass[p].pc \in {"fetched", "live", "watched"} => pass[p].inf # None

\* Nobody is attached to an informer that the cache has dropped.
Dropped == \A k \in Instances : k # cache =>
              informer[k].handlers = 0 /\ informer[k].joining = 0 /\ informer[k].running = FALSE

\* What is attached to the cached informer or will be.
Watches ==
    starting + (IF cache = None THEN 0 ELSE informer[cache].handlers + informer[cache].joining)

\* A watch that is remembered for the cached informer is there or under way.
Believed == cache # None /\ watchStates = cache /\ informer[cache].running => Watches > 0

\* Before any informer has stopped there is one instance: it runs, everybody
\* who holds one holds it, and it is watched once it is remembered.
OneInstance ==
    ~stopped =>
        /\ \A p \in Pools : /\ pass[p].inf \in {None, cache}
                            /\ pass[p].pc \notin {"stopped", "removed"}
        /\ cache # None => informer[cache].running
        /\ watchStates \in {None, cache}
        /\ Watches <= 1
        /\ watchStates = None => Watches = 0

Inv == TypeOK /\ PassOK /\ Dropped /\ Believed /\ OneInstance

-----------------------------------------------------------------------------
(* A new instance.                                                         *)

\* None is not an instance.
LEMMA NoneIsNoInstance == None \notin Instances
BY DEF None, Instances

\* There is always one more instance than anybody can refer to.
LEMMA FreshFacts ==
    ASSUME TypeOK, PassOK
    PROVE  /\ Fresh \in Instances /\ Fresh # None /\ Fresh # watchStates
           /\ \A p \in Pools : pass[p].inf # Fresh
<1> DEFINE n == Cardinality(Pools)
           U == {pass[p].inf : p \in Pools}
           Used == U \cup {watchStates}
<1>1. n \in Nat
  BY PoolsAssumption, FS_CardinalityType
<1>2. IsFiniteSet(U) /\ Cardinality(U) <= n
  <2> DEFINE f == [p \in Pools |-> pass[p].inf]
  <2>1. f \in Surjection(Pools, U)
    BY DEF Surjection
  <2>2. QED
    BY <2>1, PoolsAssumption, FS_Surjection
<1>3. IsFiniteSet(Used) /\ Cardinality(Used) <= n + 1
  <2>1. ASSUME NEW S, IsFiniteSet(S), NEW x, NEW m \in Nat, Cardinality(S) <= m
        PROVE  IsFiniteSet(S \cup {x}) /\ Cardinality(S \cup {x}) <= m + 1
    <3>1. /\ IsFiniteSet(S \cup {x})
          /\ Cardinality(S \cup {x}) = IF x \in S THEN Cardinality(S) ELSE Cardinality(S) + 1
      BY <2>1, FS_AddElement
    <3>2. Cardinality(S) \in Nat
      BY <2>1, FS_CardinalityType
    <3>3. QED
      BY <2>1, <3>1, <3>2
  <2> HIDE DEF U, n
  <2>2. QED
    BY <1>1, <1>2, <2>1
<1>4. Cardinality(Instances) = n + 2
  <2>1. Instances = 1 .. n + 2
    BY DEF Instances
  <2>2. QED
    BY <1>1, <2>1, FS_Interval
<1>5. Cardinality(Used) \in Nat
  BY <1>3, FS_CardinalityType
<1>6. ~(Instances \subseteq Used)
  BY <1>1, <1>3, <1>4, <1>5, FS_Subset
<1>7. PICK k \in Instances : k \notin Used
  BY <1>6
<1>8. k \in Instances \ {watchStates} /\ \A p \in Pools : pass[p].inf # k
  BY <1>7
<1>9. QED
  BY <1>8, NoneIsNoInstance DEF Fresh

\* A build puts a running instance with nobody attached into the cache.
LEMMA BuildFacts ==
    ASSUME TypeOK, PassOK, Dropped, cache = None, NEW n \in Nat, Build(n)
    PROVE  /\ cache' \in Instances /\ cache' # None /\ cache' # watchStates
           /\ \A p \in Pools : pass[p].inf # cache'
           /\ informer' \in [Instances -> Informer]
           /\ informer'[cache'].running = TRUE
           /\ informer'[cache'].handlers = 0 /\ informer'[cache'].joining = n
           /\ \A k \in Instances : k # cache' => informer'[k] = informer[k]
<1>1. /\ Fresh \in Instances /\ Fresh # None /\ Fresh # watchStates
      /\ \A p \in Pools : pass[p].inf # Fresh
  BY FreshFacts
<1> HIDE DEF Fresh
<1>2. cache' = Fresh
  BY DEF Build
<1> DEFINE v == [Unbuilt EXCEPT !.running = TRUE, !.joining = n]
<1>3. informer' = [informer EXCEPT ![Fresh] = v]
  BY DEF Build
<1>4. Unbuilt \in Informer /\ Unbuilt.handlers = 0
  BY DEF Unbuilt, Informer, Many
<1>5. v \in Informer /\ v.running = TRUE /\ v.handlers = 0 /\ v.joining = n
  <2>1. ASSUME NEW A, NEW B, NEW C, NEW D, NEW a \in A, NEW d \in D,
               NEW r \in [running : A, synced : B, handlers : C, joining : D]
        PROVE  /\ [r EXCEPT !.running = a, !.joining = d]
                    \in [running : A, synced : B, handlers : C, joining : D]
               /\ [r EXCEPT !.running = a, !.joining = d].running = a
               /\ [r EXCEPT !.running = a, !.joining = d].handlers = r.handlers
               /\ [r EXCEPT !.running = a, !.joining = d].joining = d
    OBVIOUS
  <2>2. QED
    BY <1>4, <2>1 DEF Informer
<1>6. informer \in [Instances -> Informer]
  BY DEF TypeOK, Informer
<1> HIDE DEF v
<1>7. QED
  BY <1>1, <1>2, <1>3, <1>5, <1>6

-----------------------------------------------------------------------------
(* The steps.                                                              *)

\* TypeOK and PassOK together, with the parts of TypeOK that they add.
LEMMA TypeFrom ==
    ASSUME PassOK,
           served \in BOOLEAN, cache \in Instances \cup {None}, starting \in Nat,
           informer \in [Instances -> Informer], watchStates \in Instances \cup {None},
           pendingSince \in 0 .. Never, failureEmitted \in BOOLEAN, failing \in [Pools -> BOOLEAN],
           stopped \in BOOLEAN,
           budget \in [stop : Nat, race : Nat, watch : Nat, uninstall : Nat, served : BOOLEAN]
    PROVE  TypeOK
BY DEF TypeOK, PassOK, PassRecord, Informer

\* The same after a step.
LEMMA TypeNext ==
    ASSUME PassOK',
           served' \in BOOLEAN, cache' \in Instances \cup {None}, starting' \in Nat,
           informer' \in [Instances -> Informer], watchStates' \in Instances \cup {None},
           pendingSince' \in 0 .. Never, failureEmitted' \in BOOLEAN, failing' \in [Pools -> BOOLEAN],
           stopped' \in BOOLEAN,
           budget' \in [stop : Nat, race : Nat, watch : Nat, uninstall : Nat, served : BOOLEAN]
    PROVE  TypeOK'
BY DEF TypeOK, PassOK, PassRecord, Informer

\* Nothing is watched at the start.
LEMMA InitInv == Init => Inv
<1> SUFFICES ASSUME Init PROVE Inv
  OBVIOUS
<1>1. Idle \in PassRecord /\ Idle.pc = "idle" /\ Idle.inf = None
  BY DEF Idle, PassRecord
<1>2. \A p \in Pools : pass[p] = Idle
  BY DEF Init
<1>3. PassOK
  BY <1>1, <1>2 DEF Init, PassOK
<1>4. Unbuilt \in Informer /\ Unbuilt.handlers = 0 /\ Unbuilt.joining = 0 /\ Unbuilt.running = FALSE
  BY DEF Unbuilt, Informer, Many
<1>5. \A k \in Instances : informer[k] = Unbuilt
  BY DEF Init
<1>6. Dropped
  BY <1>4, <1>5 DEF Dropped
<1>7. /\ budget \in [stop : Nat, race : Nat, watch : Nat, uninstall : Nat, served : BOOLEAN]
      /\ served \in BOOLEAN
  BY ScenariosAssumption DEF Init
<1>8. informer \in [Instances -> Informer] /\ pendingSince \in 0 .. Never
      /\ failing \in [Pools -> BOOLEAN]
  BY <1>4, GraceAssumption DEF Init, Never
<1>9. TypeOK
  BY <1>3, <1>7, <1>8, TypeFrom DEF Init
<1>10. Believed /\ OneInstance
  BY <1>1, <1>2 DEF Init, Believed, OneInstance, Watches, None
<1>11. QED
  BY <1>3, <1>6, <1>9, <1>10 DEF Inv

\* A pass moves on by itself.
LEMMA GotoFacts ==
    ASSUME PassOK, NEW p \in Pools, NEW from, NEW to, Goto(p, from, to),
           to \in {"idle", "live", "stopped", "removed", "watched", "synced", "unsynced", "failed"},
           to \in {"live", "watched"} => from \in {"fetched", "live", "watched"}
    PROVE  /\ PassOK'
           /\ pass[p].pc = from /\ pass'[p].pc = to
           /\ pass'[p].inf \in {None, pass[p].inf}
           /\ \A q \in Pools : q # p => pass'[q] = pass[q]
<1> DEFINE v == [pc |-> to, inf |-> IF to \in {"live", "watched"} THEN pass[p].inf ELSE None]
<1>1. pass' = [pass EXCEPT ![p] = v] /\ pass[p].pc = from
  BY DEF Goto
<1>2. pass[p] \in PassRecord /\ pass[p].inf \in Instances \cup {None}
  BY DEF PassOK, PassRecord
<1>3. v \in PassRecord /\ v.pc = to /\ v.inf \in {None, pass[p].inf}
  BY <1>2 DEF PassRecord
<1>4. to \in {"live", "watched"} => v.inf # None
  BY <1>1 DEF PassOK
<1> HIDE DEF v
<1>5. pass' \in [Pools -> PassRecord] /\ pass'[p] = v /\ \A q \in Pools : q # p => pass'[q] = pass[q]
  BY <1>1, <1>3 DEF PassOK
<1>6. QED
  BY <1>1, <1>3, <1>4, <1>5 DEF PassOK

\* A disturbance takes one of a kind.
LEMMA DisturbFacts ==
    ASSUME TypeOK, NEW what \in {"stop", "race", "watch", "uninstall"}, Disturb(what)
    PROVE  budget' \in [stop : Nat, race : Nat, watch : Nat, uninstall : Nat, served : BOOLEAN]
<1>1. budget \in [stop : Nat, race : Nat, watch : Nat, uninstall : Nat, served : BOOLEAN]
  BY DEF TypeOK
<1>2. CASE what = "stop"
  BY <1>1, <1>2 DEF Disturb
<1>3. CASE what = "race"
  BY <1>1, <1>3 DEF Disturb
<1>4. CASE what = "watch"
  BY <1>1, <1>4 DEF Disturb
<1>5. CASE what = "uninstall"
  BY <1>1, <1>5 DEF Disturb
<1>6. QED
  BY <1>2, <1>3, <1>4, <1>5

\* A step that leaves the informers and the remembered instance alone.
LEMMA QuietStep ==
    ASSUME Inv, UNCHANGED <<library, watchStates>>, PassOK',
           served' \in BOOLEAN, pendingSince' \in 0 .. Never, failureEmitted' \in BOOLEAN,
           failing' \in [Pools -> BOOLEAN],
           budget' \in [stop : Nat, race : Nat, watch : Nat, uninstall : Nat, served : BOOLEAN],
           \A p \in Pools : /\ pass'[p].inf \in {None, pass[p].inf}
                            /\ ~stopped => pass'[p].pc \notin {"stopped", "removed"}
    PROVE  Inv'
<1>1. UNCHANGED <<cache, informer, starting, stopped, watchStates>>
  BY DEF library
<1>2. TypeOK'
  <2>1. /\ cache \in Instances \cup {None} /\ starting \in Nat
        /\ informer \in [Instances -> Informer] /\ watchStates \in Instances \cup {None}
        /\ stopped \in BOOLEAN
    BY DEF Inv, TypeOK, Informer
  <2>2. QED
    BY <1>1, <2>1, TypeNext
<1>3. Dropped' /\ Believed'
  BY <1>1 DEF Inv, Dropped, Believed, Watches
<1>4. OneInstance'
  <2> SUFFICES ASSUME ~stopped' PROVE OneInstance'
    BY DEF OneInstance
  <2>1. \A p \in Pools : pass[p].inf \in {None, cache}
    BY <1>1 DEF Inv, OneInstance
  <2>2. QED
    BY <1>1, <2>1 DEF Inv, OneInstance, Watches
<1>5. QED
  BY <1>2, <1>3, <1>4 DEF Inv

\* The types that most steps leave alone.
LEMMA TypesHeld ==
    ASSUME TypeOK
    PROVE  /\ served \in BOOLEAN /\ pendingSince \in 0 .. Never /\ failureEmitted \in BOOLEAN
           /\ failing \in [Pools -> BOOLEAN] /\ stopped \in BOOLEAN
           /\ budget \in [stop : Nat, race : Nat, watch : Nat, uninstall : Nat, served : BOOLEAN]
           /\ cache \in Instances \cup {None} /\ starting \in Nat
           /\ informer \in [Instances -> Informer] /\ watchStates \in Instances \cup {None}
BY DEF TypeOK, Informer

\* The steps of a pass on its own.
LEMMA PassInv ==
    ASSUME Inv, NEW p \in Pools,
           \/ GetInformerFails(p) \/ IsStopped(p) \/ RegisterFails(p) \/ HasSynced(p)
           \/ SyncPending(p) \/ WatchReady(p) \/ handleWatchFailure(p)
    PROVE  Inv'
<1>1. TypeOK /\ PassOK
  BY DEF Inv
<1>2. UNCHANGED <<library, watchStates, served>>
  BY DEF GetInformerFails, IsStopped, RegisterFails, HasSynced, SyncPending, WatchReady,
         handleWatchFailure, records
<1>3. budget' \in [stop : Nat, race : Nat, watch : Nat, uninstall : Nat, served : BOOLEAN]
  BY <1>1, DisturbFacts, TypesHeld DEF GetInformerFails, IsStopped, RegisterFails, HasSynced,
         SyncPending, WatchReady, handleWatchFailure
<1>4. pendingSince' \in 0 .. Never /\ failureEmitted' \in BOOLEAN /\ failing' \in [Pools -> BOOLEAN]
  <2>1. CASE SyncPending(p)
    <3>1. 0 \in 0 .. Never
      BY GraceAssumption DEF Never
    <3>2. QED
      BY <1>1, <2>1, <3>1, TypesHeld DEF SyncPending
  <2>2. CASE WatchReady(p)
    <3>1. Never \in 0 .. Never
      BY GraceAssumption DEF Never
    <3>2. QED
      BY <1>1, <2>2, <3>1, TypesHeld DEF WatchReady
  <2>3. CASE handleWatchFailure(p)
    BY <1>1, <2>3, TypesHeld DEF handleWatchFailure
  <2>4. CASE UNCHANGED <<records, failing>>
    BY <1>1, <2>4, TypesHeld DEF records
  <2>5. QED
    BY <2>1, <2>2, <2>3, <2>4 DEF GetInformerFails, IsStopped, RegisterFails, HasSynced
<1>5. /\ PassOK' /\ pass'[p].inf \in {None, pass[p].inf}
      /\ \A q \in Pools : q # p => pass'[q] = pass[q]
      /\ ~stopped => pass'[p].pc \notin {"stopped", "removed"}
  <2>1. CASE GetInformerFails(p)
    BY <1>1, <2>1, GotoFacts DEF GetInformerFails
  <2>2. CASE IsStopped(p)
    <3> DEFINE to == IF informer[pass[p].inf].running THEN "live" ELSE "stopped"
    <3>1. Goto(p, "fetched", to) /\ to \in {"live", "stopped"}
      BY <2>2 DEF IsStopped
    <3>2. ASSUME ~stopped PROVE to = "live"
      <4>1. pass[p].pc = "fetched"
        BY <3>1 DEF Goto
      <4>2. pass[p].inf # None /\ pass[p].inf = cache
        BY <3>2, <4>1 DEF Inv, OneInstance, PassOK
      <4>3. informer[cache].running
        BY <3>2, <4>2 DEF Inv, OneInstance
      <4>4. QED
        BY <4>2, <4>3
    <3> HIDE DEF to
    <3>3. /\ PassOK' /\ pass'[p].pc = to /\ pass'[p].inf \in {None, pass[p].inf}
          /\ \A q \in Pools : q # p => pass'[q] = pass[q]
      BY <1>1, <3>1, GotoFacts
    <3>4. QED
      BY <3>2, <3>3
  <2>3. CASE RegisterFails(p)
    BY <1>1, <2>3, GotoFacts DEF RegisterFails
  <2>4. CASE HasSynced(p)
    <3>1. PICK to \in {"synced", "unsynced"} : Goto(p, "watched", to)
      BY <2>4 DEF HasSynced
    <3>2. QED
      BY <1>1, <3>1, GotoFacts
  <2>5. CASE SyncPending(p)
    <3>1. PICK to \in {"idle", "failed"} : Goto(p, "unsynced", to)
      BY <2>5 DEF SyncPending
    <3>2. QED
      BY <1>1, <3>1, GotoFacts
  <2>6. CASE WatchReady(p)
    BY <1>1, <2>6, GotoFacts DEF WatchReady
  <2>7. CASE handleWatchFailure(p)
    BY <1>1, <2>7, GotoFacts DEF handleWatchFailure
  <2>8. QED
    BY <2>1, <2>2, <2>3, <2>4, <2>5, <2>6, <2>7
<1>6. \A q \in Pools : /\ pass'[q].inf \in {None, pass[q].inf}
                       /\ ~stopped => pass'[q].pc \notin {"stopped", "removed"}
  BY <1>5 DEF Inv, OneInstance
<1>7. served' \in BOOLEAN
  BY <1>1, <1>2, TypesHeld
<1>8. QED
  BY <1>2, <1>3, <1>4, <1>5, <1>6, <1>7, QuietStep

\* The cluster and the clock.
LEMMA ClusterInv ==
    ASSUME Inv, CRDChanges \/ Tick \/ UNCHANGED vars
    PROVE  Inv'
<1>1. TypeOK /\ PassOK
  BY DEF Inv
<1>2. UNCHANGED <<library, watchStates, pass, failing, failureEmitted>>
  BY DEF CRDChanges, Tick, vars, records, library
<1>3. budget' \in [stop : Nat, race : Nat, watch : Nat, uninstall : Nat, served : BOOLEAN]
  BY <1>1, DisturbFacts, TypesHeld DEF CRDChanges, Tick, vars
<1>4. served' \in BOOLEAN
  BY <1>1, TypesHeld DEF CRDChanges, Tick, vars
<1>5. pendingSince' \in 0 .. Never
  BY <1>1, TypesHeld, GraceAssumption DEF CRDChanges, Tick, vars, records, Never
<1>6. PassOK' /\ \A p \in Pools : /\ pass'[p].inf \in {None, pass[p].inf}
                                  /\ ~stopped => pass'[p].pc \notin {"stopped", "removed"}
  BY <1>1, <1>2 DEF Inv, OneInstance, PassOK
<1>7. failing' \in [Pools -> BOOLEAN] /\ failureEmitted' \in BOOLEAN
  BY <1>1, <1>2, TypesHeld
<1>8. QED
  BY <1>2, <1>3, <1>4, <1>5, <1>6, <1>7, QuietStep

\* Something happens to the informer in the cache, and nothing else.
LEMMA CachedStep ==
    ASSUME Inv, cache # None, NEW v \in Informer, informer' = [informer EXCEPT ![cache] = v],
           UNCHANGED <<served, cache, watchStates, pendingSince, failureEmitted, pass, failing>>,
           starting' \in Nat, stopped' \in BOOLEAN,
           budget' \in [stop : Nat, race : Nat, watch : Nat, uninstall : Nat, served : BOOLEAN],
           v.running => informer[cache].running,
           v.running /\ Watches > 0 => starting' + (v.handlers + v.joining) > 0,
           ~stopped' => ~stopped /\ (informer[cache].running => v.running),
           ~stopped' => (Watches <= 1 => starting' + (v.handlers + v.joining) <= Watches)
    PROVE  Inv'
<1>1. TypeOK /\ PassOK /\ cache \in Instances /\ informer \in [Instances -> Informer]
  BY TypesHeld DEF Inv
<1>2. /\ informer' \in [Instances -> Informer] /\ informer'[cache] = v
      /\ \A k \in Instances : k # cache => informer'[k] = informer[k]
  BY <1>1
<1>3. PassOK'
  BY <1>1 DEF PassOK
<1>4. TypeOK'
  <2>1. /\ served' \in BOOLEAN /\ cache' \in Instances \cup {None}
        /\ watchStates' \in Instances \cup {None}
        /\ pendingSince' \in 0 .. Never /\ failureEmitted' \in BOOLEAN
        /\ failing' \in [Pools -> BOOLEAN]
    BY <1>1, TypesHeld
  <2>2. QED
    BY <1>2, <1>3, <2>1, TypeNext
<1>5. Watches' = starting' + (v.handlers + v.joining)
  BY <1>2 DEF Watches
<1>6. Watches \in Nat /\ v.handlers \in Nat /\ v.joining \in Nat
  <2>1. informer[cache].handlers \in Nat /\ informer[cache].joining \in Nat
        /\ v.handlers \in Nat /\ v.joining \in Nat
    BY <1>1 DEF Informer, Many
  <2>2. starting \in Nat
    BY <1>1, TypesHeld
  <2>3. QED
    BY <2>1, <2>2 DEF Watches
<1> HIDE DEF Watches
<1>7. Dropped'
  BY <1>1, <1>2 DEF Inv, Dropped
<1>8. Believed'
  BY <1>2, <1>5 DEF Inv, Believed
<1>9. OneInstance'
  <2> SUFFICES ASSUME ~stopped' PROVE OneInstance'
    BY DEF OneInstance
  <2>1. /\ \A p \in Pools : /\ pass[p].inf \in {None, cache}
                            /\ pass[p].pc \notin {"stopped", "removed"}
        /\ informer[cache].running
        /\ watchStates \in {None, cache}
        /\ Watches <= 1
        /\ watchStates = None => Watches = 0
    BY DEF Inv, OneInstance
  <2>2. Watches' <= Watches /\ Watches' \in Nat
    BY <1>5, <1>6, <2>1
  <2>3. Watches' <= 1 /\ (watchStates' = None => Watches' = 0)
    BY <1>6, <2>1, <2>2
  <2>4. QED
    BY <1>2, <2>1, <2>3 DEF OneInstance
<1>10. QED
  BY <1>3, <1>4, <1>7, <1>8, <1>9 DEF Inv

\* The initial list completes.
LEMMA SyncInv == Inv /\ InformerSyncs => Inv'
<1> SUFFICES ASSUME Inv, InformerSyncs PROVE Inv'
  OBVIOUS
<1>1. TypeOK /\ cache # None /\ cache \in Instances /\ informer[cache] \in Informer
  BY TypesHeld DEF Inv, InformerSyncs
<1> DEFINE v == [informer[cache] EXCEPT !.synced = TRUE]
<1>2. informer' = [informer EXCEPT ![cache] = v]
  BY DEF InformerSyncs
<1>3. v \in Informer /\ v.running = informer[cache].running
      /\ v.handlers = informer[cache].handlers /\ v.joining = informer[cache].joining
  BY <1>1 DEF Informer
<1> HIDE DEF v
<1>4. /\ UNCHANGED <<served, cache, watchStates, pendingSince, failureEmitted, pass, failing>>
      /\ starting' = starting /\ stopped' = stopped /\ budget' = budget
  BY DEF InformerSyncs, records
<1>5. /\ informer[cache].handlers \in Nat /\ informer[cache].joining \in Nat /\ starting \in Nat
      /\ stopped' \in BOOLEAN
      /\ budget' \in [stop : Nat, race : Nat, watch : Nat, uninstall : Nat, served : BOOLEAN]
  BY <1>1, <1>4, TypesHeld DEF Informer, Many
<1>6. Watches = starting' + (v.handlers + v.joining) /\ Watches \in Nat /\ starting' \in Nat
  BY <1>1, <1>3, <1>4, <1>5 DEF Watches
<1> HIDE DEF Watches
<1>7. /\ starting' + (v.handlers + v.joining) <= Watches
      /\ Watches > 0 => starting' + (v.handlers + v.joining) > 0
  BY <1>6
<1>8. QED
  BY <1>1, <1>2, <1>3, <1>4, <1>5, <1>6, <1>7, CachedStep

\* A stopped informer serves nobody.
LEMMA StoppedFacts ==
    ASSUME NEW inf \in Informer
    PROVE  /\ Stopped(inf) \in Informer /\ Stopped(inf).running = FALSE
           /\ Stopped(inf).handlers = 0 /\ Stopped(inf).joining = 0
<1>1. /\ Unbuilt \in Informer /\ Unbuilt.handlers = 0 /\ Unbuilt.joining = 0
      /\ Unbuilt.running = FALSE
  BY DEF Unbuilt, Informer, Many
<1>2. inf.synced \in BOOLEAN
  BY DEF Informer
<1>3. ASSUME NEW A, NEW B, NEW C, NEW D, NEW b \in B,
             NEW r \in [running : A, synced : B, handlers : C, joining : D]
      PROVE  /\ [r EXCEPT !.synced = b] \in [running : A, synced : B, handlers : C, joining : D]
             /\ [r EXCEPT !.synced = b].running = r.running
             /\ [r EXCEPT !.synced = b].handlers = r.handlers
             /\ [r EXCEPT !.synced = b].joining = r.joining
  OBVIOUS
<1>4. QED
  BY <1>1, <1>2, <1>3 DEF Stopped, Informer

\* The cached informer stops.
LEMMA StopInv == Inv /\ InformerStops => Inv'
<1> SUFFICES ASSUME Inv, InformerStops PROVE Inv'
  OBVIOUS
<1>1. TypeOK /\ cache # None /\ cache \in Instances /\ informer[cache] \in Informer
  BY TypesHeld DEF Inv, InformerStops
<1> DEFINE v == Stopped(informer[cache])
<1>2. informer' = [informer EXCEPT ![cache] = v]
  BY DEF InformerStops
<1>3. v \in Informer /\ v.running = FALSE
  BY <1>1, StoppedFacts
<1> HIDE DEF v
<1>4. /\ UNCHANGED <<served, cache, watchStates, pendingSince, failureEmitted, pass, failing>>
      /\ starting' = starting /\ stopped' = TRUE
  BY DEF InformerStops, records
<1>5. budget' \in [stop : Nat, race : Nat, watch : Nat, uninstall : Nat, served : BOOLEAN]
  BY <1>1, DisturbFacts DEF InformerStops
<1>6. starting' \in Nat
  BY <1>1, <1>4, TypesHeld
<1>7. QED
  BY <1>1, <1>2, <1>3, <1>4, <1>5, <1>6, CachedStep

\* A source attaches our handler to the informer it waited for.
LEMMA HandlerInv == ASSUME Inv, NEW k \in Instances, HandlerAdded(k) PROVE Inv'
<1>1. k = cache /\ cache # None /\ TypeOK /\ cache \in Instances /\ informer[cache] \in Informer
  <2>1. informer[k].joining # 0
    BY DEF HandlerAdded
  <2>2. k = cache
    BY <2>1 DEF Inv, Dropped
  <2>3. QED
    BY <2>2, NoneIsNoInstance, TypesHeld DEF Inv
<1> DEFINE o == informer[cache]
           n == IF o.handlers = Many THEN Many ELSE o.handlers + 1
           v == [o EXCEPT !.joining = o.joining - 1, !.handlers = n]
<1>2. /\ o.handlers \in 0 .. Many /\ o.joining \in Nat /\ o.joining > 0
      /\ starting \in Nat /\ stopped \in BOOLEAN
      /\ budget \in [stop : Nat, race : Nat, watch : Nat, uninstall : Nat, served : BOOLEAN]
  BY <1>1, TypesHeld DEF HandlerAdded, Informer
<1>3. informer' = [informer EXCEPT ![cache] = v]
  <2>1. informer' = [informer EXCEPT ![k].joining = informer[k].joining - 1,
                        ![k].handlers = IF informer[k].handlers = Many THEN Many
                                        ELSE informer[k].handlers + 1]
    BY <1>1, TypesHeld DEF HandlerAdded, Informer
  <2>2. QED
    BY <1>1, <2>1, TypesHeld
<1>4. n \in 0 .. Many /\ o.joining - 1 \in Nat /\ n > 0 /\ n <= o.handlers + 1
  BY <1>2 DEF Many
<1> HIDE DEF n
<1>5. v \in Informer /\ v.running = o.running /\ v.handlers = n /\ v.joining = o.joining - 1
  BY <1>1, <1>4 DEF Informer
<1>6. /\ UNCHANGED <<served, cache, watchStates, pendingSince, failureEmitted, pass, failing>>
      /\ starting' = starting /\ stopped' = stopped /\ budget' = budget
  BY DEF HandlerAdded, records
<1>7. /\ Watches = starting + (o.handlers + o.joining)
      /\ starting' + (v.handlers + v.joining) > 0
      /\ starting' + (v.handlers + v.joining) <= Watches
  BY <1>1, <1>2, <1>4, <1>5, <1>6 DEF Watches, Many
<1> HIDE DEF Watches, v
<1>8. QED
  BY <1>1, <1>2, <1>3, <1>5, <1>6, <1>7, CachedStep

\* A source finds the informer of the kind, or builds it.
LEMMA JoinInv == Inv /\ SourceJoins => Inv'
<1> SUFFICES ASSUME Inv, SourceJoins PROVE Inv'
  OBVIOUS
<1>1. TypeOK /\ PassOK /\ Dropped /\ starting \in Nat /\ starting > 0 /\ starting' = starting - 1
  BY TypesHeld DEF Inv, SourceJoins
<1>2. /\ UNCHANGED <<served, watchStates, pendingSince, failureEmitted, pass, failing,
                     stopped, budget>>
      /\ stopped \in BOOLEAN /\ starting' \in Nat
      /\ budget' \in [stop : Nat, race : Nat, watch : Nat, uninstall : Nat, served : BOOLEAN]
  BY <1>1, TypesHeld DEF SourceJoins, records
<1>3. CASE cache # None
  <2> DEFINE o == informer[cache]
             n == IF o.running THEN o.joining + 1 ELSE o.joining
             v == [o EXCEPT !.joining = n]
  <2>1. cache \in Instances /\ o \in Informer /\ o.handlers \in Nat /\ o.joining \in Nat
    BY <1>1, <1>3, TypesHeld DEF Informer, Many
  <2>2. informer' = [informer EXCEPT ![cache] = v] /\ UNCHANGED cache
    <3>1. informer' = [informer EXCEPT ![cache].joining =
                          IF informer[cache].running THEN informer[cache].joining + 1
                          ELSE informer[cache].joining]
      BY <1>1, <1>3, <2>1, TypesHeld DEF SourceJoins
    <3>2. QED
      BY <1>3, <2>1, <3>1 DEF SourceJoins
  <2>3. n \in Nat /\ n <= o.joining + 1 /\ (o.running => n = o.joining + 1)
    BY <2>1
  <2> HIDE DEF n
  <2>4. v \in Informer /\ v.running = o.running /\ v.handlers = o.handlers /\ v.joining = n
    BY <2>1, <2>3 DEF Informer
  <2>5. /\ Watches = starting + (o.handlers + o.joining)
        /\ o.running => starting' + (v.handlers + v.joining) = Watches
        /\ starting' + (v.handlers + v.joining) <= Watches
        /\ Watches \in Nat
    BY <1>1, <1>3, <2>1, <2>3, <2>4 DEF Watches
  <2> HIDE DEF Watches, v
  <2>6. v.running /\ Watches > 0 => starting' + (v.handlers + v.joining) > 0
    BY <2>4, <2>5
  <2>7. QED
    BY <1>2, <1>3, <2>2, <2>4, <2>5, <2>6, CachedStep
<1>4. CASE cache = None
  <2>1. Build(1)
    BY <1>4 DEF SourceJoins
  <2>2. /\ cache' \in Instances /\ cache' # None /\ cache' # watchStates
        /\ informer' \in [Instances -> Informer]
        /\ \A k \in Instances : k # cache' => informer'[k] = informer[k]
    BY <1>1, <1>4, <2>1, BuildFacts
  <2>3. stopped
    <3>1. Watches = starting
      BY <1>1, <1>4 DEF Watches
    <3>2. QED
      BY <1>1, <1>4, <3>1 DEF Inv, OneInstance
  <2>4. PassOK'
    BY <1>1, <1>2 DEF PassOK
  <2>5. TypeOK'
    <3>1. /\ served' \in BOOLEAN /\ watchStates' \in Instances \cup {None}
          /\ pendingSince' \in 0 .. Never /\ failureEmitted' \in BOOLEAN
          /\ failing' \in [Pools -> BOOLEAN] /\ stopped' \in BOOLEAN
      BY <1>1, <1>2, TypesHeld
    <3>2. QED
      BY <1>2, <2>2, <2>4, <3>1, TypeNext
  <2>6. Dropped'
    BY <1>1, <1>4, <2>2, NoneIsNoInstance DEF Dropped
  <2>7. Believed' /\ OneInstance'
    BY <1>2, <2>2, <2>3 DEF Believed, OneInstance
  <2>8. QED
    BY <2>4, <2>5, <2>6, <2>7 DEF Inv
<1>5. QED
  BY <1>3, <1>4

\* A pass fetches the informer, or builds it.
LEMMA GetInv == ASSUME Inv, NEW p \in Pools, GetInformer(p) PROVE Inv'
<1>1. TypeOK /\ PassOK /\ Dropped
  BY DEF Inv
<1>2. /\ UNCHANGED <<served, starting, watchStates, pendingSince, failureEmitted, failing,
                     stopped, budget>>
      /\ starting' \in Nat
      /\ budget' \in [stop : Nat, race : Nat, watch : Nat, uninstall : Nat, served : BOOLEAN]
      /\ served' \in BOOLEAN /\ watchStates' \in Instances \cup {None}
      /\ pendingSince' \in 0 .. Never /\ failureEmitted' \in BOOLEAN
      /\ failing' \in [Pools -> BOOLEAN] /\ stopped' \in BOOLEAN
  BY <1>1, TypesHeld DEF GetInformer, records
<1>3. /\ cache' \in Instances /\ cache' # None /\ informer' \in [Instances -> Informer]
      /\ \/ UNCHANGED <<cache, informer>>
         \/ /\ cache = None /\ cache' # watchStates
            /\ informer'[cache'].running = TRUE
            /\ informer'[cache'].handlers = 0 /\ informer'[cache'].joining = 0
            /\ \A k \in Instances : k # cache' => informer'[k] = informer[k]
  <2>1. CASE cache # None
    BY <1>1, <2>1, TypesHeld DEF GetInformer, Lookup
  <2>2. CASE cache = None
    <3>1. Build(0)
      BY <2>2 DEF GetInformer, Lookup
    <3>2. QED
      BY <1>1, <2>2, <3>1, BuildFacts
  <2>3. QED
    BY <2>1, <2>2
<1>4. /\ PassOK'
      /\ pass'[p].pc = "fetched" /\ pass'[p].inf = cache'
      /\ \A q \in Pools : q # p => pass'[q] = pass[q]
  <2> DEFINE v == [pc |-> "fetched", inf |-> cache']
  <2>1. pass' = [pass EXCEPT ![p] = v]
    BY DEF GetInformer
  <2>2. v \in PassRecord /\ v.pc = "fetched" /\ v.inf = cache'
    BY <1>3 DEF PassRecord
  <2> HIDE DEF v
  <2>3. pass' \in [Pools -> PassRecord] /\ pass'[p] = v /\ \A q \in Pools : q # p => pass'[q] = pass[q]
    BY <1>1, <2>1, <2>2 DEF PassOK
  <2>4. QED
    BY <1>1, <1>3, <2>2, <2>3 DEF PassOK
<1>5. TypeOK'
  BY <1>2, <1>3, <1>4, TypeNext
<1>6. Dropped'
  BY <1>1, <1>3, NoneIsNoInstance DEF Dropped
<1>7. Believed'
  BY <1>2, <1>3 DEF Inv, Believed, Watches
<1>8. OneInstance'
  <2> SUFFICES ASSUME ~stopped' PROVE OneInstance'
    BY DEF OneInstance
  <2>1. /\ \A q \in Pools : /\ pass[q].inf \in {None, cache}
                            /\ pass[q].pc \notin {"stopped", "removed"}
        /\ cache # None => informer[cache].running
        /\ watchStates \in {None, cache} /\ Watches <= 1
        /\ watchStates = None => Watches = 0
    BY <1>2 DEF Inv, OneInstance
  <2>2. CASE UNCHANGED <<cache, informer>>
    <3>1. Watches' = Watches
      BY <1>2, <2>2 DEF Watches
    <3>2. QED
      BY <1>2, <1>3, <1>4, <2>1, <2>2, <3>1 DEF OneInstance
  <2>3. CASE /\ cache = None
             /\ informer'[cache'].running = TRUE
             /\ informer'[cache'].handlers = 0 /\ informer'[cache'].joining = 0
    <3>1. watchStates = None /\ Watches = 0
      BY <2>1, <2>3
    <3>2. starting = 0
      BY <1>2, <2>3, <3>1 DEF Watches
    <3>3. Watches' = 0
      BY <1>2, <1>3, <2>3, <3>2 DEF Watches
    <3>4. \A q \in Pools : /\ pass'[q].inf \in {None, cache'}
                           /\ pass'[q].pc \notin {"stopped", "removed"}
      BY <1>4, <2>1, <2>3
    <3>5. QED
      BY <1>2, <2>3, <3>1, <3>3, <3>4 DEF OneInstance
  <2>4. QED
    BY <1>3, <2>2, <2>3
<1>9. QED
  BY <1>4, <1>5, <1>6, <1>7, <1>8 DEF Inv

\* A pass that found its informer stopped drops the one in the cache; that
\* happens only once an informer has stopped.
LEMMA RemoveInv == ASSUME Inv, NEW p \in Pools, RemoveInformer(p) PROVE Inv'
<1>1. TypeOK /\ PassOK /\ Dropped /\ Goto(p, "stopped", "removed")
  BY DEF Inv, RemoveInformer
<1>2. /\ PassOK' /\ pass[p].pc = "stopped"
  BY <1>1, GotoFacts
<1>3. stopped
  BY <1>2 DEF Inv, OneInstance
<1>4. /\ UNCHANGED <<served, starting, watchStates, pendingSince, failureEmitted, failing, stopped>>
      /\ cache' = None
      /\ informer' = [k \in Instances |->
                         IF k = cache THEN Stopped(informer[k]) ELSE informer[k]]
  BY DEF RemoveInformer, records
<1>5. budget' \in [stop : Nat, race : Nat, watch : Nat, uninstall : Nat, served : BOOLEAN]
  BY <1>1, DisturbFacts, TypesHeld DEF RemoveInformer
<1>6. \A k \in Instances : informer[k] \in Informer
  BY <1>1, TypesHeld
<1>7. \A k \in Instances :
         /\ informer'[k] \in Informer
         /\ informer'[k].handlers = 0 /\ informer'[k].joining = 0 /\ informer'[k].running = FALSE
  <2> SUFFICES ASSUME NEW k \in Instances
               PROVE  /\ informer'[k] \in Informer
                      /\ informer'[k].handlers = 0 /\ informer'[k].joining = 0
                      /\ informer'[k].running = FALSE
    OBVIOUS
  <2>1. CASE k = cache
    <3>1. informer'[k] = Stopped(informer[k])
      BY <1>4, <2>1
    <3>2. /\ Stopped(informer[k]) \in Informer /\ Stopped(informer[k]).running = FALSE
          /\ Stopped(informer[k]).handlers = 0 /\ Stopped(informer[k]).joining = 0
      BY <1>6, StoppedFacts
    <3> HIDE DEF Stopped
    <3>3. QED
      BY <3>1, <3>2
  <2>2. CASE k # cache
    <3>1. informer'[k] = informer[k]
      BY <1>4, <2>2
    <3>2. QED
      BY <1>1, <1>6, <2>2, <3>1 DEF Dropped
  <2>3. QED
    BY <2>1, <2>2
<1>8. informer' \in [Instances -> Informer]
  BY <1>4, <1>7
<1>9. TypeOK'
  <2>1. /\ served' \in BOOLEAN /\ watchStates' \in Instances \cup {None} /\ starting' \in Nat
        /\ pendingSince' \in 0 .. Never /\ failureEmitted' \in BOOLEAN
        /\ failing' \in [Pools -> BOOLEAN] /\ stopped' \in BOOLEAN
    BY <1>1, <1>4, TypesHeld
  <2>2. QED
    BY <1>2, <1>4, <1>5, <1>8, <2>1, TypeNext
<1>10. QED
  BY <1>2, <1>3, <1>4, <1>7, <1>9 DEF Inv, Dropped, Believed, OneInstance

\* A watch is registered, or the instance is forgotten.
LEMMA RegisterInv == ASSUME Inv, NEW p \in Pools, Register(p) \/ Forget(p) PROVE Inv'
<1>1. TypeOK /\ PassOK /\ Dropped
  BY DEF Inv
<1>2. /\ UNCHANGED <<served, cache, informer, pendingSince, failureEmitted, failing,
                     stopped, budget>>
      /\ budget' \in [stop : Nat, race : Nat, watch : Nat, uninstall : Nat, served : BOOLEAN]
      /\ served' \in BOOLEAN /\ cache' \in Instances \cup {None}
      /\ informer' \in [Instances -> Informer]
      /\ pendingSince' \in 0 .. Never /\ failureEmitted' \in BOOLEAN
      /\ failing' \in [Pools -> BOOLEAN] /\ stopped' \in BOOLEAN
  BY <1>1, TypesHeld DEF Register, Forget, library
<1>3. PICK from \in {"live", "removed"}, to \in {"watched", "failed"} :
         Goto(p, from, to) /\ (to = "watched" <=> from = "live")
  BY DEF Register, Forget
<1>4. /\ PassOK' /\ pass[p].pc = from /\ pass'[p].pc = to
      /\ pass'[p].inf \in {None, pass[p].inf}
      /\ \A q \in Pools : q # p => pass'[q] = pass[q]
  BY <1>1, <1>3, GotoFacts
<1>5. Dropped'
  BY <1>1, <1>2 DEF Dropped
<1>6. starting \in Nat /\ Watches \in Nat
  <2>1. cache # None => informer[cache].handlers \in Nat /\ informer[cache].joining \in Nat
    BY <1>1, TypesHeld DEF Informer, Many
  <2>2. starting \in Nat
    BY <1>1, TypesHeld
  <2>3. QED
    BY <2>1, <2>2 DEF Watches
<1>7. CASE Forget(p)
  <2>1. stopped /\ watchStates' = None /\ starting' = starting
    <3>1. pass[p].pc = "removed"
      BY <1>7 DEF Forget, Goto
    <3>2. QED
      BY <1>7, <3>1 DEF Inv, OneInstance, Forget, library
  <2>2. TypeOK'
    BY <1>2, <1>4, <1>6, <2>1, TypeNext
  <2>3. Believed' /\ OneInstance'
    BY <1>2, <2>1 DEF Believed, OneInstance
  <2>4. QED
    BY <1>4, <1>5, <2>2, <2>3 DEF Inv
<1>8. CASE Register(p)
  <2>1. pass[p].pc = "live" /\ pass[p].inf # None /\ pass[p].inf \in Instances \cup {None}
    BY <1>1, <1>8 DEF Register, Goto, PassOK, PassRecord
  <2>2. /\ watchStates' = pass[p].inf
        /\ starting' = IF watchStates # pass[p].inf THEN starting + 1 ELSE starting
    BY <1>8 DEF Register
  <2>3. TypeOK'
    <3>1. watchStates' \in Instances \cup {None} /\ starting' \in Nat
      BY <1>6, <2>1, <2>2
    <3>2. QED
      BY <1>2, <1>4, <3>1, TypeNext
  <2>4. Watches' = IF watchStates # pass[p].inf THEN Watches + 1 ELSE Watches
    <3>1. Watches' = (Watches - starting) + starting'
      <4>1. cache # None => informer[cache].handlers \in Nat /\ informer[cache].joining \in Nat
        BY <1>1, TypesHeld DEF Informer, Many
      <4>2. starting' \in Nat
        BY <1>6, <2>2
      <4>3. QED
        BY <1>2, <1>6, <4>1, <4>2 DEF Watches
    <3>2. QED
      BY <1>6, <2>2, <3>1
  <2> HIDE DEF Watches
  <2>5. Believed'
    BY <1>2, <1>6, <2>2, <2>4 DEF Inv, Believed
  <2>6. OneInstance'
    <3> SUFFICES ASSUME ~stopped' PROVE OneInstance'
      BY DEF OneInstance
    <3>1. /\ \A q \in Pools : /\ pass[q].inf \in {None, cache}
                              /\ pass[q].pc \notin {"stopped", "removed"}
          /\ cache # None => informer[cache].running
          /\ watchStates \in {None, cache} /\ Watches <= 1
          /\ watchStates = None => Watches = 0
      BY <1>2 DEF Inv, OneInstance
    <3>2. watchStates' = cache /\ cache # None
      BY <2>1, <2>2, <3>1
    <3>3. Watches' <= 1
      BY <1>6, <2>1, <2>4, <3>1
    <3>4. \A q \in Pools : /\ pass'[q].inf \in {None, cache'}
                           /\ pass'[q].pc \notin {"stopped", "removed"}
      BY <1>2, <1>4, <3>1
    <3>5. QED
      BY <1>2, <3>1, <3>2, <3>3, <3>4 DEF OneInstance
  <2>7. QED
    BY <1>4, <1>5, <2>3, <2>5, <2>6 DEF Inv
<1>9. QED
  BY <1>7, <1>8

\* Every step keeps the invariant.
LEMMA NextInv == Inv /\ [Next]_vars => Inv'
<1> SUFFICES ASSUME Inv, [Next]_vars PROVE Inv'
  OBVIOUS
<1>1. CASE CRDChanges \/ Tick \/ UNCHANGED vars
  BY <1>1, ClusterInv
<1>2. CASE Library \/ InformerStops
  BY <1>2, SyncInv, JoinInv, HandlerInv, StopInv DEF Library
<1>3. ASSUME NEW p \in Pools, Reconcile(p) PROVE Inv'
  BY <1>3, GetInv, PassInv, RemoveInv, RegisterInv DEF Reconcile
<1>4. QED
  BY <1>1, <1>2, <1>3 DEF Next

\* The invariant says what is promised.
LEMMA InvWatched == Inv => WatchedOnce
<1> SUFFICES ASSUME Inv PROVE WatchedOnce
  OBVIOUS
<1>1. TypeOK
  BY DEF Inv
<1>2. CASE cache = None
  BY <1>1, <1>2 DEF WatchedOnce
<1>3. CASE cache # None
  <2>1. informer[cache].handlers \in Nat /\ informer[cache].joining \in Nat /\ starting \in Nat
    BY <1>1, <1>3, TypesHeld DEF Informer, Many
  <2>2. Watches = informer[cache].handlers + informer[cache].joining + starting
    BY <1>3, <2>1 DEF Watches
  <2>3. QED
    BY <1>1, <1>3, <2>2 DEF Inv, WatchedOnce, Believed, OneInstance
<1>4. QED
  BY <1>2, <1>3

\* "Identity is the whole test": for any number of pools, and whatever stops,
\* is removed by the wrong worker or fails, a remembered watch on a running
\* informer is there or under way; and without a stopped informer there is
\* one, however many pools meet the kind at once.
THEOREM WatchBelievedIsThere == Spec => []WatchedOnce
BY InitInv, NextInv, InvWatched, PTL DEF Spec
=============================================================================

-------------------------------- MODULE Watch --------------------------------
(***************************************************************************)
(* How passes of several pools share one watch on the workload kind they   *)
(* have in common: ensureWatch (internal/controller/watch.go), and         *)
(* setUpWatch and handleWatchFailure, which turn its outcome into an exit  *)
(* of the pass (podpool_controller.go).                                    *)
(*                                                                         *)
(* The passes run concurrently.  What they share lies under watchMu, but   *)
(* the informer is fetched, tested and removed outside of it, and the      *)
(* handler is attached later, by a goroutine of controller-runtime, to     *)
(* whichever informer the cache holds then.  Kinds do not interact (every  *)
(* map is keyed by GVK), so one kind is enough.                            *)
(***************************************************************************)
EXTENDS Naturals, FiniteSets

CONSTANTS
    Pools,         \* pools of this kind, each reconciled by one worker at a time
    Grace,         \* watchSyncGrace, in ticks
    Scenarios      \* how often each disturbance may happen, and whether the
                   \* kind is served from the start

ASSUME PoolsAssumption == Pools # {} /\ IsFiniteSet(Pools)
ASSUME GraceAssumption == Grace \in Nat \ {0}
ASSUME ScenariosAssumption ==
    Scenarios \subseteq [stop : Nat, race : Nat, watch : Nat, uninstall : Nat,
                         served : BOOLEAN]

VARIABLES
    served,         \* the API server serves the kind
    cache,          \* the informer the cache holds for the kind, or None
    informer,       \* the informer instances somebody may still refer to
    starting,       \* sources that have not looked up their informer yet
    watchStates,    \* the instance our handler is thought to be on, or None
    pendingSince,   \* how long ago the kind was first found unsynced, or Never
    failureEmitted, \* the outage has been reported by an event
    pass,           \* per pool: where its pass is, and the instance it holds
    failing,        \* per pool: its conditions report a failed watch
    stopped,        \* an informer has stopped in this behaviour (history)
    budget          \* what is left of the behaviour's scenario

records == <<watchStates, pendingSince, failureEmitted>>
library == <<cache, informer, starting, stopped>>
vars == <<served, cache, informer, starting, watchStates, pendingSince,
          failureEmitted, pass, failing, stopped, budget>>

-----------------------------------------------------------------------------
None      == 0
Instances == 1 .. Cardinality(Pools) + 2
Never     == Grace + 1

\* Handlers are counted up to "several".
Many == 2

\* "joining" sources have looked this instance up and wait for it to sync.
Unbuilt == [running |-> FALSE, synced |-> FALSE, handlers |-> 0, joining |-> 0]
Idle    == [pc |-> "idle", inf |-> None]

Disturb(what) ==
    /\ budget[what] > 0
    /\ budget' = [budget EXCEPT ![what] = @ - 1]

Init ==
    /\ budget \in Scenarios
    /\ served = budget.served
    /\ cache = None /\ starting = 0 /\ stopped = FALSE
    /\ informer = [k \in Instances |-> Unbuilt]
    /\ watchStates = None /\ pendingSince = Never /\ failureEmitted = FALSE
    /\ pass = [p \in Pools |-> Idle]
    /\ failing = [p \in Pools |-> FALSE]

\* From one step to the next; the instance is held while it is still needed.
Goto(p, from, to) ==
    /\ pass[p].pc = from
    /\ pass' = [pass EXCEPT ![p] =
                   [pc |-> to, inf |-> IF to \in {"live", "watched"} THEN @.inf ELSE None]]

-----------------------------------------------------------------------------
(* The informer cache.                                                     *)

\* A new informer is none that anybody still refers to.
Fresh == CHOOSE k \in Instances \ {watchStates} : \A p \in Pools : pass[p].inf # k

Build(joining) ==
    /\ cache' = Fresh
    /\ informer' = [informer EXCEPT ![Fresh] =
                       [Unbuilt EXCEPT !.running = TRUE, !.joining = joining]]

\* A lookup that finds an informer returns it; one that finds none builds it.
Lookup == IF cache # None THEN UNCHANGED <<cache, informer>> ELSE Build(0)

\* Building fails on a kind that is not served, unless the REST mapper still
\* remembers it: then the informer is built and never syncs.
LookupFails == ~served /\ cache = None

\* The initial list completes.
InformerSyncs ==
    /\ served /\ cache # None
    /\ informer[cache].running /\ ~informer[cache].synced
    /\ informer' = [informer EXCEPT ![cache].synced = TRUE]
    /\ UNCHANGED <<served, cache, starting, stopped, records, pass, failing, budget>>

\* A stopped informer delivers to no handler and takes none; it keeps saying
\* whether it had synced.
Stopped(inf) == [Unbuilt EXCEPT !.synced = inf.synced]

\* The informer in the cache stops on its own.
InformerStops ==
    /\ Disturb("stop")
    /\ cache # None /\ informer[cache].running
    /\ informer' = [informer EXCEPT ![cache] = Stopped(@)]
    /\ stopped' = TRUE
    /\ UNCHANGED <<served, cache, starting, records, pass, failing>>

\* source.Kind's goroutine: looks the informer up (again and again if that
\* fails) and waits for it to sync ...
SourceJoins ==
    /\ starting > 0
    /\ IF cache # None
       THEN /\ informer' = [informer EXCEPT ![cache].joining =
                               IF informer[cache].running THEN @ + 1 ELSE @]
            /\ UNCHANGED cache
       ELSE served /\ Build(1)
    /\ starting' = starting - 1
    /\ UNCHANGED <<served, stopped, records, pass, failing, budget>>

\* ... and adds our handler.  A source that met a stopped informer is lost.
HandlerAdded(k) ==
    /\ informer[k].joining > 0 /\ informer[k].synced
    /\ informer' = [informer EXCEPT ![k].joining = @ - 1,
                       ![k].handlers = IF @ = Many THEN Many ELSE @ + 1]
    /\ UNCHANGED <<served, cache, starting, stopped, records, pass, failing, budget>>

-----------------------------------------------------------------------------
(* ensureWatch, one action per step that another worker may come between.  *)

\* GetInformer, asked not to block.
GetInformer(p) ==
    /\ pass[p].pc = "idle"
    /\ Lookup
    /\ pass' = [pass EXCEPT ![p] = [pc |-> "fetched", inf |-> cache']]
    /\ UNCHANGED <<served, starting, stopped, records, failing, budget>>

GetInformerFails(p) ==
    /\ LookupFails
    /\ Goto(p, "idle", "failed")
    /\ UNCHANGED <<served, library, records, failing, budget>>

IsStopped(p) ==
    /\ Goto(p, "fetched", IF informer[pass[p].inf].running THEN "live" ELSE "stopped")
    /\ UNCHANGED <<served, library, records, failing, budget>>

\* The instance the cache holds now is stopped and dropped, whichever it is.
\* That it has been fetched by another worker who has not tested it yet, one
\* statement later, is a disturbance.
RemoveInformer(p) ==
    /\ Goto(p, "stopped", "removed")
    /\ IF cache # None /\ \E q \in Pools \ {p} : pass[q] = [pc |-> "fetched", inf |-> cache]
                                                 /\ informer[cache].running
       THEN Disturb("race") ELSE UNCHANGED budget
    /\ cache' = None
    /\ informer' = [k \in Instances |->
                       IF k = cache THEN Stopped(informer[k]) ELSE informer[k]]
    /\ UNCHANGED <<served, starting, stopped, records, failing>>

Forget(p) ==
    /\ Goto(p, "removed", "failed")
    /\ watchStates' = None
    /\ UNCHANGED <<served, library, pendingSince, failureEmitted, failing, budget>>

\* Mutant of Register: any remembered instance will do.
RegisterOncePerKind(p) ==
    /\ Goto(p, "live", "watched")
    /\ IF watchStates = None
       THEN starting' = starting + 1 /\ watchStates' = pass[p].inf
       ELSE UNCHANGED <<starting, watchStates>>
    /\ UNCHANGED <<served, cache, informer, stopped, pendingSince, failureEmitted, failing, budget>>

\* Under the lock: a different instance than the one remembered gets a watch.
Register(p) ==
    /\ Goto(p, "live", "watched")
    /\ IF watchStates # pass[p].inf
       THEN starting' = starting + 1 /\ watchStates' = pass[p].inf
       ELSE UNCHANGED <<starting, watchStates>>
    /\ UNCHANGED <<served, cache, informer, stopped, pendingSince, failureEmitted, failing, budget>>

\* Mutant of RegisterFails: the instance is remembered before the watch is
\* known to be there.
RegisterFailsRemembers(p) ==
    /\ Goto(p, "live", "failed")
    /\ watchStates # pass[p].inf
    /\ Disturb("watch")
    /\ watchStates' = pass[p].inf
    /\ UNCHANGED <<served, library, pendingSince, failureEmitted, failing>>

\* ctrl.Watch fails: nothing is remembered.
RegisterFails(p) ==
    /\ Goto(p, "live", "failed")
    /\ watchStates # pass[p].inf
    /\ Disturb("watch")
    /\ UNCHANGED <<served, library, records, failing>>

HasSynced(p) ==
    /\ Goto(p, "watched", IF informer[pass[p].inf].synced THEN "synced" ELSE "unsynced")
    /\ UNCHANGED <<served, library, records, failing, budget>>

\* Mutant of SyncPending: the wait starts anew with every pass.
SyncPendingRestarts(p) ==
    /\ Goto(p, "unsynced", "idle")
    /\ pendingSince' = 0
    /\ UNCHANGED <<served, library, watchStates, failureEmitted, failing, budget>>

\* Within the grace period the pass ends with nothing written.
SyncPending(p) ==
    /\ LET since == IF pendingSince = Never THEN 0 ELSE pendingSince IN
       /\ pendingSince' = since
       /\ Goto(p, "unsynced", IF since < Grace THEN "idle" ELSE "failed")
    /\ UNCHANGED <<served, library, watchStates, failureEmitted, failing, budget>>

\* The bookkeeping is cleared and the pass carries on to its status write.
WatchReady(p) ==
    /\ Goto(p, "synced", "idle")
    /\ pendingSince' = Never
    /\ failureEmitted' = FALSE
    /\ failing' = [failing EXCEPT ![p] = FALSE]
    /\ UNCHANGED <<served, library, watchStates, budget>>

\* setUpWatch and handleWatchFailure: conditions on the pool, one event for
\* the kind, an error that backs off.
handleWatchFailure(p) ==
    /\ Goto(p, "failed", "idle")
    /\ failureEmitted' = TRUE
    /\ failing' = [failing EXCEPT ![p] = TRUE]
    /\ UNCHANGED <<served, library, watchStates, pendingSince, budget>>

-----------------------------------------------------------------------------
(* The cluster.                                                            *)

\* The CRD is installed, or removed again.
CRDChanges ==
    /\ IF served THEN Disturb("uninstall") ELSE UNCHANGED budget
    /\ served' = ~served
    /\ UNCHANGED <<library, records, pass, failing>>

Tick ==
    /\ pendingSince < Grace
    /\ pendingSince' = pendingSince + 1
    /\ UNCHANGED <<served, library, watchStates, failureEmitted, pass, failing, budget>>

-----------------------------------------------------------------------------
Reconcile(p) ==
    \/ GetInformer(p) \/ GetInformerFails(p) \/ IsStopped(p)
    \/ RemoveInformer(p) \/ Forget(p)
    \/ Register(p) \/ RegisterFails(p) \/ HasSynced(p)
    \/ SyncPending(p) \/ WatchReady(p) \/ handleWatchFailure(p)

Library == InformerSyncs \/ SourceJoins \/ \E k \in Instances : HandlerAdded(k)

Next ==
    \/ \E p \in Pools : Reconcile(p)
    \/ Library \/ InformerStops
    \/ CRDChanges \/ Tick

\* Every exit of a pass is followed by another pass: 2 s after a pending
\* sync, after a backoff on an error, after reconcileFloor otherwise.  The
\* goroutines of the library run, and time passes.
Fairness ==
    /\ \A p \in Pools : SF_vars(Reconcile(p))
    /\ WF_vars(InformerSyncs) /\ WF_vars(SourceJoins)
    /\ \A k \in Instances : WF_vars(HandlerAdded(k))
    /\ WF_vars(Tick)

Spec == Init /\ [][Next]_vars /\ Fairness

-----------------------------------------------------------------------------
(* What the shared watch promises.                                         *)

\* The types of the variables.
TypeOK ==
    /\ served \in BOOLEAN
    /\ cache \in Instances \cup {None} /\ starting \in Nat
    /\ informer \in [Instances -> [running : BOOLEAN, synced : BOOLEAN,
                                   handlers : 0 .. Many, joining : Nat]]
    /\ watchStates \in Instances \cup {None}
    /\ pendingSince \in 0 .. Never
    /\ failureEmitted \in BOOLEAN
    /\ \A p \in Pools :
          /\ pass[p].pc \in {"idle", "fetched", "live", "stopped", "removed",
                             "watched", "synced", "unsynced", "failed"}
          /\ pass[p].inf \in Instances \cup {None}
    /\ failing \in [Pools -> BOOLEAN]
    /\ stopped \in BOOLEAN
    /\ budget \in [stop : Nat, race : Nat, watch : Nat, uninstall : Nat,
                    served : BOOLEAN]

\* "Identity is the whole test", "Watch once per informer instance".  When
\* the remembered instance is the one in the cache and it runs, our handler
\* is on it or a source that will put it there is under way: no interleaving
\* of rebuilds and registrations makes ensureWatch believe in a watch nobody
\* set up.  And as long as no informer has stopped, the kind gets one
\* handler, however many pools meet it at once.  (After a stop a slow pass
\* may register a second one; see the README.)
WatchedOnce ==
    /\ TypeOK
    /\ cache # None =>
          LET watches == informer[cache].handlers + informer[cache].joining + starting IN
          /\ watchStates = cache /\ informer[cache].running => watches > 0
          /\ ~stopped => watches <= 1

Observed ==
    /\ cache # None /\ watchStates = cache
    /\ informer[cache].running /\ informer[cache].handlers > 0
    /\ \A p \in Pools : ~failing[p]
    /\ pendingSince = Never /\ ~failureEmitted

\* Once the kind stays served and informers stop stopping, it is observed for
\* good by an informer with our handler, no pool reports a failed watch, and
\* the record of every earlier failure is gone.
EventuallyObserved == <>[]served => <>[]Observed

Unsynced == cache = None \/ ~informer[cache].synced

\* A kind that never syncs (its CRD is missing) does not pend for ever: every
\* pool of the kind ends up reporting it, and the event is sent.
MissingKindReported ==
    <>[]Unsynced => <>[](failureEmitted /\ \A p \in Pools : failing[p])

=============================================================================

--------------------------- MODULE ConfigPersistence ---------------------------
(***************************************************************************)
(* How the configuration is changed in memory and written to its file:     *)
(* BaseConfigHandler with instant and delayed saves, the configuration     *)
(* page, which posts back everything it loaded, those who change parts of  *)
(* the configuration meanwhile, and what a restart finds.                  *)
(*                                                                         *)
(* A configuration object is posted by the page or loaded from the file,   *)
(* objects are numbered in the order in which they came to be. The bean    *)
(* BaseConfig refers to the parts of such objects, one part after the      *)
(* other is replaced. Of the parts four are modelled: main for all parts   *)
(* only the page changes, the indexer's status, the saved searches, and    *)
(* the generic storage, a map which a posted configuration takes over from *)
(* the one before.                                                         *)
(***************************************************************************)
EXTENDS Integers, FiniteSets

CONSTANTS
    Keys,          \* keys written to the generic storage, each by a request of its own
    SavedSearches, \* searches users save, each by a request of its own
    Calls,         \* calls to the indexer which end with a new status
    MaxConfigs,    \* bound: configuration objects
    MaxErrors,     \* bound: writes of the file which fail, after all retries
    MaxLoads       \* bound: restarts and reloads

\* The admin and the timer are threads of their own, and every thread does one thing.
ASSUME ThreadsAssumption ==
    /\ {"admin", "timer", "free"} \cap (Keys \cup SavedSearches \cup Calls) = {}
    /\ Keys \cap SavedSearches = {} /\ (Keys \cup SavedSearches) \cap Calls = {}
ASSUME BoundsAssumption == MaxConfigs \in Nat \ {0} /\ MaxErrors \in Nat /\ MaxLoads \in Nat

VARIABLES
    objects,   \* configuration objects
    created,   \* how many there are
    bean,      \* BaseConfigHandler.baseConfig: the object each part belongs to
    provided,  \* ConfigProvider.baseConfig: an object, 0 for the bean
    instance,  \* the object of which the Indexer has its IndexerConfig
    toSave,    \* whether BaseConfigHandler.toSave is set
    lock,      \* who holds saveLock
    writing,   \* what the holder of saveLock is about to write, Initially for the others
    file,      \* content of the file
    page,      \* what the page shows of what others change too
    pc,        \* where each thread is
    calling,   \* the object to which each running call will write, 1 if none runs
    \* history
    posted,    \* the object posted last
    acked,     \* the object posted last whose saving was answered with success
    errors, restarts, reloads

refVars     == <<bean, provided, instance>>
saveVars    == <<toSave, lock, writing, file>>
historyVars == <<posted, acked, errors, restarts, reloads>>
vars == <<objects, created, refVars, saveVars, page, pc, calling, historyVars>>

Parts == {"main", "indexers", "searching", "storage"}
Savers == {"admin"} \cup Keys \cup SavedSearches
Threads == Savers \cup {"timer"} \cup Calls
Statuses == {"ok", "failed"}
AdminSteps == {"idle", "main", "indexers", "searching", "storage", "publish", "load", "save", "write"}
OtherSteps == {"idle", "save", "write", "done", "failed", "calling", "request", "dead"}

\* What is written to the file. The parts which only the page changes are identified
\* with the object they were posted in, the others carry that number as well.
Content == [main : 1..MaxConfigs, indexers : 1..MaxConfigs, searching : 1..MaxConfigs,
            status : Statuses, searches : SUBSET SavedSearches, keys : SUBSET Keys]

\* What the page posts back unchanged of a configuration.
Page == [status : Statuses, searches : SUBSET SavedSearches, keys : SUBSET Keys]
Shown(content) == [status |-> content.status, searches |-> content.searches, keys |-> content.keys]

\* An object; storage is the one whose map it refers to.
Object == [main : 1..MaxConfigs, indexers : 1..MaxConfigs, searching : 1..MaxConfigs,
           status : Statuses, searches : SUBSET SavedSearches,
           storage : 1..MaxConfigs, keys : SUBSET Keys]

\* The number of a new object comes with its own, empty or loaded, map.
ObjectOf(content, g) ==
    [main |-> content.main, indexers |-> content.indexers, searching |-> content.searching,
     status |-> content.status, searches |-> content.searches, storage |-> g, keys |-> content.keys]

Initially == [main |-> 1, indexers |-> 1, searching |-> 1, status |-> "ok", searches |-> {}, keys |-> {}]

-----------------------------------------------------------------------------
(* References                                                              *)

\* The object of a part which ConfigProvider.getBaseConfig() leads to.
Provided(part) ==
    IF provided = 0 THEN bean[part]
    ELSE IF part = "storage" THEN objects[provided].storage
    ELSE provided

\* getAsEncryptedYamlString(baseConfig)
Serialized ==
    [main      |-> objects[bean["main"]].main,
     indexers  |-> objects[bean["indexers"]].indexers,
     searching |-> objects[bean["searching"]].searching,
     status    |-> objects[bean["indexers"]].status,
     searches  |-> objects[bean["searching"]].searches,
     keys      |-> objects[bean["storage"]].keys]

-----------------------------------------------------------------------------
(* Writing the file                                                        *)

\* Mutant: no lock is needed to save.
CanLockAlways == TRUE

CanLock == lock = "free"

\* The lock is taken and the configuration serialised under it.
StartWriting(t) ==
    /\ CanLock
    /\ lock' = t
    /\ writing' = [writing EXCEPT ![t] = Serialized]
    /\ UNCHANGED <<toSave, file>>

\* The temporary file is complete and moved to its place.
Written(t) ==
    /\ file' = writing[t]
    /\ toSave' = FALSE
    /\ lock' = "free"
    /\ writing' = [writing EXCEPT ![t] = Initially]

\* Mutant: the lock is not released when the write throws.
WriteFailsLocked(t) ==
    /\ errors < MaxErrors
    /\ errors' = errors + 1
    /\ lock' = lock
    /\ writing' = [writing EXCEPT ![t] = Initially]
    /\ UNCHANGED <<toSave, file>>

WriteFails(t) ==
    /\ errors < MaxErrors
    /\ errors' = errors + 1
    /\ lock' = "free"
    /\ writing' = [writing EXCEPT ![t] = Initially]
    /\ UNCHANGED <<toSave, file>>

\* The timer ticks again, the admin may save again.
AfterSave(t) == IF t \in {"admin", "timer"} THEN "idle" ELSE "done"

SaveInstantly(t) ==
    /\ pc[t] = "save"
    /\ StartWriting(t)
    /\ pc' = [pc EXCEPT ![t] = "write"]
    /\ UNCHANGED <<objects, created, refVars, page, calling, historyVars>>

\* The response to the admin shows what was saved, the page goes on with that.
SavedInstantly(t) ==
    /\ pc[t] = "write"
    /\ Written(t)
    /\ pc' = [pc EXCEPT ![t] = AfterSave(t)]
    /\ IF t = "admin" THEN acked' = posted /\ page' = Shown(Serialized)
                      ELSE UNCHANGED <<acked, page>>
    /\ UNCHANGED <<objects, created, refVars, calling, posted, errors, restarts, reloads>>

\* The exception ends the request; what it changed in memory stays.
InstantSaveFails(t) ==
    /\ pc[t] = "write"
    /\ WriteFails(t)
    /\ pc' = [pc EXCEPT ![t] = IF t = "admin" THEN "idle" ELSE "failed"]
    /\ UNCHANGED <<objects, created, refVars, page, calling, posted, acked, restarts, reloads>>

\* Mutant: toSave is set without taking the lock.
MayRequestSaveAlways == TRUE

MayRequestSave == lock = "free"

RequestSave(c) ==
    /\ pc[c] = "request"
    /\ MayRequestSave
    /\ toSave' = TRUE
    /\ pc' = [pc EXCEPT ![c] = "done"]
    /\ UNCHANGED <<objects, created, refVars, lock, writing, file, page, calling, historyVars>>

\* saveToSave. It is the timer's task; that onShutdown calls it too before the
\* application ends is a tick right before Restart.
SaveDelayed ==
    /\ pc["timer"] = "idle"
    /\ toSave
    /\ StartWriting("timer")
    /\ pc' = [pc EXCEPT !["timer"] = "write"]
    /\ UNCHANGED <<objects, created, refVars, page, calling, historyVars>>

SavedDelayed ==
    /\ pc["timer"] = "write"
    /\ Written("timer")
    /\ pc' = [pc EXCEPT !["timer"] = AfterSave("timer")]
    /\ UNCHANGED <<objects, created, refVars, page, calling, historyVars>>

\* An exception in its task ends a java.util.Timer.
DelayedSaveFails ==
    /\ pc["timer"] = "write"
    /\ WriteFails("timer")
    /\ pc' = [pc EXCEPT !["timer"] = "dead"]
    /\ UNCHANGED <<objects, created, refVars, page, calling, posted, acked, restarts, reloads>>

-----------------------------------------------------------------------------
(* The configuration page                                                  *)

\* Mutant: the new configuration is not published.
NextPartUnpublished(part) == CASE part = "main"      -> "indexers"
                               [] part = "indexers"  -> "searching"
                               [] part = "searching" -> "storage"
                               [] part = "storage"   -> "save"

NextPart(part) == CASE part = "main"      -> "indexers"
                    [] part = "indexers"  -> "searching"
                    [] part = "searching" -> "storage"
                    [] part = "storage"   -> "publish"

OpenPage ==
    /\ pc["admin"] = "idle"
    /\ page' = Shown(file)
    /\ UNCHANGED <<objects, created, refVars, saveVars, pc, calling, historyVars>>

\* Mutant: the posted configuration keeps the generic storage it has.
StorageOfPosted == created + 1

\* prepareForSaving: the running map is kept instead.
StorageKeptBy == Provided("storage")

\* The page posts what it has shown since it was opened, and changes of the user.
PostConfig ==
    /\ pc["admin"] = "idle"
    /\ created < MaxConfigs
    /\ LET g == created + 1
       IN  /\ objects' = [objects EXCEPT ![g] =
                [main |-> g, indexers |-> g, searching |-> g, status |-> page.status,
                 searches |-> page.searches, storage |-> StorageKeptBy, keys |-> page.keys]]
           /\ created' = g
           /\ posted' = g
    /\ pc' = [pc EXCEPT !["admin"] = "main"]
    /\ UNCHANGED <<refVars, saveVars, page, calling, acked, errors, restarts, reloads>>

\* reloadConfig, for those who edited the file.
ReloadConfig ==
    /\ pc["admin"] = "idle"
    /\ created < MaxConfigs
    /\ restarts + reloads < MaxLoads
    /\ reloads' = reloads + 1
    /\ objects' = [objects EXCEPT ![created + 1] = ObjectOf(file, created + 1)]
    /\ created' = created + 1
    /\ pc' = [pc EXCEPT !["admin"] = "main"]
    /\ UNCHANGED <<refVars, saveVars, page, calling, posted, acked, errors, restarts>>

\* BaseConfigHandler.replace takes no lock.
ReplacePart(part) ==
    /\ pc["admin"] = part
    /\ bean' = [bean EXCEPT ![part] = IF part = "storage" THEN objects[created].storage ELSE created]
    /\ pc' = [pc EXCEPT !["admin"] = NextPart(part)]
    /\ UNCHANGED <<objects, created, provided, instance, saveVars, page, calling, historyVars>>

\* The listeners of ConfigChangedEvent, in the order their beans are found in.
HandleNewConfig ==
    /\ pc["admin"] = "publish"
    /\ provided' = created
    /\ pc' = [pc EXCEPT !["admin"] = "load"]
    /\ UNCHANGED <<objects, created, bean, instance, saveVars, page, calling, historyVars>>

\* A reloaded configuration need not be saved.
LoadIndexers ==
    /\ pc["admin"] = "load"
    /\ instance' = Provided("indexers")
    /\ pc' = [pc EXCEPT !["admin"] = IF created = posted THEN "save" ELSE "idle"]
    /\ UNCHANGED <<objects, created, bean, provided, saveVars, page, calling, historyVars>>

-----------------------------------------------------------------------------
(* Who else changes the configuration                                      *)

\* The methods of GenericStorage are synchronized.
PutKey(k) ==
    /\ pc[k] = "idle"
    /\ \A other \in Keys : pc[other] \notin {"save", "write"}
    /\ objects' = [objects EXCEPT ![Provided("storage")].keys = @ \cup {k}]
    /\ pc' = [pc EXCEPT ![k] = "save"]
    /\ UNCHANGED <<created, refVars, saveVars, page, calling, historyVars>>

SaveSearch(s) ==
    /\ pc[s] = "idle"
    /\ objects' = [objects EXCEPT ![Provided("searching")].searches = @ \cup {s}]
    /\ pc' = [pc EXCEPT ![s] = "save"]
    /\ UNCHANGED <<created, refVars, saveVars, page, calling, historyVars>>

\* A call goes on writing to the object its Indexer had, see IndexerStatus.
BeginCall(c) ==
    /\ pc[c] = "idle"
    /\ calling' = [calling EXCEPT ![c] = instance]
    /\ pc' = [pc EXCEPT ![c] = "calling"]
    /\ UNCHANGED <<objects, created, refVars, saveVars, page, historyVars>>

CallEnds(c, status) ==
    /\ pc[c] = "calling"
    /\ objects' = [objects EXCEPT ![calling[c]].status = status]
    /\ calling' = [calling EXCEPT ![c] = 1]
    /\ pc' = [pc EXCEPT ![c] = "request"]
    /\ UNCHANGED <<created, refVars, saveVars, page, historyVars>>

-----------------------------------------------------------------------------
(* The application is killed, or stopped, and started again                *)

Restart ==
    /\ restarts + reloads < MaxLoads
    /\ created < MaxConfigs
    /\ restarts' = restarts + 1
    /\ objects' = [objects EXCEPT ![created + 1] = ObjectOf(file, created + 1)]
    /\ created' = created + 1
    /\ bean' = [part \in Parts |-> created + 1]
    /\ provided' = 0
    /\ instance' = created + 1
    /\ toSave' = FALSE
    /\ lock' = "free"
    /\ pc' = [t \in Threads |->
                IF t \in Keys \cup SavedSearches
                THEN IF pc[t] \in {"save", "write"} THEN "failed" ELSE pc[t]
                ELSE "idle"]
    /\ writing' = [t \in Savers \cup {"timer"} |-> Initially]
    /\ calling' = [c \in Calls |-> 1]
    /\ UNCHANGED <<file, page, posted, acked, errors, reloads>>

-----------------------------------------------------------------------------

Init ==
    /\ objects = [g \in 1..MaxConfigs |-> ObjectOf(Initially, g)]
    /\ created = 1
    /\ bean = [part \in Parts |-> 1]
    /\ provided = 0
    /\ instance = 1
    /\ toSave = FALSE
    /\ lock = "free"
    /\ writing = [t \in Savers \cup {"timer"} |-> Initially]
    /\ file = Initially
    /\ page = Shown(Initially)
    /\ pc = [t \in Threads |-> "idle"]
    /\ calling = [c \in Calls |-> 1]
    /\ posted = 1
    /\ acked = 1
    /\ errors = 0
    /\ restarts = 0
    /\ reloads = 0

Writing(t) == SavedInstantly(t) \/ InstantSaveFails(t)
WritingDelayed == SavedDelayed \/ DelayedSaveFails

Next ==
    \/ \E t \in Savers : SaveInstantly(t) \/ Writing(t)
    \/ SaveDelayed
    \/ WritingDelayed
    \/ OpenPage
    \/ PostConfig
    \/ ReloadConfig
    \/ \E part \in Parts : ReplacePart(part)
    \/ HandleNewConfig
    \/ LoadIndexers
    \/ \E k \in Keys : PutKey(k)
    \/ \E s \in SavedSearches : SaveSearch(s)
    \/ \E c \in Calls : BeginCall(c) \/ RequestSave(c) \/ \E status \in Statuses : CallEnds(c, status)
    \/ Restart

\* The timer ticks every ten seconds, a write succeeds or fails. The lock may be taken
\* by others at each tick, but not forever.
Spec ==
    /\ Init /\ [][Next]_vars
    /\ SF_vars(SaveDelayed)
    /\ WF_vars(WritingDelayed)
    /\ \A t \in Savers : WF_vars(Writing(t))

-----------------------------------------------------------------------------
(* Correctness                                                             *)

\* Every reference leads to an object and the file is one the code could have written.
TypeOK ==
    /\ objects \in [1..MaxConfigs -> Object]
    /\ created \in 1..MaxConfigs
    /\ bean \in [Parts -> 1..created]
    /\ provided \in 0..created
    /\ instance \in 1..created
    /\ toSave \in BOOLEAN
    /\ lock \in {"free"} \cup Savers \cup {"timer"}
    /\ writing \in [Savers \cup {"timer"} -> Content]
    /\ file \in Content
    /\ page \in Page
    /\ pc \in [Threads -> AdminSteps \cup OtherSteps]
    /\ pc["admin"] \in AdminSteps
    /\ pc["timer"] \in {"idle", "write", "dead"}
    /\ calling \in [Calls -> 1..created]
    /\ acked \in 1..posted /\ posted \in 1..created
    /\ errors \in 0..MaxErrors
    /\ restarts \in 0..MaxLoads /\ reloads \in 0..MaxLoads

\* A configuration whose saving was answered with success is never undone, not even by
\* a write which started before, and a restart finds it or a newer one in all parts.
SettingsDurable == acked <= file.main /\ acked <= file.indexers /\ acked <= file.searching

\* What was saved in the generic storage stays saved: neither an old page (the comment in
\* BaseConfigValidator.prepareForSaving) nor a restart loses it.
StorageKept ==
    reloads = 0 => \A k \in Keys : pc[k] = "done" => k \in file.keys

\* The same for saved searches.
SavedSearchesKept ==
    reloads = 0 => \A s \in SavedSearches : pc[s] = "done" => s \in file.searches

Settled ==
    /\ pc["admin"] = "idle"
    /\ lock = "free"
    /\ \A t \in Keys \cup SavedSearches : pc[t] # "save"
    /\ \A c \in Calls : pc[c] # "request"

\* When no save is pending and nobody is about to save, the file has what is in memory:
\* no change falls between the instant and the delayed saves.
NothingUnsaved == Settled /\ ~ toSave /\ errors = 0 /\ reloads = 0 => file = Serialized

\* When no change is under way, those who got their reference from ConfigProvider, the
\* Indexer and the bean which is saved have the same parts: a change to one is not lost on
\* the others. Every reference leads to an object.
ReferencesAgree ==
    /\ TypeOK
    /\ pc["admin"] \in {"idle", "save", "write"} =>
           /\ instance = bean["indexers"]
           /\ \A part \in Parts : Provided(part) = bean[part]

\* A delayed save happens, unless the timer died of a failing one.
DelayedSaveHappens == toSave ~> ~ toSave \/ pc["timer"] = "dead"
=============================================================================

----------------------- MODULE ConfigPersistence_proofs -----------------------
(***************************************************************************)
(* Proofs about ConfigPersistence for any number of configurations, keys,  *)
(* saved searches and calls: its four safety invariants.                   *)
(*                                                                         *)
(* The argument follows a change from the posted object over the bean and  *)
(* the lock into the file. What was answered with success is in the file,  *)
(* in memory, and in what the holder of the lock is about to write         *)
(* (SettingsInv, KeysInv); what is not in the file yet is about to be      *)
(* saved by someone (Tracked). It needs that a change in progress has      *)
(* replaced the parts before the one it is at (ChangeInOrder).             *)
(***************************************************************************)
EXTENDS ConfigPersistence, TLAPS

Writers == Savers \cup {"timer"}

ChangeSteps == {"main", "indexers", "searching", "storage", "publish", "load"}
Changing == pc["admin"] \in ChangeSteps

\* The parts which were replaced before a step of the change.
ReplacedBefore(step) ==
    CASE step = "main"      -> {}
      [] step = "indexers"  -> {"main"}
      [] step = "searching" -> {"main", "indexers"}
      [] step = "storage"   -> {"main", "indexers", "searching"}
      [] OTHER              -> Parts

\* What a part of the bean is replaced with.
Replacement(part) == IF part = "storage" THEN objects[created].storage ELSE created

\* Objects refer to maps which exist.
MapsExist == \A g \in 1..created : objects[g].storage \in 1..created

\* Exactly the holder of the lock is writing.
LockHeld == \A t \in Writers : pc[t] = "write" <=> lock = t

\* A thread is at one of its own steps.
StepsInv ==
    /\ \A t \in Keys \cup SavedSearches : pc[t] \in {"idle", "save", "write", "done", "failed"}
    /\ \A c \in Calls : pc[c] \in {"idle", "calling", "request", "done"}

ChangeInOrder ==
    /\ Changing => \A part \in ReplacedBefore(pc["admin"]) : bean[part] = Replacement(part)
    /\ pc["admin"] = "load" => provided = created
    /\ Changing /\ reloads = 0 => created = posted

\* Whether a configuration is at least as new as the n-th object in the parts of the page.
AsNewAs(content, n) == n <= content.main /\ n <= content.indexers /\ n <= content.searching

\* What was answered with success is everywhere, what is about to be answered in memory.
SettingsInv ==
    /\ AsNewAs(file, acked) /\ AsNewAs(Serialized, acked)
    /\ \A t \in Writers : pc[t] = "write" => AsNewAs(writing[t], acked)
    /\ Changing => AsNewAs(objects[created], acked)
    /\ Changing /\ created = posted => AsNewAs(objects[created], posted)
    /\ pc["admin"] \in {"save", "write"} => AsNewAs(Serialized, posted)
    /\ pc["admin"] = "write" => AsNewAs(writing["admin"], posted)

\* The map of the generic storage is the same for all, also during a change.
SameMap ==
    reloads = 0 =>
        /\ bean["storage"] = Provided("storage")
        /\ Changing => objects[created].storage = bean["storage"]

\* A key which was saved is everywhere, one which is about to be saved in memory.
KeysInv ==
    reloads = 0 => \A k \in Keys :
        /\ pc[k] \in {"save", "write", "done"} => k \in Serialized.keys
        /\ pc[k] = "write" => k \in writing[k].keys
        /\ pc[k] = "done" => k \in file.keys /\ \A t \in Writers : pc[t] = "write" => k \in writing[t].keys

\* Someone will take the lock and write, or have the timer do it.
Pending ==
    \/ Changing
    \/ \E t \in Savers : pc[t] = "save"
    \/ \E c \in Calls : pc[c] = "request"

\* What is not in the file is being written, or somebody is going to write.
Tracked ==
    errors = 0 /\ reloads = 0 =>
        /\ lock = "free" => Pending \/ toSave \/ file = Serialized
        /\ lock # "free" => Pending \/ writing[lock] = Serialized

IInv == /\ ReferencesAgree /\ MapsExist /\ LockHeld /\ StepsInv /\ ChangeInOrder
        /\ SettingsInv /\ SameMap /\ KeysInv /\ Tracked

-----------------------------------------------------------------------------
(* Facts about the operators                                               *)

LEMMA Types ==
    ASSUME TypeOK
    PROVE  /\ Serialized \in Content
           /\ \A part \in Parts : bean[part] \in 1..MaxConfigs
           /\ \A part \in Parts : Provided(part) \in Int
<1>1. \A part \in Parts : bean[part] \in 1..created /\ 1..created \subseteq 1..MaxConfigs
  BY BoundsAssumption DEF TypeOK
<1>2. \A g \in 1..MaxConfigs : objects[g] \in Object
  BY DEF TypeOK
<1>3. Serialized \in Content
  BY <1>1, <1>2 DEF Serialized, Content, Object, Parts
<1>4. \A part \in Parts : Provided(part) \in Int
  <2>1. provided \in Int /\ (provided # 0 => provided \in 1..MaxConfigs)
    BY BoundsAssumption DEF TypeOK
  <2>2. provided # 0 => objects[provided].storage \in Int
    BY <1>2, <2>1 DEF Object
  <2>3. QED BY <1>1, <2>1, <2>2 DEF Provided
<1>5. QED BY <1>1, <1>3, <1>4

\* Who is who: the admin and the timer are neither keys, searches nor calls.
LEMMA Who ==
    /\ Writers \subseteq Threads /\ Calls \subseteq Threads /\ Writers \cap Calls = {}
    /\ {"admin", "timer"} \subseteq Writers /\ "free" \notin Writers
    /\ Keys \cup SavedSearches \subseteq Savers /\ Savers \subseteq Writers /\ "timer" \notin Savers
    /\ {"admin", "timer"} \cap (Keys \cup SavedSearches \cup Calls) = {}
    /\ Keys \cap SavedSearches = {}
BY ThreadsAssumption DEF Writers, Savers, Threads

\* Initially there is one configuration, in memory as in the file.
LEMMA InitInvariant == Init => IInv
<1> SUFFICES ASSUME Init PROVE IInv
  OBVIOUS
<1> USE DEF Init
<1>1. Initially \in Content /\ \A g \in 1..MaxConfigs : ObjectOf(Initially, g) \in Object
  BY BoundsAssumption DEF Initially, Content, ObjectOf, Object, Statuses
<1>2. TypeOK
  <2>1. objects \in [1..MaxConfigs -> Object] /\ created \in 1..MaxConfigs /\ file \in Content
    BY <1>1, BoundsAssumption
  <2>2. writing \in [Savers \cup {"timer"} -> Content] /\ page \in Page
    BY <1>1 DEF Page, Shown, Initially, Statuses
  <2>3. bean \in [Parts -> 1..created] /\ provided \in 0..created /\ instance \in 1..created
        /\ calling \in [Calls -> 1..created] /\ acked \in 1..posted /\ posted \in 1..created
    OBVIOUS
  <2>4. pc \in [Threads -> AdminSteps \cup OtherSteps] /\ pc["admin"] \in AdminSteps
        /\ pc["timer"] \in {"idle", "write", "dead"}
    BY DEF Threads, Savers, AdminSteps
  <2>5. errors \in 0..MaxErrors /\ restarts \in 0..MaxLoads /\ reloads \in 0..MaxLoads
    BY BoundsAssumption
  <2>6. QED BY <2>1, <2>2, <2>3, <2>4, <2>5 DEF TypeOK
<1>3. \A t \in Threads : pc[t] = "idle"
  OBVIOUS
<1>4. Serialized = Initially
  <2>1. \A part \in Parts : objects[bean[part]] = ObjectOf(Initially, 1)
    BY BoundsAssumption
  <2>2. ObjectOf(Initially, 1) = [main |-> 1, indexers |-> 1, searching |-> 1, status |-> "ok",
                                  searches |-> {}, storage |-> 1, keys |-> {}]
    BY DEF ObjectOf, Initially
  <2>3. \A part \in {"main", "indexers", "searching", "storage"} :
            objects[bean[part]] = [main |-> 1, indexers |-> 1, searching |-> 1, status |-> "ok",
                                   searches |-> {}, storage |-> 1, keys |-> {}]
    BY <2>1, <2>2 DEF Parts
  <2>4. /\ objects[bean["main"]].main = 1 /\ objects[bean["indexers"]].indexers = 1
        /\ objects[bean["searching"]].searching = 1 /\ objects[bean["indexers"]].status = "ok"
        /\ objects[bean["searching"]].searches = {} /\ objects[bean["storage"]].keys = {}
    <3> HIDE DEF Init
    <3>1. QED BY <2>3
  <2>5. QED BY <2>4 DEF Serialized, Initially
<1>5. ~ Changing /\ \A t \in Writers : pc[t] = "idle" /\ lock # t
  BY <1>3, ThreadsAssumption DEF Changing, ChangeSteps, Threads, Savers, Writers
<1>6. ReferencesAgree
  BY <1>2 DEF ReferencesAgree, Provided, Parts
<1>7. MapsExist /\ LockHeld /\ StepsInv /\ ChangeInOrder
  <2>1. MapsExist
    BY BoundsAssumption DEF MapsExist, ObjectOf
  <2>2. LockHeld /\ StepsInv
    BY <1>3, <1>5 DEF LockHeld, StepsInv, Threads, Savers
  <2>3. pc["admin"] = "idle"
    BY <1>3 DEF Threads, Savers
  <2>4. QED BY <1>5, <2>1, <2>2, <2>3 DEF ChangeInOrder
<1>8. SettingsInv
  <2>1. pc["admin"] = "idle"
    BY <1>3 DEF Threads, Savers
  <2>2. AsNewAs(Initially, 1)
    BY DEF AsNewAs, Initially
  <2>3. QED BY <1>4, <1>5, <2>1, <2>2 DEF SettingsInv
<1>9. SameMap /\ KeysInv /\ Tracked
  BY <1>3, <1>4, <1>5 DEF SameMap, KeysInv, Tracked, Provided, Parts, Threads, Savers
<1>10. QED BY <1>6, <1>7, <1>8, <1>9 DEF IInv

-----------------------------------------------------------------------------
(* Writing the file                                                        *)

\* The lock is free, so nobody writes, and what is serialised is what is in memory.
LEMMA StartWritingInvariant ==
    ASSUME IInv, NEW t \in Writers,
           pc[t] = IF t = "timer" THEN "idle" ELSE "save",
           lock = "free", lock' = t, pc' = [pc EXCEPT ![t] = "write"],
           writing' = [writing EXCEPT ![t] = Serialized],
           UNCHANGED <<objects, created, bean, provided, instance, toSave, file, page, calling,
                       posted, acked, errors, restarts, reloads>>
    PROVE  IInv'
<1>1. TypeOK /\ Serialized \in Content /\ Serialized' = Serialized
      /\ \A part \in Parts : Provided(part)' = Provided(part)
  BY Types DEF IInv, ReferencesAgree, Serialized, Provided
<1>2. pc'[t] = "write" /\ (\A u \in Threads : u # t => pc'[u] = pc[u])
      /\ writing'[t] = Serialized /\ (\A u \in Writers : u # t => writing'[u] = writing[u])
  BY <1>1, Who DEF TypeOK, Writers
<1>3. \A u \in Writers : pc[u] # "write"
  BY Who DEF IInv, LockHeld
<1>4. TypeOK'
  <2>1. pc' \in [Threads -> AdminSteps \cup OtherSteps] /\ pc'["admin"] \in AdminSteps
        /\ pc'["timer"] \in {"idle", "write", "dead"}
    BY <1>1, <1>2, Who DEF TypeOK, AdminSteps, OtherSteps
  <2>2. writing' \in [Savers \cup {"timer"} -> Content] /\ lock' \in {"free"} \cup Savers \cup {"timer"}
    BY <1>1 DEF TypeOK, Writers
  <2>3. QED BY <1>1, <2>1, <2>2 DEF TypeOK
<1>5. /\ Changing' <=> Changing
      /\ Changing => t # "admin" /\ pc'["admin"] = pc["admin"]
      /\ pc'["admin"] \in {"idle", "save", "write"} => pc["admin"] \in {"idle", "save", "write"}
      /\ pc'["admin"] = "load" => pc["admin"] = "load"
      /\ t = "admin" => pc["admin"] = "save"
  BY <1>2, Who DEF Changing, ChangeSteps
<1>6. ReferencesAgree'
  BY <1>1, <1>4, <1>5 DEF IInv, ReferencesAgree
<1>7. MapsExist' /\ SameMap'
  BY <1>1, <1>5 DEF IInv, MapsExist, SameMap, Parts
<1>8. LockHeld' /\ StepsInv'
  BY <1>2, <1>3, Who DEF IInv, LockHeld, StepsInv
<1>9. ChangeInOrder'
  BY <1>5 DEF IInv, ChangeInOrder, Replacement
<1>10. SettingsInv'
  <2>1. \A u \in Writers : pc'[u] = "write" => u = t
    BY <1>2, <1>3, Who
  <2>2. pc'["admin"] = "save" => pc["admin"] = "save"
    BY <1>2, Who
  <2>3. QED BY <1>1, <1>2, <1>3, <1>5, <2>1, <2>2, Who DEF IInv, SettingsInv
<1>11. KeysInv'
  BY <1>1, <1>2, <1>3, Who DEF IInv, KeysInv
<1>12. Tracked'
  BY <1>1, <1>2, Who DEF Tracked
<1>13. QED BY <1>6, <1>7, <1>8, <1>9, <1>10, <1>11, <1>12 DEF IInv

\* What the holder of the lock has is written. The admin's is the posted configuration, a
\* key's has the key.
LEMMA WrittenInvariant ==
    ASSUME IInv, NEW t \in Writers, pc[t] = "write", Written(t),
           pc' = [pc EXCEPT ![t] = AfterSave(t)],
           IF t = "admin" THEN acked' = posted /\ page' = Shown(Serialized)
                          ELSE UNCHANGED <<acked, page>>,
           UNCHANGED <<objects, created, bean, provided, instance, calling,
                       posted, errors, restarts, reloads>>
    PROVE  IInv'
<1>1. TypeOK /\ Serialized \in Content /\ Serialized' = Serialized
      /\ \A part \in Parts : Provided(part)' = Provided(part)
  BY Types DEF IInv, ReferencesAgree, Serialized, Provided
<1>2. pc'[t] = AfterSave(t) /\ (\A u \in Threads : u # t => pc'[u] = pc[u])
      /\ file' = writing[t] /\ toSave' = FALSE /\ lock' = "free"
  BY <1>1, Who DEF TypeOK, Written
<1>3. lock = t /\ \A u \in Writers : pc'[u] # "write"
  BY <1>2, Who DEF IInv, LockHeld, AfterSave
<1>4. Initially \in Content
  BY BoundsAssumption DEF Initially, Content, Statuses
<1>5. Shown(Serialized) \in Page
  BY <1>1 DEF Shown, Page, Content
<1>6. TypeOK'
  <2>1. file' \in Content /\ writing' \in [Savers \cup {"timer"} -> Content]
    BY <1>1, <1>2, <1>4 DEF Written, TypeOK, Writers
  <2>2. page' \in Page /\ acked' \in 1..posted'
    BY <1>1, <1>5 DEF TypeOK
  <2>3. pc' \in [Threads -> AdminSteps \cup OtherSteps] /\ pc'["admin"] \in AdminSteps
        /\ pc'["timer"] \in {"idle", "write", "dead"}
    BY <1>1, <1>2, Who DEF TypeOK, AfterSave, AdminSteps, OtherSteps
  <2>4. QED BY <1>1, <1>2, <2>1, <2>2, <2>3 DEF TypeOK
<1>7. /\ Changing' <=> Changing
      /\ Changing => t # "admin" /\ pc'["admin"] = pc["admin"]
      /\ pc'["admin"] \in {"idle", "save", "write"} => pc["admin"] \in {"idle", "save", "write"}
      /\ pc'["admin"] = "load" => pc["admin"] = "load"
      /\ pc'["admin"] = "save" => pc["admin"] = "save"
      /\ t = "admin" => pc'["admin"] = "idle"
  BY <1>2, Who DEF Changing, ChangeSteps, AfterSave
<1>8. ReferencesAgree'
  BY <1>1, <1>6, <1>7 DEF IInv, ReferencesAgree
<1>9. MapsExist' /\ SameMap' /\ ChangeInOrder'
  BY <1>1, <1>7 DEF IInv, MapsExist, SameMap, Parts, ChangeInOrder, Replacement
<1>10. LockHeld' /\ StepsInv'
  BY <1>2, <1>3, Who DEF IInv, LockHeld, StepsInv, AfterSave
<1>11. SettingsInv'
  <2>1. CASE t = "admin"
    <3>1. AsNewAs(writing["admin"], posted) /\ AsNewAs(Serialized, posted)
      BY <2>1 DEF IInv, SettingsInv
    <3>2. ~ Changing' /\ acked' = posted
      BY <2>1, <1>7 DEF Changing, ChangeSteps
    <3>3. QED BY <1>1, <1>2, <1>3, <1>7, <2>1, <3>1, <3>2, Who DEF SettingsInv, AsNewAs
  <2>2. CASE t # "admin"
    BY <1>1, <1>2, <1>3, <1>7, <2>2, Who DEF IInv, SettingsInv
  <2>3. QED BY <2>1, <2>2
<1>12. KeysInv'
  BY <1>1, <1>2, <1>3, Who DEF IInv, KeysInv, AfterSave
<1>13. Tracked'
  <2>1. \A u \in Savers : pc[u] = "save" => pc'[u] = "save"
    BY <1>2, Who
  <2>2. \A c \in Calls : pc'[c] = pc[c]
    BY <1>2, Who
  <2>3. Pending => Pending'
    BY <1>7, <2>1, <2>2 DEF Pending
  <2>4. QED BY <1>1, <1>2, <1>3, <2>3, Who DEF IInv, Tracked
<1>14. QED BY <1>8, <1>9, <1>10, <1>11, <1>12, <1>13 DEF IInv

\* A write which fails leaves the old file and what is in memory; the admin's change is
\* not answered with success.
LEMMA WriteFailsInvariant ==
    ASSUME IInv, NEW t \in Writers, pc[t] = "write", WriteFails(t),
           NEW step \in {"idle", "failed", "dead"},
           step = IF t = "admin" THEN "idle" ELSE IF t = "timer" THEN "dead" ELSE "failed",
           pc' = [pc EXCEPT ![t] = step],
           UNCHANGED <<objects, created, bean, provided, instance, page, calling,
                       posted, acked, restarts, reloads>>
    PROVE  IInv'
<1>1. TypeOK /\ Serialized' = Serialized /\ \A part \in Parts : Provided(part)' = Provided(part)
  BY DEF IInv, ReferencesAgree, Serialized, Provided
<1>2. pc'[t] = step /\ (\A u \in Threads : u # t => pc'[u] = pc[u])
      /\ file' = file /\ toSave' = toSave /\ lock' = "free" /\ errors' = errors + 1
  BY <1>1, Who DEF TypeOK, WriteFails
<1>3. \A u \in Writers : pc'[u] # "write"
  BY <1>2, Who DEF IInv, LockHeld
<1>4. TypeOK'
  <2>1. pc' \in [Threads -> AdminSteps \cup OtherSteps] /\ pc'["admin"] \in AdminSteps
        /\ pc'["timer"] \in {"idle", "write", "dead"}
    BY <1>1, <1>2, Who DEF TypeOK, AdminSteps, OtherSteps
  <2>2. Initially \in Content
    BY BoundsAssumption DEF Initially, Content, Statuses
  <2>3. writing' \in [Savers \cup {"timer"} -> Content]
    BY <1>1, <2>2 DEF TypeOK, WriteFails
  <2>4. errors' \in 0..MaxErrors
    BY <1>1, BoundsAssumption DEF TypeOK, WriteFails
  <2>5. QED BY <1>1, <1>2, <2>1, <2>3, <2>4 DEF TypeOK
<1>5. /\ Changing' <=> Changing
      /\ Changing => t # "admin" /\ pc'["admin"] = pc["admin"]
      /\ pc'["admin"] \in {"idle", "save", "write"} => pc["admin"] \in {"idle", "save", "write"}
      /\ pc'["admin"] = "load" => pc["admin"] = "load"
      /\ pc'["admin"] = "save" => pc["admin"] = "save"
  BY <1>2, Who DEF Changing, ChangeSteps
<1>6. ReferencesAgree'
  BY <1>1, <1>4, <1>5 DEF IInv, ReferencesAgree
<1>7. MapsExist' /\ SameMap' /\ ChangeInOrder'
  BY <1>1, <1>5 DEF IInv, MapsExist, SameMap, Parts, ChangeInOrder, Replacement
<1>8. LockHeld' /\ StepsInv'
  BY <1>2, <1>3, Who DEF IInv, LockHeld, StepsInv
<1>9. SettingsInv'
  BY <1>1, <1>2, <1>3, <1>5, Who DEF IInv, SettingsInv
<1>10. KeysInv'
  BY <1>1, <1>2, <1>3, Who DEF IInv, KeysInv
<1>11. Tracked'
  BY <1>1, <1>2 DEF Tracked, TypeOK
<1>12. QED BY <1>6, <1>7, <1>8, <1>9, <1>10, <1>11 DEF IInv

-----------------------------------------------------------------------------
(* Changing the configuration                                              *)

\* The steps of a change neither write nor touch the lock or another thread.
AdminOnly ==
    /\ UNCHANGED <<toSave, lock, writing, file, page, calling, acked, errors, restarts>>
    /\ \A u \in Threads : u # "admin" => pc'[u] = pc[u]
    /\ pc["admin"] # "write" /\ pc'["admin"] # "write"

\* What such a step leaves as it is.
LEMMA AdminOnlyFacts ==
    ASSUME IInv, AdminOnly
    PROVE  LockHeld' /\ StepsInv'
BY Who DEF IInv, AdminOnly, LockHeld, StepsInv

\* A new object, posted or loaded: nothing refers to it yet.
LEMMA NewObjectInvariant ==
    ASSUME IInv, AdminOnly, pc["admin"] = "idle", created < MaxConfigs,
           created' = created + 1, pc' = [pc EXCEPT !["admin"] = "main"],
           NEW object \in Object, objects' = [objects EXCEPT ![created + 1] = object],
           object.storage \in 1..(created + 1), AsNewAs(object, acked),
           UNCHANGED <<bean, provided, instance>>,
           reloads' \in 0..MaxLoads, posted' \in {posted, created + 1},
           posted' = created + 1 => AsNewAs(object, posted'),
           reloads' = 0 => reloads = 0 /\ object.storage = Provided("storage") /\ posted' = created + 1
    PROVE  IInv'
<1>1. TypeOK /\ created \in 1..MaxConfigs /\ created' \in 1..MaxConfigs
      /\ created + 1 \in 1..MaxConfigs /\ MaxConfigs \in Nat
      /\ 1..created \subseteq 1..created' /\ 0..created \subseteq 0..created'
  BY BoundsAssumption DEF IInv, ReferencesAgree, TypeOK
<1>2. (\A g \in 1..created : objects'[g] = objects[g]) /\ objects'[created'] = object
  BY <1>1 DEF TypeOK
<1>3. /\ \A part \in Parts : bean[part] \in 1..created
      /\ provided # 0 => provided \in 1..created
  BY <1>1 DEF TypeOK
<1>4. Serialized' = Serialized /\ \A part \in Parts : Provided(part)' = Provided(part)
  BY <1>2, <1>3 DEF Serialized, Provided, Parts
<1>5. pc'["admin"] = "main" /\ Changing' /\ ~ Changing
  BY <1>1, Who DEF TypeOK, Changing, ChangeSteps
<1>6. TypeOK'
  <2>1. pc' \in [Threads -> AdminSteps \cup OtherSteps] /\ pc'["admin"] \in AdminSteps
        /\ pc'["timer"] \in {"idle", "write", "dead"}
    BY <1>1, <1>5, Who DEF TypeOK, AdminSteps, AdminOnly
  <2>2. objects' \in [1..MaxConfigs -> Object] /\ bean' \in [Parts -> 1..created']
        /\ provided' \in 0..created' /\ instance' \in 1..created'
        /\ calling' \in [Calls -> 1..created']
    BY <1>1 DEF TypeOK, AdminOnly
  <2>3. acked' \in 1..posted' /\ posted' \in 1..created'
    BY <1>1 DEF TypeOK, AdminOnly
  <2>4. QED BY <1>1, <2>1, <2>2, <2>3 DEF TypeOK, AdminOnly
<1>7. ReferencesAgree'
  BY <1>5, <1>6 DEF ReferencesAgree
<1>8. MapsExist'
  BY <1>1, <1>2 DEF IInv, MapsExist
<1>9. LockHeld' /\ StepsInv'
  BY AdminOnlyFacts
<1>10. ChangeInOrder'
  BY <1>1, <1>5 DEF ChangeInOrder, ReplacedBefore
<1>11. SettingsInv'
  <2>1. acked' = acked /\ file' = file /\ writing' = writing /\ \A u \in Writers : pc'[u] = "write" => pc[u] = "write"
    BY Who DEF AdminOnly
  <2>2. created' = posted' => posted' = created + 1
    BY <1>1 DEF TypeOK
  <2>3. QED BY <1>2, <1>4, <1>5, <2>1, <2>2 DEF IInv, SettingsInv
<1>12. SameMap'
  BY <1>2, <1>4, <1>5 DEF IInv, SameMap, Parts
<1>13. KeysInv'
  BY <1>4, Who DEF IInv, KeysInv, AdminOnly
<1>14. Tracked'
  <2>1. Pending'
    BY <1>5 DEF Pending
  <2>2. QED BY <2>1 DEF Tracked
<1>15. QED BY <1>7, <1>8, <1>9, <1>10, <1>11, <1>12, <1>13, <1>14 DEF IInv

\* prepareForSaving and setConfig: the posted object keeps the map of the generic storage.
LEMMA PostConfigInvariant ==
    ASSUME IInv, PostConfig
    PROVE  IInv'
<1> DEFINE g == created + 1
           object == [main |-> g, indexers |-> g, searching |-> g, status |-> page.status,
                      searches |-> page.searches, storage |-> StorageKeptBy, keys |-> page.keys]
<1>1. TypeOK /\ created \in 1..MaxConfigs /\ created < MaxConfigs /\ g \in 1..MaxConfigs
      /\ page \in Page /\ acked <= g /\ reloads \in 0..MaxLoads
  BY BoundsAssumption DEF IInv, ReferencesAgree, TypeOK, PostConfig
<1>2. StorageKeptBy \in 1..created
  <2>1. CASE provided = 0
    BY <1>1, <2>1 DEF StorageKeptBy, Provided, TypeOK, Parts
  <2>2. CASE provided # 0
    <3>1. provided \in 1..created
      BY <1>1, <2>2 DEF TypeOK
    <3>2. QED BY <2>2, <3>1 DEF IInv, MapsExist, StorageKeptBy, Provided
  <2>3. QED BY <2>1, <2>2
<1>3. object \in Object /\ object.storage \in 1..(created + 1)
  <2>1. StorageKeptBy \in 1..MaxConfigs /\ StorageKeptBy \in 1..(created + 1)
    BY <1>1, <1>2, BoundsAssumption
  <2>2. QED BY <1>1, <2>1 DEF Object, Page
<1>4. AsNewAs(object, g) /\ AsNewAs(object, acked)
  BY <1>1 DEF AsNewAs
<1>5. object.storage = Provided("storage")
  BY DEF StorageKeptBy
<1>6. /\ objects' = [objects EXCEPT ![created + 1] = object] /\ created' = created + 1
      /\ posted' = g /\ pc["admin"] = "idle" /\ pc' = [pc EXCEPT !["admin"] = "main"]
      /\ UNCHANGED <<bean, provided, instance, reloads>>
  BY DEF PostConfig, refVars
<1>7. AdminOnly
  BY <1>1, Who DEF PostConfig, AdminOnly, saveVars, TypeOK
<1> HIDE DEF object, g
<1>8. QED BY <1>1, <1>3, <1>4, <1>5, <1>6, <1>7, NewObjectInvariant DEF g

\* reload: the object has the parts of the file.
LEMMA ReloadConfigInvariant ==
    ASSUME IInv, ReloadConfig
    PROVE  IInv'
<1> DEFINE object == ObjectOf(file, created + 1)
<1>1. TypeOK /\ created \in 1..MaxConfigs /\ created < MaxConfigs /\ created + 1 \in 1..MaxConfigs
      /\ file \in Content /\ posted \in 1..created /\ reloads \in 0..MaxLoads /\ restarts \in 0..MaxLoads
  BY BoundsAssumption DEF IInv, ReferencesAgree, TypeOK, ReloadConfig
<1>2. object \in Object /\ object.storage \in 1..(created + 1)
  BY <1>1 DEF Object, Content, ObjectOf
<1>3. AsNewAs(object, acked)
  BY DEF IInv, SettingsInv, AsNewAs, ObjectOf
<1>4. /\ objects' = [objects EXCEPT ![created + 1] = object] /\ created' = created + 1
      /\ posted' = posted /\ pc["admin"] = "idle" /\ pc' = [pc EXCEPT !["admin"] = "main"]
      /\ UNCHANGED <<bean, provided, instance>>
  BY DEF ReloadConfig, refVars
<1>5. reloads' \in 0..MaxLoads /\ reloads' # 0
  BY <1>1, BoundsAssumption DEF ReloadConfig
<1>6. posted' # created + 1
  BY <1>1, <1>4
<1>7. AdminOnly
  BY <1>1, Who DEF ReloadConfig, AdminOnly, saveVars, TypeOK
<1> HIDE DEF object
<1>8. QED BY <1>1, <1>2, <1>3, <1>4, <1>5, <1>6, <1>7, NewObjectInvariant

\* replace: one part of the bean after the other belongs to the new object.
LEMMA ReplacePartInvariant ==
    ASSUME IInv, NEW part \in Parts, ReplacePart(part)
    PROVE  IInv'
<1>1. TypeOK /\ created \in 1..MaxConfigs /\ created \in 1..created
  BY DEF IInv, ReferencesAgree, TypeOK
<1>2. /\ pc["admin"] = part /\ Changing
      /\ bean' = [bean EXCEPT ![part] = Replacement(part)]
      /\ UNCHANGED <<objects, created, provided, instance, posted, reloads>>
  BY DEF ReplacePart, Replacement, historyVars, Changing, ChangeSteps, Parts
<1>3. pc'["admin"] = NextPart(part) /\ Changing'
      /\ pc'["admin"] \in {"indexers", "searching", "storage", "publish"}
  BY <1>1, Who DEF ReplacePart, TypeOK, NextPart, Parts, Changing, ChangeSteps
<1>4. AdminOnly
  BY <1>1, <1>2, <1>3, Who DEF ReplacePart, AdminOnly, saveVars, historyVars, TypeOK, Parts
<1>5. Replacement(part) \in 1..created
  BY <1>1 DEF Replacement, IInv, MapsExist
<1>6. bean'[part] = Replacement(part) /\ \A p \in Parts : p # part => bean'[p] = bean[p]
  BY <1>1, <1>2 DEF TypeOK
<1>7. TypeOK'
  <2>1. pc' \in [Threads -> AdminSteps \cup OtherSteps] /\ pc'["admin"] \in AdminSteps
        /\ pc'["timer"] \in {"idle", "write", "dead"}
    BY <1>1, <1>3, <1>4, Who DEF TypeOK, AdminSteps, AdminOnly, ReplacePart
  <2>2. bean' \in [Parts -> 1..created']
    BY <1>1, <1>2, <1>5 DEF TypeOK
  <2>3. QED BY <1>1, <1>2, <1>4, <2>1, <2>2 DEF TypeOK, AdminOnly
<1>8. ReferencesAgree' /\ MapsExist'
  BY <1>2, <1>3, <1>7 DEF ReferencesAgree, IInv, MapsExist
<1>9. LockHeld' /\ StepsInv'
  BY <1>4, AdminOnlyFacts
<1>10. ChangeInOrder'
  <2>1. ReplacedBefore(NextPart(part)) = ReplacedBefore(part) \cup {part}
    BY DEF ReplacedBefore, NextPart, Parts
  <2>2. \A p \in ReplacedBefore(part) : bean[p] = Replacement(p) /\ p \in Parts
    BY <1>2 DEF IInv, ChangeInOrder, ReplacedBefore, Parts
  <2>3. \A p \in Parts : Replacement(p)' = Replacement(p)
    BY <1>2 DEF Replacement
  <2>4. \A p \in ReplacedBefore(pc'["admin"]) : bean'[p] = Replacement(p)'
    BY <1>3, <1>6, <2>1, <2>2, <2>3
  <2>5. QED BY <1>2, <1>3, <2>4 DEF IInv, ChangeInOrder
<1>11. SettingsInv'
  <2>1. AsNewAs(objects[created], acked) /\ AsNewAs(Serialized, acked)
    BY <1>2 DEF IInv, SettingsInv
  <2>2. AsNewAs(Serialized, acked)'
    BY <1>2, <1>4, <1>6, <2>1 DEF AsNewAs, Serialized, Replacement, Parts, AdminOnly
  <2>3. acked' = acked /\ file' = file /\ writing' = writing /\ \A u \in Writers : pc'[u] = "write" => pc[u] = "write"
    BY <1>4, Who DEF AdminOnly
  <2>4. QED BY <1>2, <1>3, <2>2, <2>3 DEF IInv, SettingsInv
<1>12. SameMap' /\ (reloads = 0 => bean'["storage"] = bean["storage"])
  <2>1. CASE part = "storage"
    BY <1>2, <1>3, <1>6, <2>1 DEF IInv, SameMap, Replacement, Provided, Parts
  <2>2. CASE part # "storage"
    BY <1>2, <1>3, <1>6, <2>2 DEF IInv, SameMap, Provided, Parts
  <2>3. QED BY <2>1, <2>2
<1>13. KeysInv'
  <2>1. reloads = 0 => Serialized'.keys = Serialized.keys
    BY <1>2, <1>12 DEF Serialized
  <2>2. QED BY <1>2, <1>4, <2>1, Who DEF IInv, KeysInv, AdminOnly
<1>14. Tracked'
  BY <1>3 DEF Tracked, Pending
<1>15. QED BY <1>8, <1>9, <1>10, <1>11, <1>12, <1>13, <1>14 DEF IInv

\* The listener of ConfigProvider: from now on everyone is given the new object.
LEMMA HandleNewConfigInvariant ==
    ASSUME IInv, HandleNewConfig
    PROVE  IInv'
<1>1. TypeOK /\ created \in 1..MaxConfigs /\ created \in 0..created /\ created # 0
  BY DEF IInv, ReferencesAgree, TypeOK
<1>2. /\ pc["admin"] = "publish" /\ Changing /\ provided' = created
      /\ UNCHANGED <<objects, created, bean, instance, posted, reloads>>
  BY DEF HandleNewConfig, historyVars, Changing, ChangeSteps
<1>3. pc'["admin"] = "load" /\ Changing'
  BY <1>1, Who DEF HandleNewConfig, TypeOK, Changing, ChangeSteps
<1>4. AdminOnly
  BY <1>1, <1>2, <1>3, Who DEF HandleNewConfig, AdminOnly, saveVars, historyVars, TypeOK
<1>5. TypeOK'
  <2>1. pc' \in [Threads -> AdminSteps \cup OtherSteps] /\ pc'["admin"] \in AdminSteps
        /\ pc'["timer"] \in {"idle", "write", "dead"}
    BY <1>1, <1>3, <1>4, Who DEF TypeOK, AdminSteps, AdminOnly, HandleNewConfig
  <2>2. QED BY <1>1, <1>2, <1>4, <2>1 DEF TypeOK, AdminOnly
<1>6. ReferencesAgree' /\ MapsExist'
  BY <1>2, <1>3, <1>5 DEF ReferencesAgree, IInv, MapsExist
<1>7. LockHeld' /\ StepsInv'
  BY <1>4, AdminOnlyFacts
<1>8. ChangeInOrder'
  <2>1. \A p \in Parts : bean[p] = Replacement(p)
    BY <1>2 DEF IInv, ChangeInOrder, ReplacedBefore
  <2>2. ReplacedBefore(pc'["admin"]) = Parts
    BY <1>3 DEF ReplacedBefore
  <2>3. QED BY <1>2, <1>3, <2>1, <2>2 DEF IInv, ChangeInOrder, Replacement
<1>9. SettingsInv'
  <2>1. acked' = acked /\ file' = file /\ writing' = writing /\ \A u \in Writers : pc'[u] = "write" => pc[u] = "write"
    BY <1>4, Who DEF AdminOnly
  <2>2. Serialized' = Serialized
    BY <1>2 DEF Serialized
  <2>3. QED BY <1>2, <1>3, <2>1, <2>2 DEF IInv, SettingsInv
<1>10. SameMap'
  BY <1>1, <1>2, <1>3 DEF IInv, SameMap, Provided
<1>11. KeysInv'
  BY <1>2, <1>4, Who DEF IInv, KeysInv, AdminOnly, Serialized
<1>12. Tracked'
  BY <1>3 DEF Tracked, Pending
<1>13. QED BY <1>6, <1>7, <1>8, <1>9, <1>10, <1>11, <1>12 DEF IInv

\* The change is complete: bean, ConfigProvider and Indexer have the same parts.
LEMMA LoadIndexersInvariant ==
    ASSUME IInv, LoadIndexers
    PROVE  IInv'
<1>1. TypeOK /\ created \in 1..MaxConfigs /\ created \in 1..created /\ created # 0
  BY DEF IInv, ReferencesAgree, TypeOK
<1>2. /\ pc["admin"] = "load" /\ Changing /\ instance' = Provided("indexers")
      /\ UNCHANGED <<objects, created, bean, provided, posted, reloads>>
  BY DEF LoadIndexers, historyVars, Changing, ChangeSteps
<1>3. pc'["admin"] = (IF created = posted THEN "save" ELSE "idle") /\ ~ Changing'
  BY <1>1, Who DEF LoadIndexers, TypeOK, Changing, ChangeSteps
<1>4. AdminOnly
  BY <1>1, <1>2, <1>3, Who DEF LoadIndexers, AdminOnly, saveVars, historyVars, TypeOK
<1>5. provided = created /\ \A p \in Parts : bean[p] = Replacement(p)
  BY <1>2 DEF IInv, ChangeInOrder, ReplacedBefore
<1>6. (\A p \in Parts : Provided(p) = bean[p] /\ Provided(p)' = bean'[p]) /\ instance' = created
      /\ bean["indexers"] = created
  BY <1>1, <1>2, <1>5 DEF Provided, Replacement, Parts
<1>7. TypeOK'
  <2>1. pc' \in [Threads -> AdminSteps \cup OtherSteps] /\ pc'["admin"] \in AdminSteps
        /\ pc'["timer"] \in {"idle", "write", "dead"}
    BY <1>1, <1>3, <1>4, Who DEF TypeOK, AdminSteps, AdminOnly, LoadIndexers
  <2>2. QED BY <1>1, <1>2, <1>4, <1>6, <2>1 DEF TypeOK, AdminOnly
<1>8. ReferencesAgree' /\ MapsExist' /\ SameMap'
  BY <1>2, <1>3, <1>6, <1>7 DEF ReferencesAgree, IInv, MapsExist, SameMap, Parts
<1>9. LockHeld' /\ StepsInv'
  BY <1>4, AdminOnlyFacts
<1>10. ChangeInOrder'
  BY <1>3 DEF ChangeInOrder
<1>11. SettingsInv'
  <2>1. acked' = acked /\ file' = file /\ writing' = writing /\ \A u \in Writers : pc'[u] = "write" => pc[u] = "write"
    BY <1>4, Who DEF AdminOnly
  <2>2. Serialized' = Serialized
    BY <1>2 DEF Serialized
  <2>3. created = posted => AsNewAs(Serialized, posted)
    <3>1. created = posted => AsNewAs(objects[created], posted)
      BY <1>2 DEF IInv, SettingsInv
    <3>2. bean["main"] = created /\ bean["indexers"] = created /\ bean["searching"] = created
      BY <1>5 DEF Replacement, Parts
    <3>3. QED BY <3>1, <3>2 DEF AsNewAs, Serialized
  <2>4. QED BY <1>2, <1>3, <2>1, <2>2, <2>3 DEF IInv, SettingsInv
<1>12. KeysInv'
  BY <1>2, <1>4, Who DEF IInv, KeysInv, AdminOnly, Serialized
<1>13. Tracked'
  <2>1. reloads = 0 => pc'["admin"] = "save"
    BY <1>2, <1>3 DEF IInv, ChangeInOrder
  <2>2. QED BY <1>2, <2>1 DEF Tracked, Pending, Savers
<1>14. QED BY <1>8, <1>9, <1>10, <1>11, <1>12, <1>13 DEF IInv

-----------------------------------------------------------------------------
(* Who else changes the configuration                                      *)

\* Whether an object only differs from an older state of it in what others than the page
\* change, and lost no key.
Grown(new, old) ==
    /\ new.main = old.main /\ new.indexers = old.indexers /\ new.searching = old.searching
    /\ new.storage = old.storage /\ old.keys \subseteq new.keys

LEMMA GrownByKeys ==
    ASSUME NEW o \in Object, NEW keys \in SUBSET Keys
    PROVE  /\ [o EXCEPT !.keys = o.keys \cup keys] \in Object
           /\ Grown([o EXCEPT !.keys = o.keys \cup keys], o)
           /\ [o EXCEPT !.keys = o.keys \cup keys].keys = o.keys \cup keys
BY DEF Object, Grown

LEMMA GrownBySearches ==
    ASSUME NEW o \in Object, NEW searches \in SUBSET SavedSearches
    PROVE  /\ [o EXCEPT !.searches = o.searches \cup searches] \in Object
           /\ Grown([o EXCEPT !.searches = o.searches \cup searches], o)
BY DEF Object, Grown

LEMMA GrownByStatus ==
    ASSUME NEW o \in Object, NEW status \in Statuses
    PROVE  [o EXCEPT !.status = status] \in Object /\ Grown([o EXCEPT !.status = status], o)
BY DEF Object, Grown

LEMMA GrownObjects ==
    ASSUME TypeOK, NEW g \in 1..MaxConfigs, NEW object \in Object, Grown(object, objects[g]),
           objects' = [objects EXCEPT ![g] = object]
    PROVE  objects' \in [1..MaxConfigs -> Object] /\ \A h \in 1..MaxConfigs : Grown(objects'[h], objects[h])
BY DEF TypeOK, Grown

\* A key, a search or a status is put into an object, and whoever did it is about to save.
LEMMA ChangeInMemoryInvariant ==
    ASSUME IInv, NEW t \in Keys \cup SavedSearches \cup Calls,
           pc' = [pc EXCEPT ![t] = IF t \in Calls THEN "request" ELSE "save"],
           pc[t] \in {"idle", "calling"},
           objects' \in [1..MaxConfigs -> Object],
           \A g \in 1..MaxConfigs : Grown(objects'[g], objects[g]),
           t \in Keys /\ reloads = 0 => t \in Serialized'.keys,
           calling' \in [Calls -> 1..created],
           UNCHANGED <<created, bean, provided, instance, toSave, lock, writing, file, page,
                       posted, acked, errors, restarts, reloads>>
    PROVE  IInv'
<1>0. \A g \in 1..MaxConfigs :
          /\ objects'[g].main = objects[g].main /\ objects'[g].indexers = objects[g].indexers
          /\ objects'[g].searching = objects[g].searching
          /\ objects'[g].storage = objects[g].storage
          /\ objects[g].keys \subseteq objects'[g].keys
  BY DEF Grown
<1>1. TypeOK /\ created \in 1..MaxConfigs /\ created \in 1..created
      /\ 1..created \subseteq 1..MaxConfigs
  BY BoundsAssumption DEF IInv, ReferencesAgree, TypeOK
<1>2. t \in Threads /\ t # "admin" /\ t # "timer"
  BY Who DEF Writers, Savers
<1>3. (\A u \in Threads : u # t => pc'[u] = pc[u]) /\ pc'["admin"] = pc["admin"]
      /\ pc'[t] = IF t \in Calls THEN "request" ELSE "save"
  BY <1>1, <1>2, Who DEF TypeOK
<1>4. Changing' <=> Changing
  BY <1>3 DEF Changing
<1>5. /\ \A part \in Parts : bean[part] \in 1..MaxConfigs
      /\ provided # 0 => provided \in 1..MaxConfigs
  BY <1>1 DEF TypeOK
<1>6. /\ Serialized'.main = Serialized.main /\ Serialized'.indexers = Serialized.indexers
      /\ Serialized'.searching = Serialized.searching /\ Serialized.keys \subseteq Serialized'.keys
  BY <1>0, <1>5 DEF Serialized, Parts
<1>7. \A part \in Parts : Provided(part)' = Provided(part)
  BY <1>0, <1>5 DEF Provided
<1>8. TypeOK'
  <2>1. pc' \in [Threads -> AdminSteps \cup OtherSteps] /\ pc'["admin"] \in AdminSteps
        /\ pc'["timer"] \in {"idle", "write", "dead"}
    BY <1>1, <1>2, <1>3, Who DEF TypeOK, AdminSteps, OtherSteps
  <2>2. QED BY <1>1, <2>1 DEF TypeOK
<1>9. ReferencesAgree' /\ MapsExist' /\ SameMap'
  BY <1>0, <1>1, <1>3, <1>4, <1>7, <1>8 DEF ReferencesAgree, IInv, MapsExist, SameMap, Parts
<1>10. LockHeld' /\ StepsInv'
  BY <1>2, <1>3, Who DEF IInv, LockHeld, StepsInv
<1>11. ChangeInOrder'
  <2>1. \A part \in Parts : Replacement(part)' = Replacement(part)
    BY <1>0, <1>1 DEF Replacement
  <2>2. ReplacedBefore(pc["admin"]) \subseteq Parts
    BY DEF ReplacedBefore, Parts
  <2>3. QED BY <1>3, <1>4, <2>1, <2>2 DEF IInv, ChangeInOrder
<1>12. SettingsInv'
  <2>1. \A u \in Writers : pc'[u] = "write" => pc[u] = "write"
    BY <1>2, <1>3, Who
  <2>2. \A n : AsNewAs(Serialized, n) => AsNewAs(Serialized', n)
    BY <1>6 DEF AsNewAs
  <2>3. \A n : AsNewAs(objects[created], n) => AsNewAs(objects'[created], n)
    BY <1>0, <1>1 DEF AsNewAs
  <2>4. QED BY <1>3, <1>4, <2>1, <2>2, <2>3 DEF IInv, SettingsInv
<1>13. KeysInv'
  <2>1. \A u \in Writers : pc'[u] = "write" => pc[u] = "write"
    BY <1>2, <1>3, Who
  <2>2. QED BY <1>2, <1>3, <1>6, <2>1, Who DEF IInv, KeysInv
<1>14. Tracked'
  BY <1>3, Who DEF Tracked, Pending
<1>15. QED BY <1>9, <1>10, <1>11, <1>12, <1>13, <1>14 DEF IInv

\* GenericStorage: everyone's map is that which is serialised, so that the key will be saved.
LEMMA PutKeyInvariant ==
    ASSUME IInv, NEW k \in Keys, PutKey(k)
    PROVE  IInv'
<1> DEFINE g == Provided("storage")
<1>1. TypeOK /\ created \in 1..MaxConfigs /\ 1..created \subseteq 1..MaxConfigs
  BY BoundsAssumption DEF IInv, ReferencesAgree, TypeOK
<1>2. g \in 1..MaxConfigs
  <2>1. CASE provided = 0
    BY <1>1, <2>1 DEF Provided, TypeOK, Parts
  <2>2. CASE provided # 0
    <3>1. provided \in 1..created
      BY <1>1, <2>2 DEF TypeOK
    <3>2. QED BY <1>1, <2>2, <3>1 DEF IInv, MapsExist, Provided
  <2>3. QED BY <2>1, <2>2
<1> DEFINE object == [objects[g] EXCEPT !.keys = objects[g].keys \cup {k}]
<1>3. objects' = [objects EXCEPT ![g] = object]
  BY DEF PutKey
<1>4. object \in Object /\ Grown(object, objects[g]) /\ object.keys = objects[g].keys \cup {k}
  <2>1. objects[g] \in Object /\ {k} \in SUBSET Keys
    BY <1>1, <1>2 DEF TypeOK
  <2> HIDE DEF g
  <2>2. QED BY <2>1, GrownByKeys
<1> HIDE DEF g, object
<1>5. objects' \in [1..MaxConfigs -> Object] /\ \A h \in 1..MaxConfigs : Grown(objects'[h], objects[h])
  BY <1>1, <1>2, <1>3, <1>4, GrownObjects
<1>6. reloads = 0 => k \in Serialized'.keys
  <2>1. reloads = 0 => bean["storage"] = g
    BY DEF IInv, SameMap, g
  <2>2. k \in objects'[g].keys
    BY <1>1, <1>2, <1>3, <1>4 DEF TypeOK
  <2>3. bean' = bean
    BY DEF PutKey, refVars
  <2>4. QED BY <2>1, <2>2, <2>3 DEF Serialized
<1>7. pc' = [pc EXCEPT ![k] = IF k \in Calls THEN "request" ELSE "save"] /\ pc[k] \in {"idle", "calling"}
  BY ThreadsAssumption DEF PutKey
<1>8. calling' \in [Calls -> 1..created]
  BY <1>1 DEF PutKey, TypeOK
<1>9. QED
  BY <1>5, <1>6, <1>7, <1>8, ChangeInMemoryInvariant DEF PutKey, refVars, saveVars, historyVars

\* SavedSearchesWeb and a call which ends: as PutKey, in another part.
LEMMA SaveSearchInvariant ==
    ASSUME IInv, NEW s \in SavedSearches, SaveSearch(s)
    PROVE  IInv'
<1> DEFINE g == Provided("searching")
<1>1. TypeOK /\ g \in 1..MaxConfigs
  <2>1. TypeOK /\ 1..created \subseteq 1..MaxConfigs
    BY BoundsAssumption DEF IInv, ReferencesAgree, TypeOK
  <2>2. QED BY <2>1 DEF TypeOK, Provided, Parts
<1> DEFINE object == [objects[g] EXCEPT !.searches = objects[g].searches \cup {s}]
<1>2. objects' = [objects EXCEPT ![g] = object]
  BY DEF SaveSearch
<1>3. object \in Object /\ Grown(object, objects[g])
  <2>1. objects[g] \in Object /\ {s} \in SUBSET SavedSearches
    BY <1>1 DEF TypeOK
  <2> HIDE DEF g
  <2>2. QED BY <2>1, GrownBySearches
<1> HIDE DEF g, object
<1>4. objects' \in [1..MaxConfigs -> Object] /\ \A h \in 1..MaxConfigs : Grown(objects'[h], objects[h])
  BY <1>1, <1>2, <1>3, GrownObjects
<1>5. pc' = [pc EXCEPT ![s] = IF s \in Calls THEN "request" ELSE "save"] /\ pc[s] \in {"idle", "calling"}
      /\ s \notin Keys
  BY ThreadsAssumption DEF SaveSearch
<1>6. calling' \in [Calls -> 1..created]
  BY <1>1 DEF SaveSearch, TypeOK
<1>7. QED
  BY <1>4, <1>5, <1>6, ChangeInMemoryInvariant DEF SaveSearch, refVars, saveVars, historyVars

LEMMA CallEndsInvariant ==
    ASSUME IInv, NEW c \in Calls, NEW status \in Statuses, CallEnds(c, status)
    PROVE  IInv'
<1> DEFINE g == calling[c]
<1>1. TypeOK /\ g \in 1..MaxConfigs /\ 1 \in 1..created
  <2>1. TypeOK /\ 1..created \subseteq 1..MaxConfigs /\ 1 \in 1..created
    BY BoundsAssumption DEF IInv, ReferencesAgree, TypeOK
  <2>2. QED BY <2>1 DEF TypeOK
<1> DEFINE object == [objects[g] EXCEPT !.status = status]
<1>2. objects' = [objects EXCEPT ![g] = object]
  BY DEF CallEnds
<1>3. object \in Object /\ Grown(object, objects[g])
  <2>1. objects[g] \in Object
    BY <1>1 DEF TypeOK
  <2> HIDE DEF g
  <2>2. QED BY <2>1, GrownByStatus
<1>4. calling' \in [Calls -> 1..created]
  BY <1>1 DEF CallEnds, TypeOK
<1> HIDE DEF g, object
<1>5. objects' \in [1..MaxConfigs -> Object] /\ \A h \in 1..MaxConfigs : Grown(objects'[h], objects[h])
  BY <1>1, <1>2, <1>3, GrownObjects
<1>6. pc' = [pc EXCEPT ![c] = IF c \in Calls THEN "request" ELSE "save"] /\ pc[c] \in {"idle", "calling"}
      /\ c \notin Keys
  BY ThreadsAssumption DEF CallEnds
<1>7. QED
  BY <1>4, <1>5, <1>6, ChangeInMemoryInvariant DEF CallEnds, refVars, saveVars, historyVars

-----------------------------------------------------------------------------

\* A step which leaves the configuration, the file and who writes alone.
LEMMA QuietInvariant ==
    ASSUME IInv, Tracked',
           \A u \in Writers : pc'[u] = pc[u],
           \A c \in Calls : pc'[c] \in {"idle", "calling", "request", "done"},
           pc' \in [Threads -> AdminSteps \cup OtherSteps],
           page' \in Page, calling' \in [Calls -> 1..created], toSave' \in BOOLEAN,
           UNCHANGED <<objects, created, bean, provided, instance, lock, writing, file,
                       posted, acked, errors, restarts, reloads>>
    PROVE  IInv'
<1>1. TypeOK /\ Serialized' = Serialized /\ (\A part \in Parts : Provided(part)' = Provided(part))
      /\ pc'["admin"] = pc["admin"] /\ pc'["timer"] = pc["timer"] /\ (Changing' <=> Changing)
  BY Who DEF IInv, ReferencesAgree, Serialized, Provided, Changing
<1>2. TypeOK'
  BY <1>1 DEF TypeOK
<1>3. ReferencesAgree' /\ MapsExist' /\ SameMap' /\ ChangeInOrder'
  BY <1>1, <1>2 DEF IInv, ReferencesAgree, MapsExist, SameMap, Parts, ChangeInOrder, Replacement
<1>4. LockHeld' /\ StepsInv'
  BY Who DEF IInv, LockHeld, StepsInv
<1>5. SettingsInv' /\ KeysInv'
  BY <1>1, Who DEF IInv, SettingsInv, KeysInv
<1>6. QED BY <1>3, <1>4, <1>5 DEF IInv

\* save(false) waits for the lock, so that no write which began before clears toSave.
LEMMA RequestSaveInvariant ==
    ASSUME IInv, NEW c \in Calls, RequestSave(c)
    PROVE  IInv'
<1>1. TypeOK
  BY DEF IInv, ReferencesAgree
<1>2. pc' \in [Threads -> AdminSteps \cup OtherSteps] /\ \A u \in Threads : u # c => pc'[u] = pc[u]
  BY <1>1 DEF RequestSave, TypeOK, OtherSteps
<1>3. (\A u \in Writers : pc'[u] = pc[u]) /\ \A d \in Calls : pc'[d] \in {"idle", "calling", "request", "done"}
  BY <1>1, <1>2, Who DEF RequestSave, TypeOK, IInv, StepsInv
<1>4. Tracked'
  BY DEF RequestSave, MayRequestSave, Tracked
<1>5. QED BY <1>1, <1>2, <1>3, <1>4, QuietInvariant DEF RequestSave, refVars, historyVars, TypeOK

LEMMA BeginCallInvariant ==
    ASSUME IInv, NEW c \in Calls, BeginCall(c)
    PROVE  IInv'
<1>1. TypeOK
  BY DEF IInv, ReferencesAgree
<1>2. pc' \in [Threads -> AdminSteps \cup OtherSteps] /\ \A u \in Threads : u # c => pc'[u] = pc[u]
  BY <1>1 DEF BeginCall, TypeOK, OtherSteps
<1>3. (\A u \in Writers : pc'[u] = pc[u]) /\ \A d \in Calls : pc'[d] \in {"idle", "calling", "request", "done"}
  BY <1>1, <1>2, Who DEF BeginCall, TypeOK, IInv, StepsInv
<1>4. UNCHANGED <<objects, created, refVars, saveVars, page, historyVars>> /\ calling' \in [Calls -> 1..created]
  BY <1>1 DEF BeginCall, TypeOK
<1>5. Tracked'
  <2>1. Pending => Pending'
    BY <1>2, <1>3, Who DEF Pending, Changing, BeginCall
  <2>2. Serialized' = Serialized
    BY <1>4 DEF Serialized, refVars
  <2>3. QED BY <1>4, <2>1, <2>2 DEF IInv, Tracked, saveVars, historyVars
<1>6. QED BY <1>1, <1>2, <1>3, <1>4, <1>5, QuietInvariant DEF refVars, saveVars, historyVars, TypeOK

\* Opening a page, or nothing at all.
LEMMA OpenPageInvariant ==
    ASSUME IInv, OpenPage \/ UNCHANGED vars
    PROVE  IInv'
<1>1. TypeOK
  BY DEF IInv, ReferencesAgree
<1>2. UNCHANGED <<objects, created, refVars, saveVars, pc, calling, historyVars>>
  BY DEF OpenPage, vars
<1>3. page' \in Page
  BY <1>1 DEF OpenPage, vars, TypeOK, Shown, Page, Content
<1>4. Tracked'
  BY <1>2 DEF IInv, Tracked, Pending, Changing, Serialized, refVars, saveVars, historyVars
<1>5. pc' \in [Threads -> AdminSteps \cup OtherSteps] /\ \A c \in Calls : pc'[c] \in {"idle", "calling", "request", "done"}
  BY <1>1, <1>2 DEF TypeOK, IInv, StepsInv
<1>6. QED BY <1>1, <1>2, <1>3, <1>4, <1>5, QuietInvariant DEF refVars, saveVars, historyVars, TypeOK

-----------------------------------------------------------------------------
(* Restart                                                                 *)

\* What is in memory is what is in the file, nobody runs.
LEMMA RestartInvariant ==
    ASSUME IInv, Restart
    PROVE  IInv'
<1> DEFINE object == ObjectOf(file, created + 1)
<1>1. TypeOK /\ created \in 1..MaxConfigs /\ created + 1 \in 1..MaxConfigs /\ file \in Content
      /\ 1..created \subseteq 1..(created + 1)
  BY BoundsAssumption DEF IInv, ReferencesAgree, TypeOK, Restart
<1>2. object \in Object /\ object.storage = created + 1
      /\ object.main = file.main /\ object.indexers = file.indexers /\ object.searching = file.searching
      /\ object.status = file.status /\ object.searches = file.searches /\ object.keys = file.keys
  BY <1>1 DEF Object, Content, ObjectOf
<1>3. /\ objects' = [objects EXCEPT ![created + 1] = object] /\ created' = created + 1
      /\ bean' = [part \in Parts |-> created + 1] /\ provided' = 0 /\ instance' = created + 1
      /\ toSave' = FALSE /\ lock' = "free" /\ calling' = [c \in Calls |-> 1]
      /\ writing' = [t \in Savers \cup {"timer"} |-> Initially]
      /\ UNCHANGED <<file, page, posted, acked, errors, reloads>>
  BY DEF Restart
<1> HIDE DEF object
<1>4. objects'[created + 1] = object /\ \A g \in 1..created : objects'[g] = objects[g]
  BY <1>1, <1>3 DEF TypeOK
<1>5. Serialized' = file
  <2>1. Serialized' = [main |-> file.main, indexers |-> file.indexers, searching |-> file.searching,
                       status |-> file.status, searches |-> file.searches, keys |-> file.keys]
    BY <1>2, <1>3, <1>4 DEF Serialized, Parts
  <2>2. QED BY <1>1, <2>1 DEF Content
<1>6. /\ pc'["admin"] = "idle" /\ pc'["timer"] = "idle" /\ \A c \in Calls : pc'[c] = "idle"
      /\ \A t \in Keys \cup SavedSearches : pc'[t] \in {"idle", "done", "failed"}
      /\ \A t \in Keys \cup SavedSearches : pc'[t] = "done" => pc[t] = "done"
  BY <1>1, Who DEF Restart, IInv, StepsInv, Threads, Savers
<1>7. ~ Changing' /\ \A t \in Writers : pc'[t] # "write"
  BY <1>6 DEF Changing, ChangeSteps, Writers, Savers
<1>8. TypeOK'
  <2>1. pc' \in [Threads -> AdminSteps \cup OtherSteps] /\ pc'["admin"] \in AdminSteps
        /\ pc'["timer"] \in {"idle", "write", "dead"}
    <3>1. \A t \in Threads : pc'[t] \in AdminSteps \cup OtherSteps
      BY <1>6 DEF Threads, Savers, AdminSteps, OtherSteps
    <3>2. pc' = [t \in Threads |-> pc'[t]]
      BY DEF Restart
    <3>3. QED BY <1>6, <3>1, <3>2 DEF AdminSteps
  <2>2. Initially \in Content
    BY BoundsAssumption DEF Initially, Content, Statuses
  <2>3. objects' \in [1..MaxConfigs -> Object] /\ writing' \in [Savers \cup {"timer"} -> Content]
    BY <1>1, <1>2, <1>3, <2>2 DEF TypeOK
  <2>4. /\ bean' \in [Parts -> 1..created'] /\ provided' \in 0..created' /\ instance' \in 1..created'
        /\ calling' \in [Calls -> 1..created'] /\ created' \in 1..MaxConfigs
        /\ acked' \in 1..posted' /\ posted' \in 1..created'
    BY <1>1, <1>3 DEF TypeOK
  <2>5. restarts' \in 0..MaxLoads
    BY <1>1, BoundsAssumption DEF TypeOK, Restart
  <2>6. QED BY <1>1, <1>3, <2>1, <2>3, <2>4, <2>5 DEF TypeOK
<1>9. ReferencesAgree' /\ SameMap'
  BY <1>3, <1>7, <1>8 DEF ReferencesAgree, SameMap, Provided, Parts
<1>10. MapsExist'
  BY <1>1, <1>2, <1>3, <1>4 DEF IInv, MapsExist
<1>11. LockHeld' /\ StepsInv' /\ ChangeInOrder'
  BY <1>3, <1>6, <1>7, Who DEF LockHeld, StepsInv, ChangeInOrder
<1>12. SettingsInv'
  BY <1>3, <1>5, <1>6, <1>7 DEF IInv, SettingsInv
<1>13. KeysInv'
  BY <1>3, <1>5, <1>6, <1>7 DEF IInv, KeysInv
<1>14. Tracked'
  BY <1>3, <1>5 DEF Tracked
<1>15. QED BY <1>9, <1>10, <1>11, <1>12, <1>13, <1>14 DEF IInv

-----------------------------------------------------------------------------

\* Every step keeps the inductive invariant.
LEMMA NextInvariant == IInv /\ [Next]_vars => IInv'
<1> SUFFICES ASSUME IInv, [Next]_vars PROVE IInv'
  OBVIOUS
<1>1. ASSUME NEW t \in Savers, SaveInstantly(t) PROVE IInv'
  <2>1. t \in Writers /\ t # "timer"
    BY Who
  <2>2. QED
    BY <1>1, <2>1, StartWritingInvariant DEF SaveInstantly, StartWriting, CanLock, refVars, historyVars
<1>2. CASE SaveDelayed
  BY <1>2, Who, StartWritingInvariant DEF SaveDelayed, StartWriting, CanLock, refVars, historyVars
<1>3. ASSUME NEW t \in Savers, SavedInstantly(t) PROVE IInv'
  <2>1. t \in Writers
    BY Who
  <2>2. QED BY <1>3, <2>1, WrittenInvariant DEF SavedInstantly, refVars
<1>4. CASE SavedDelayed
  BY <1>4, Who, WrittenInvariant DEF SavedDelayed, refVars, historyVars
<1>5. ASSUME NEW t \in Savers, InstantSaveFails(t) PROVE IInv'
  <2>1. t \in Writers /\ t # "timer"
    BY Who
  <2>2. QED BY <1>5, <2>1, WriteFailsInvariant DEF InstantSaveFails, refVars
<1>6. CASE DelayedSaveFails
  BY <1>6, Who, WriteFailsInvariant DEF DelayedSaveFails, refVars
<1>7. CASE OpenPage \/ UNCHANGED vars
  BY <1>7, OpenPageInvariant
<1>8. CASE PostConfig \/ ReloadConfig \/ HandleNewConfig \/ LoadIndexers
  BY <1>8, PostConfigInvariant, ReloadConfigInvariant, HandleNewConfigInvariant, LoadIndexersInvariant
<1>9. ASSUME NEW part \in Parts, ReplacePart(part) PROVE IInv'
  BY <1>9, ReplacePartInvariant
<1>10. CASE (\E k \in Keys : PutKey(k)) \/ (\E s \in SavedSearches : SaveSearch(s))
  BY <1>10, PutKeyInvariant, SaveSearchInvariant
<1>11. ASSUME NEW c \in Calls, BeginCall(c) \/ RequestSave(c) PROVE IInv'
  BY <1>11, BeginCallInvariant, RequestSaveInvariant
<1>12. ASSUME NEW c \in Calls, NEW status \in Statuses, CallEnds(c, status) PROVE IInv'
  BY <1>12, CallEndsInvariant
<1>13. CASE Restart
  BY <1>13, RestartInvariant
<1>14. QED
  BY <1>1, <1>2, <1>3, <1>4, <1>5, <1>6, <1>7, <1>8, <1>9, <1>10, <1>11, <1>12, <1>13
     DEF Next, Writing, WritingDelayed

\* The inductive invariant holds in every reachable state.
THEOREM Invariant == Spec => []IInv
BY InitInvariant, NextInvariant, PTL DEF Spec

\* When no change is under way, ConfigProvider, the Indexer and the bean have the same
\* parts (replace and the listeners of its event). Includes type correctness.
THEOREM PartsAgree == Spec => []ReferencesAgree
<1>1. IInv => ReferencesAgree
  BY DEF IInv
<1>2. QED BY <1>1, Invariant, PTL

\* A configuration answered with success is in the file for good, whatever writes and
\* restarts follow (save, replace, init).
THEOREM NothingUndone == Spec => []SettingsDurable
<1>1. IInv => SettingsDurable
  BY DEF IInv, SettingsInv, AsNewAs, SettingsDurable
<1>2. QED BY <1>1, Invariant, PTL

\* A key of the generic storage which was saved stays in the file, whatever pages are posted
\* and restarts happen (prepareForSaving, GenericStorage).
THEOREM KeysStay == Spec => []StorageKept
<1>1. IInv => StorageKept
  BY DEF IInv, KeysInv, StorageKept
<1>2. QED BY <1>1, Invariant, PTL

\* No change falls between the instant and the delayed saves (save, saveToSave).
THEOREM NothingForgotten == Spec => []NothingUnsaved
<1>1. IInv => NothingUnsaved
  <2>1. Settled => ~ Pending
    BY DEF Settled, Pending, Changing, ChangeSteps, Savers
  <2>2. QED BY <2>1 DEF IInv, Tracked, NothingUnsaved, Settled
<1>2. QED BY <1>1, Invariant, PTL
=============================================================================

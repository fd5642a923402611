--------------------------- MODULE ChannelStatus ---------------------------
(***************************************************************************)
(* The status of one upstream channel and of its keys, and the in-memory   *)
(* channel cache that routes requests to it.                               *)
(*                                                                         *)
(* A channel is a row of the database: its status, its list of keys and,   *)
(* in ChannelInfo, a status, a time and a priority per key INDEX and the   *)
(* polling cursor.  Requests pick a key of the channel, and disable the    *)
(* key when the upstream rejects it (DisableChannel); the channel test     *)
(* probes the keys that were disabled and enables those that work again;   *)
(* operators set the channel's status, manage its keys and edit its key    *)
(* list.  With the memory cache on, requests work on a shared object of    *)
(* channelsIDM, which InitChannelCache replaces as a whole by what it read *)
(* from the database a moment earlier; a request keeps the pointer it got. *)
(* With the cache off every request works on a copy of the row.            *)
(*                                                                         *)
(* UpdateChannelStatus and ManageMultiKeys run several statements under    *)
(* the polling lock of the channel; each of them is a step.                *)
(***************************************************************************)
EXTENDS Integers, Sequences, SequencesExt, FiniteSets, FiniteSetsExt

CONSTANTS
  Requests,      \* the requests in flight at a time
  Prober,        \* the channel test task
  Syncer,        \* SyncChannelCache
  Admin,         \* an operator who sets the channel's status
  Manager,       \* an operator who manages or edits the keys
  NoOne,         \* "no actor", "no object" and "no key"
  Slots,         \* places for channel objects in memory, a set of integers
  NewKeys,       \* the keys an operator may bring in, a sequence
  Configs        \* the channels and the settings a run explores

VARIABLE config  \* the one of this behaviour; it never changes

FirstKeys == config.keys       \* the key list of the channel at first
FirstList == config.list       \* MultiKeyStatusList at first
FirstSick == config.sick       \* the keys the upstream rejects at first
MultiKey == config.multi       \* ChannelInfo.IsMultiKey
Polling == config.polling      \* MultiKeyMode: polling, or else random
MemoryCache == config.cache    \* common.MemoryCacheEnabled
ManageOps == config.ops        \* the operations the manager may ask for
Dead == config.dead            \* the keys the upstream rejects for ever
Clients == config.clients      \* those of Requests that send anything
MaxRequests == config.requests \* bound on the requests sent
MaxProbes == config.probes     \* bound on the probes, or -1 for none
MaxSyncs == config.syncs       \* bound on the periodic syncs, or -1 for none
MaxAdmin == config.admin       \* bound on the operators' actions
MaxClock == config.clock       \* bound on the clock

Enabled == "enabled"
ManuallyDisabled == "manual"
AutoDisabled == "auto"
Statuses == {Enabled, ManuallyDisabled, AutoDisabled}
Actors == Requests \cup {Prober, Syncer, Admin, Manager}

\* The operations of ManageMultiKeys and, the last two, of UpdateChannel.
Operations ==
  {"disable_key", "enable_key", "enable_all_keys", "disable_all_keys", "delete_key",
   "delete_disabled_keys", "set_key_priority", "clear_key_priority", "append", "replace"}

AllKeys == ToSet(NewKeys) \cup UNION {ToSet(c.keys) : c \in Configs}

ASSUME ConstantsOK ==
  /\ IsFiniteSet(Requests) /\ NoOne \notin Actors
  /\ {Prober, Syncer, Admin, Manager} \cap Requests = {}
  /\ IsInjective(<<Prober, Syncer, Admin, Manager>>)
  /\ IsFiniteSet(Slots) /\ Slots \subseteq Int /\ NoOne \notin Slots
  /\ Cardinality(Slots) > Cardinality(Actors) + 1
  /\ NewKeys \in Seq(AllKeys) /\ Len(NewKeys) > 0 /\ NoOne \notin AllKeys
  /\ \A c \in Configs :
       /\ c.multi \in BOOLEAN /\ c.polling \in BOOLEAN /\ c.cache \in BOOLEAN
       /\ c.ops \subseteq Operations
       /\ c.keys \in Seq(AllKeys) /\ Len(c.keys) > 0
       /\ ~c.multi => Len(c.keys) = 1
       /\ IsInjective(c.keys \o NewKeys)
       /\ c.dead \subseteq c.sick /\ c.sick \subseteq ToSet(c.keys \o NewKeys)
       /\ DOMAIN c.list \subseteq DOMAIN c.keys
       /\ \A i \in DOMAIN c.list : c.list[i] \in {AutoDisabled, ManuallyDisabled}

VARIABLES
  row,       \* the channel in the database
  ability,   \* the "enabled" column of its rows of the abilities table
  heap,      \* the channel objects in memory
  cur,       \* channelsIDM: the slot of the cached object
  routable,  \* the channel is in group2model2channels
  lock,      \* the holder of the polling lock (and of channelStatusLock)
  pc,        \* what each actor is about to do
  at,        \* the object each actor holds
  key,       \* the key each actor uses
  goal,      \* the status, or the operation, each actor is bringing about
  index,     \* the key index of the manager's operation
  sick,      \* the keys the upstream rejects now
  clock,     \* GetTimestamp
  used,      \* how often each bounded action has run
  recorded,  \* history: the keys whose disabling was written and not undone
  deleted    \* history: the keys whose deletion was reported

vars == <<config, row, ability, heap, cur, routable, lock, pc, at, key, goal, index,
          sick, clock, used, recorded, deleted>>
db == <<row, ability>>
cache == <<cur, routable>>
world == <<config, sick, clock>>
history == <<recorded, deleted>>

-----------------------------------------------------------------------------
(* The channel object: its keys, their statuses and the choice of a key.   *)

StatusOf(ch, i) == IF i \in DOMAIN ch.list THEN ch.list[i] ELSE Enabled
IndexOfKey(ch, k) == Min({i \in DOMAIN ch.keys : ch.keys[i] = k})
StatusOfKey(ch, k) == StatusOf(ch, IndexOfKey(ch, k))
Usable(ch) == {i \in DOMAIN ch.keys : StatusOf(ch, i) = Enabled}
PriorityOf(ch, i) == IF i \in DOMAIN ch.prio THEN ch.prio[i] ELSE 0

\* Only the highest priority among the usable keys serves traffic.
Tier(ch) ==
  {i \in Usable(ch) : \A j \in Usable(ch) : PriorityOf(ch, j) <= PriorityOf(ch, i)}

\* GetNextEnabledKey: any key of the tier, or the next one after the cursor.
NextIndices(ch, cursor) ==
  LET n == Len(ch.keys)
      from == IF cursor \in 1 .. n THEN cursor ELSE 1
      Distance(i) == (i - from) % n
  IN IF ~MultiKey THEN {1}
     ELSE IF ~Polling THEN Tier(ch)
     ELSE {i \in Tier(ch) : \A j \in Tier(ch) : Distance(i) <= Distance(j)}

NextCursor(ch, i) == (i % Len(ch.keys)) + 1

hasEnabledMultiKey(ch) == Usable(ch) # {}

\* The key's own entry: enabling removes it, disabling again keeps its time.
Marked(ch, i, status) ==
  IF status = Enabled
  THEN [ch EXCEPT !.list = [j \in DOMAIN ch.list \ {i} |-> ch.list[j]],
                  !.since = [j \in DOMAIN ch.since \ {i} |-> ch.since[j]]]
  ELSE IF StatusOf(ch, i) = status THEN ch
  ELSE [ch EXCEPT
    !.list = [j \in DOMAIN ch.list \cup {i} |->
                IF j = i THEN status ELSE ch.list[j]],
    !.since = [j \in DOMAIN ch.since \cup {i} |->
                IF j = i THEN clock ELSE ch.since[j]]]

\* The channel's status is derived from those of its keys.
handlerMultiKeyUpdate(ch, k, status) ==
  LET i == IndexOfKey(ch, k)
      marked == Marked(ch, i, status)
  IN IF k = NoOne THEN [ch EXCEPT !.status = status]
     ELSE IF k \notin ToSet(ch.keys) THEN ch
     ELSE IF ~hasEnabledMultiKey(marked)
          THEN [marked EXCEPT !.status = AutoDisabled]
     ELSE IF status = Enabled THEN [marked EXCEPT !.status = Enabled]
     ELSE marked

Updated(ch, k, status) ==
  IF MultiKey THEN handlerMultiKeyUpdate(ch, k, status)
  ELSE [ch EXCEPT !.status = status]

Differs(a, b) == a.status # b.status \/ a.list # b.list

-----------------------------------------------------------------------------
Init ==
  /\ config \in Configs
  /\ row = [status |-> IF \A i \in DOMAIN FirstKeys : i \in DOMAIN FirstList
                       THEN AutoDisabled ELSE Enabled,
            keys |-> FirstKeys, list |-> FirstList,
            since |-> [i \in DOMAIN FirstList |-> 0],
            prio |-> [i \in {} |-> 0], cursor |-> 1]
  /\ ability = (row.status = Enabled)
  /\ cur = IF MemoryCache THEN Min(Slots) ELSE NoOne
  /\ heap = [s \in Slots |-> IF s = cur THEN row ELSE NoOne]
  /\ routable = (MemoryCache /\ row.status = Enabled)
  /\ lock = NoOne
  /\ pc = [a \in Actors |-> "idle"]
  /\ at = [a \in Actors |-> NoOne]
  /\ key = [a \in Actors |-> NoOne]
  /\ goal = [a \in Actors |-> Enabled]
  /\ index = 0
  /\ sick = FirstSick
  /\ clock = 0
  /\ used = [requests |-> 0, probes |-> 0, syncs |-> 0, admin |-> 0]
  /\ recorded = {FirstKeys[i] : i \in DOMAIN FirstList}
  /\ deleted = {}

Free == CHOOSE s \in Slots : s # cur /\ \A a \in Actors : at[a] # s

\* An object nobody can reach is gone.
Kept(objects, top, held) ==
  [s \in Slots |-> IF s = top \/ \E a \in Actors : held[a] = s
                   THEN objects[s] ELSE NoOne]

Hold(a, s, object) ==
  /\ at' = [at EXCEPT ![a] = s]
  /\ heap' = Kept([heap EXCEPT ![s] = object], cur, at')

\* The actor is done: it drops what it held.
Done(a) ==
  /\ pc' = [pc EXCEPT ![a] = "idle"]
  /\ at' = [at EXCEPT ![a] = NoOne]
  /\ key' = [key EXCEPT ![a] = NoOne]
  /\ goal' = [goal EXCEPT ![a] = Enabled]

Release(a) == lock' = IF lock = a THEN NoOne ELSE lock

Goto(a, label) == pc' = [pc EXCEPT ![a] = label]

Spend(what, bound) ==
  /\ bound < 0 \/ used[what] < bound
  /\ used' = IF bound < 0 THEN used ELSE [used EXCEPT ![what] = @ + 1]

-----------------------------------------------------------------------------
(* Requests.                                                               *)

\* GetRandomSatisfiedChannel: the cached object, or a copy of the row.
Select(r) ==
  /\ pc[r] = "idle" /\ r \in Clients
  /\ Spend("requests", MaxRequests)
  /\ Goto(r, "pick")
  /\ \/ /\ MemoryCache /\ routable
        /\ at' = [at EXCEPT ![r] = cur]
        /\ UNCHANGED heap
     \/ /\ ~MemoryCache /\ ability
        /\ Hold(r, Free, row)
  /\ UNCHANGED <<db, cache, lock, key, goal, index, world, history>>

\* SaveChannelInfo: the whole of ChannelInfo, as the object has it.
WithInfoOf(target, object) ==
  [target EXCEPT !.list = object.list, !.since = object.since,
                 !.prio = object.prio, !.cursor = object.cursor]

\* GetNextEnabledKey, under the polling lock.
GetNextEnabledKey(a) ==
  LET object == heap[at[a]]
      cursor == IF MemoryCache THEN heap[cur].cursor ELSE row.cursor
  IN /\ MultiKey => lock = NoOne
     /\ \/ /\ MultiKey /\ Usable(object) = {}
           /\ Done(a)
           /\ heap' = Kept(heap, cur, at')
           /\ UNCHANGED row
        \/ /\ Usable(object) # {} \/ ~MultiKey
           /\ \E i \in NextIndices(object, cursor) :
                LET moved == [object EXCEPT !.cursor = NextCursor(object, i)]
                    picked == IF MultiKey /\ Polling THEN moved ELSE object
                IN /\ key' = [key EXCEPT ![a] = object.keys[i]]
                   /\ heap' = [heap EXCEPT ![at[a]] = picked]
                   /\ row' = IF MultiKey /\ Polling /\ ~MemoryCache
                             THEN WithInfoOf(row, picked) ELSE row
           /\ Goto(a, "answer")
           /\ UNCHANGED <<at, goal>>

Pick(r) ==
  /\ pc[r] = "pick"
  /\ GetNextEnabledKey(r)
  /\ UNCHANGED <<ability, cache, lock, index, world, used, history>>

\* The upstream answers; processChannelError disables a rejected key.
Answer(r) ==
  /\ pc[r] = "answer"
  /\ \/ /\ key[r] \notin sick
        /\ Done(r)
        /\ heap' = Kept(heap, cur, at')
     \/ /\ key[r] \in sick
        /\ goal' = [goal EXCEPT ![r] = AutoDisabled]
        /\ Goto(r, "update")
        /\ UNCHANGED <<heap, at, key>>
  /\ UNCHANGED <<db, cache, lock, index, world, used, history>>

-----------------------------------------------------------------------------
(* UpdateChannelStatus(channelId, key[a], goal[a]).                        *)

\* Both locks, for one channel and one process.
TakeLock(a) ==
  /\ pc[a] = "update" /\ lock = NoOne
  /\ lock' = a
  /\ Goto(a, IF MemoryCache THEN "cached" ELSE "load")
  /\ UNCHANGED <<db, heap, cache, at, key, goal, index, world, used, history>>

\* The cached object is changed first; a single-key channel whose cached
\* status is the target already is left alone.
UpdateCached(a) ==
  LET old == heap[cur]
      new == Updated(old, key[a], goal[a])
  IN /\ pc[a] = "cached"
     /\ \/ /\ ~MultiKey /\ old.status = goal[a]
           /\ Done(a) /\ Release(a)
           /\ heap' = Kept(heap, cur, at')
        \/ /\ MultiKey \/ old.status # goal[a]
           /\ at' = [at EXCEPT ![a] = cur]
           /\ heap' = Kept(IF MultiKey THEN [heap EXCEPT ![cur] = new] ELSE heap,
                           cur, at')
           /\ Goto(a, IF old.status # new.status THEN "unroute" ELSE "load")
           /\ UNCHANGED <<lock, key, goal>>
     /\ UNCHANGED <<db, cache, index, world, used, history>>

\* The status of the object the actor changed, onto the cached object of now.
CacheUpdateChannelStatus(a) ==
  LET status == IF MultiKey THEN heap[at[a]].status ELSE goal[a]
  IN /\ pc[a] = "unroute"
     /\ heap' = [heap EXCEPT ![cur].status = status]
     /\ routable' = (routable /\ status = Enabled)
     /\ Goto(a, "load")
     /\ UNCHANGED <<db, cur, lock, at, key, goal, index, world, used, history>>

\* Mutant: the status is worked out from the object at hand, not from the row.
LoadObject(a) ==
  LET old == IF MemoryCache THEN heap[cur]
             ELSE IF at[a] = NoOne THEN row ELSE heap[at[a]]
      new == Updated(old, key[a], goal[a])
  IN /\ pc[a] = "load"
     /\ \/ /\ ~Differs(row, new)
           /\ Done(a) /\ Release(a)
           /\ heap' = Kept(heap, cur, at')
        \/ /\ Differs(row, new)
           /\ LET s == Free IN Hold(a, s, [new EXCEPT !.cursor = row.cursor])
           /\ Goto(a, IF row.status # new.status THEN "saveBoth" ELSE "saveRow")
           /\ UNCHANGED <<lock, key, goal>>
     /\ UNCHANGED <<db, cache, index, world, used, history>>

\* GetChannelById and the change of the copy, or return without a change.
LoadRow(a) ==
  LET new == Updated(row, key[a], goal[a])
  IN /\ pc[a] = "load"
     /\ \/ /\ ~Differs(row, new)
           /\ Done(a) /\ Release(a)
           /\ heap' = Kept(heap, cur, at')
        \/ /\ Differs(row, new)
           /\ LET s == Free IN Hold(a, s, [new EXCEPT !.cursor = row.cursor])
           /\ Goto(a, IF row.status # new.status THEN "saveBoth" ELSE "saveRow")
           /\ UNCHANGED <<lock, key, goal>>
     /\ UNCHANGED <<db, cache, index, world, used, history>>

\* The keys whose disabling the operation records or takes back.
RecordedAfter(k, status) ==
  IF k = NoOne THEN recorded
  ELSE IF status = Enabled THEN recorded \ {k} ELSE recorded \cup {k}

\* An operator's change is followed by InitChannelCache.
Return(a) ==
  IF a = Admin
  THEN /\ pc' = [pc EXCEPT ![a] = IF MemoryCache THEN "refresh" ELSE "idle"]
       /\ at' = [at EXCEPT ![a] = NoOne]
       /\ key' = [key EXCEPT ![a] = NoOne]
       /\ goal' = [goal EXCEPT ![a] = Enabled]
  ELSE Done(a)

\* saveStatusState: the status and, for a multi-key channel, ChannelInfo.
SaveStatusState(a) ==
  LET saved == [row EXCEPT !.status = heap[at[a]].status]
  IN /\ pc[a] \in {"saveRow", "saveBoth"}
     /\ row' = IF MultiKey THEN WithInfoOf(saved, heap[at[a]]) ELSE saved
     /\ recorded' = RecordedAfter(IF MultiKey THEN key[a] ELSE NoOne, goal[a])
     /\ \/ /\ pc[a] = "saveBoth"
           /\ Goto(a, "abilities")
           /\ UNCHANGED <<heap, lock, at, key, goal>>
        \/ /\ pc[a] = "saveRow"
           /\ Return(a) /\ Release(a)
           /\ heap' = Kept(heap, cur, at')
     /\ UNCHANGED <<ability, cache, index, world, used, deleted>>

\* UpdateAbilityStatus, the deferred last statement under the lock.
UpdateAbilityStatus(a) ==
  /\ pc[a] = "abilities" /\ a # Manager
  /\ ability' = (goal[a] = Enabled)
  /\ Return(a) /\ Release(a)
  /\ heap' = Kept(heap, cur, at')
  /\ UNCHANGED <<row, cache, index, world, used, history>>

UpdateChannelStatus(a) ==
  \/ TakeLock(a) \/ UpdateCached(a) \/ CacheUpdateChannelStatus(a)
  \/ LoadRow(a) \/ SaveStatusState(a) \/ UpdateAbilityStatus(a)

-----------------------------------------------------------------------------
(* The channel test.                                                       *)

\* runChannelTestTask reads the row; a manually disabled channel is skipped.
StartProbe ==
  /\ pc[Prober] = "idle"
  /\ row.status # ManuallyDisabled
  /\ Spend("probes", MaxProbes)
  /\ Hold(Prober, Free, row)
  /\ Goto(Prober, "probe")
  /\ UNCHANGED <<db, cache, lock, key, goal, index, world, history>>

AutoDisabledOf(ch) == {i \in DOMAIN ch.keys : StatusOf(ch, i) = AutoDisabled}

\* The auto-disabled key that went bad first; among equals, the first.
selectRecoveryProbeKeyIndex(ch) ==
  LET Since(i) == IF i \in DOMAIN ch.since THEN ch.since[i] ELSE 0
      Before(i, j) == \/ Since(i) < Since(j)
                      \/ Since(i) = Since(j) /\ i <= j
  IN CHOOSE i \in AutoDisabledOf(ch) :
       \A j \in AutoDisabledOf(ch) : Before(i, j)

\* The probe is pinned to such a key, or uses the next enabled one.
ProbeKey ==
  LET object == heap[at[Prober]]
  IN /\ pc[Prober] = "probe"
     /\ \/ /\ MultiKey /\ AutoDisabledOf(object) # {}
           /\ key' = [key EXCEPT ![Prober] =
                        object.keys[selectRecoveryProbeKeyIndex(object)]]
           /\ goal' = [goal EXCEPT ![Prober] = "pinned"]
           /\ Goto(Prober, "answer")
           /\ UNCHANGED <<row, heap, at>>
        \/ /\ ~MultiKey \/ AutoDisabledOf(object) = {}
           /\ GetNextEnabledKey(Prober)
     /\ UNCHANGED <<ability, cache, lock, index, world, used, history>>

\* Mutant: recovery is decided by the status of the channel alone.
VerdictOnChannel(ok) ==
  LET pinned == goal[Prober] = "pinned"
      status == heap[at[Prober]].status
  IN CASE ok /\ status = AutoDisabled -> Enabled
       [] ~ok /\ ~pinned /\ status = Enabled -> AutoDisabled
       [] OTHER -> "none"

\* testChannelForHealthCheck: what the answer makes of the key.
Verdict(ok) ==
  LET pinned == goal[Prober] = "pinned"
      status == heap[at[Prober]].status
  IN CASE ok /\ (pinned \/ status = AutoDisabled) -> Enabled
       [] ~ok /\ ~pinned /\ status = Enabled -> AutoDisabled
       [] OTHER -> "none"

ProbeAnswer ==
  LET verdict == Verdict(key[Prober] \notin sick)
  IN /\ pc[Prober] = "answer"
     /\ \/ /\ verdict = "none"
           /\ Done(Prober)
           /\ heap' = Kept(heap, cur, at')
        \/ /\ verdict # "none"
           /\ goal' = [goal EXCEPT ![Prober] = verdict]
           /\ Goto(Prober, "update")
           /\ UNCHANGED <<heap, at, key>>
     /\ UNCHANGED <<db, cache, lock, index, world, used, history>>

-----------------------------------------------------------------------------
(* InitChannelCache: read everything, then swap under channelSyncLock.     *)

Refresh(a) ==
  /\ \/ pc[a] = "refresh"
     \/ a = Syncer /\ pc[a] = "idle" /\ MemoryCache
  /\ IF a = Syncer THEN Spend("syncs", MaxSyncs) ELSE UNCHANGED used
  /\ Hold(a, Free, row)
  /\ Goto(a, "swap")
  /\ UNCHANGED <<db, cache, lock, key, goal, index, world, history>>

\* Mutant: the statuses of the keys are kept as the cursor is.
SwapKeepsList(a) ==
  LET new == [heap[at[a]] EXCEPT !.list = heap[cur].list]
  IN /\ pc[a] = "swap"
     /\ cur' = at[a]
     /\ routable' = (new.status = Enabled)
     /\ Done(a) /\ Release(a)
     /\ heap' = Kept([heap EXCEPT ![at[a]] = new], cur', at')
     /\ UNCHANGED <<db, index, world, used, history>>

\* The polling cursor of the object in the cache is the one kept.
Swap(a) ==
  LET new == IF MultiKey /\ Polling
             THEN [heap[at[a]] EXCEPT !.cursor = heap[cur].cursor]
             ELSE heap[at[a]]
  IN /\ pc[a] = "swap"
     /\ cur' = at[a]
     /\ routable' = (new.status = Enabled)
     /\ Done(a) /\ Release(a)
     /\ heap' = Kept([heap EXCEPT ![at[a]] = new], cur', at')
     /\ UNCHANGED <<db, index, world, used, history>>

-----------------------------------------------------------------------------
(* The operators.                                                          *)

\* The status endpoint: UpdateChannelStatus with no key.
SetStatus ==
  /\ pc[Admin] = "idle"
  /\ Spend("admin", MaxAdmin)
  /\ \E status \in {Enabled, ManuallyDisabled} :
       goal' = [goal EXCEPT ![Admin] = status]
  /\ Goto(Admin, "update")
  /\ UNCHANGED <<db, heap, cache, lock, at, key, index, world, history>>

\* ManageMultiKeys and UpdateChannel read the row before they take a lock.
StartManaging ==
  /\ pc[Manager] = "idle" /\ MultiKey
  /\ Spend("admin", MaxAdmin)
  /\ \E op \in ManageOps, i \in DOMAIN row.keys :
       /\ op \in {"disable_all_keys", "enable_all_keys", "delete_disabled_keys",
                  "append", "replace"} => i = 1
       /\ goal' = [goal EXCEPT ![Manager] = op]
       /\ index' = i
  /\ Hold(Manager, Free, row)
  /\ Goto(Manager, "manage")
  /\ UNCHANGED <<db, cache, lock, key, world, history>>

\* The j-th of a set of indices, and what a list has at those indices, in order.
Nth(kept, j) == CHOOSE i \in kept : Cardinality({h \in kept : h <= i}) = j
KeysAt(list, kept) == [j \in 1 .. Cardinality(kept) |-> list[Nth(kept, j)]]

\* Mutant: the entries keep their old indices.
OnlyKeysAt(ch, kept) == [ch EXCEPT !.keys = KeysAt(@, kept)]

\* The keys at the kept indices, in order, with their entries re-indexed.
OnlyAt(ch, kept) ==
  LET Moved(f) == [j \in {j \in 1 .. Cardinality(kept) : Nth(kept, j) \in DOMAIN f} |->
                     f[Nth(kept, j)]]
  IN [ch EXCEPT !.keys = KeysAt(@, kept), !.list = Moved(@),
                !.since = Moved(@), !.prio = Moved(@)]

Without(f, i) == [j \in DOMAIN f \ {i} |-> f[j]]

\* The operation on the copy (set_key_priority with 0 is clear_key_priority);
\* an empty result is not a change of Key, for Updates skips empty fields.
Managed(ch, op, i) ==
  CASE op = "disable_key" ->
         [ch EXCEPT !.list = [j \in DOMAIN @ \cup {i} |->
                                IF j = i THEN ManuallyDisabled ELSE @[j]]]
    [] op = "enable_key" ->
         [ch EXCEPT !.list = Without(@, i), !.since = Without(@, i)]
    [] op = "enable_all_keys" ->
         [ch EXCEPT !.list = [j \in {} |-> Enabled], !.since = [j \in {} |-> 0]]
    [] op = "disable_all_keys" ->
         [ch EXCEPT !.list = [j \in DOMAIN ch.keys |->
            IF StatusOf(ch, j) = Enabled THEN ManuallyDisabled ELSE @[j]]]
    [] op = "delete_key" -> OnlyAt(ch, DOMAIN ch.keys \ {i})
    [] op = "delete_disabled_keys" ->
         OnlyAt(ch, DOMAIN ch.keys \ AutoDisabledOf(ch))
    [] op = "set_key_priority" ->
         [ch EXCEPT !.prio = [j \in DOMAIN @ \cup {i} |->
                                IF j = i THEN 1 ELSE @[j]]]
    [] op = "clear_key_priority" -> [ch EXCEPT !.prio = Without(@, i)]
    [] op = "append" ->
         [ch EXCEPT !.keys = @ \o KeysAt(NewKeys,
            {j \in DOMAIN NewKeys : NewKeys[j] \notin ToSet(ch.keys)})]
    [] op = "replace" -> [ch EXCEPT !.keys = NewKeys]

\* Channel.Update drops the entries beyond the keys there are.
Trimmed(f, n) == [j \in DOMAIN f \cap 1 .. n |-> f[j]]

Allowed(ch, op, i) ==
  /\ op = "delete_key" => Len(ch.keys) > 1
  /\ op = "disable_all_keys" => Usable(ch) # {}
  /\ op = "delete_disabled_keys" => AutoDisabledOf(ch) # {}

\* The keys an operation enables, and the keys it says it deleted.
EnabledBy(ch, op, i) ==
  CASE op = "enable_key" -> {ch.keys[i]}
    [] op = "enable_all_keys" -> ToSet(ch.keys)
    [] OTHER -> {}

DeletedBy(ch, op, i) ==
  CASE op = "delete_key" -> {ch.keys[i]}
    [] op = "delete_disabled_keys" -> {ch.keys[j] : j \in AutoDisabledOf(ch)}
    [] OTHER -> {}

\* The lock, the change of the copy and the Updates of Channel.Update.  The
\* edit of the key list (UpdateChannel) takes no lock and writes no status.
Manage ==
  LET op == goal[Manager]
      old == heap[at[Manager]]
      edits == op \in {"append", "replace"}
      new == Managed(old, op, index)
      keys == IF new.keys = <<>> THEN row.keys ELSE new.keys
      n == Len(keys)
  IN /\ pc[Manager] = "manage"
     /\ edits \/ lock = NoOne
     /\ \/ /\ ~Allowed(old, op, index)
           /\ Done(Manager)
           /\ heap' = Kept(heap, cur, at')
           /\ UNCHANGED <<row, lock, history>>
        \/ /\ Allowed(old, op, index)
           /\ row' = [row EXCEPT !.status = IF edits THEN @ ELSE old.status,
                                 !.keys = keys, !.list = Trimmed(new.list, n),
                                 !.since = new.since,
                                 !.prio = Trimmed(new.prio, n),
                                 !.cursor = old.cursor]
           /\ recorded' = recorded \ EnabledBy(old, op, index)
           /\ deleted' = deleted \cup DeletedBy(old, op, index)
           /\ lock' = IF edits THEN lock ELSE Manager
           /\ Goto(Manager, "reload")
           /\ UNCHANGED <<heap, at, key, goal>>
     /\ UNCHANGED <<ability, cache, index, world, used>>

\* The rest of Channel.Update: the row is read again ...
Reload ==
  /\ pc[Manager] = "reload"
  /\ Hold(Manager, at[Manager], row)
  /\ Goto(Manager, "abilities")
  /\ UNCHANGED <<db, cache, lock, key, goal, index, world, used, history>>

\* ... for UpdateAbilities, and InitChannelCache follows under the lock.
UpdateAbilities ==
  /\ pc[Manager] = "abilities"
  /\ ability' = (heap[at[Manager]].status = Enabled)
  /\ \/ /\ MemoryCache
        /\ Goto(Manager, "refresh")
        /\ UNCHANGED <<heap, lock, at, key, goal>>
     \/ /\ ~MemoryCache
        /\ Done(Manager) /\ Release(Manager)
        /\ heap' = Kept(heap, cur, at')
  /\ UNCHANGED <<row, cache, index, world, used, history>>

-----------------------------------------------------------------------------
(* The world.                                                              *)

\* The upstream accepts a key again.
Heal ==
  /\ \E k \in sick \ Dead : sick' = sick \ {k}
  /\ UNCHANGED <<db, heap, cache, lock, pc, at, key, goal, index, config, clock, used, history>>

Tick ==
  /\ clock < MaxClock
  /\ clock' = clock + 1
  /\ UNCHANGED <<db, heap, cache, lock, pc, at, key, goal, index, config, sick, used, history>>

Next ==
  \/ \E r \in Requests : Select(r) \/ Pick(r) \/ Answer(r)
  \/ \E a \in Actors : UpdateChannelStatus(a)
  \/ \E a \in Actors : Refresh(a) \/ Swap(a)
  \/ StartProbe \/ ProbeKey \/ ProbeAnswer
  \/ SetStatus \/ StartManaging \/ Manage \/ Reload \/ UpdateAbilities
  \/ Heal \/ Tick

\* The next statement of a goroutine in the middle of a call.
Proceed(a) ==
  \/ UpdateChannelStatus(a) \/ Refresh(a) \/ Swap(a)
  \/ a \in Requests /\ (Pick(a) \/ Answer(a))
  \/ a = Prober /\ (ProbeKey \/ ProbeAnswer)
  \/ a = Manager /\ (Manage \/ Reload \/ UpdateAbilities)

\* Every goroutine that has started a call goes on, and gets the lock when it
\* is free again and again; the channel test and the sync come round for ever,
\* and the upstream heals what is not dead.
Fairness ==
  /\ \A a \in Actors : SF_vars(Proceed(a))
  /\ WF_vars(StartProbe)
  /\ WF_vars(Heal)

Spec == Init /\ [][Next]_vars
FairSpec == Spec /\ Fairness

-----------------------------------------------------------------------------
(* An operator who manages the keys works on a copy of the row that was    *)
(* read before the lock, an edit of the key list takes none, and without   *)
(* the memory cache a polling request saves the ChannelInfo of its own     *)
(* copy: the statuses are protected where none of them writes the row.     *)
Protected == ManageOps = {} /\ ~(MultiKey /\ Polling /\ ~MemoryCache)

\* A key whose disabling was written to the database stays disabled there
\* until something enables it, whatever else writes ChannelInfo (the status of
\* another key, the polling cursor); and a key is only out of rotation as
\* auto-disabled if that very key was disabled, and was not enabled since.
DisabledAsRecorded ==
  Protected =>
    /\ \A k \in recorded \cap ToSet(row.keys) : StatusOfKey(row, k) # Enabled
    /\ \A i \in AutoDisabledOf(row) : MultiKey => row.keys[i] \in recorded

\* The channel counts as auto-disabled only while none of its keys is usable
\* (handlerMultiKeyUpdate derives it from the keys' statuses).
AutoDisabledHasNoKey ==
  Protected /\ MultiKey /\ row.status = AutoDisabled => Usable(row) = {}

\* Outside the status flow the abilities table, which routes the requests when
\* the cache is off, says that the channel is enabled exactly when its row does;
\* and a channel in the routing map of the cache is enabled there, although its
\* object is replaced by syncs in between.
RoutesFollowStatus ==
  lock = NoOne =>
    /\ ManageOps \cap {"append", "replace"} = {} => ability = (row.status = Enabled)
    /\ routable => heap[cur].status = Enabled

\* Deleting keys moves the others to new indices: each of those that remain
\* keeps its own status and its own priority.
KeysKeepTheirState ==
  [][LET old == heap[at[Manager]]
     IN Manage /\ deleted' # deleted /\ Managed(old, goal[Manager], index).keys # <<>> =>
          \A k \in ToSet(row'.keys) :
            /\ StatusOfKey(row', k) = StatusOfKey(old, k)
            /\ PriorityOf(row', IndexOfKey(row', k)) = PriorityOf(old, IndexOfKey(old, k))]_vars

\* A key is gone from the channel once its deletion was reported: the answer of
\* delete_disabled_keys counts the keys it has deleted.
DeletedKeysAreGone == deleted \cap ToSet(row.keys) = {}

\* Once the upstream accepts every key, the channel test brings every
\* auto-disabled key and the channel itself back, and into the routing map.
Recovers ==
  <>[](MaxProbes < 0 =>
         /\ AutoDisabledOf(row) = {} /\ row.status # AutoDisabled
         /\ MemoryCache /\ row.status = Enabled => routable)

\* Whatever the races between syncs and status changes, the cache ends up with
\* the statuses of the database.
CacheConverges ==
  <>[](MaxSyncs < 0 =>
         /\ heap[cur].status = row.status /\ heap[cur].list = row.list
         /\ heap[cur].keys = row.keys)
=============================================================================

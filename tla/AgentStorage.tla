---------------------------- MODULE AgentStorage ----------------------------
(***************************************************************************)
(* The storages of the agent: add_storages, which a CreateContainer        *)
(* request runs before it creates the container, and                       *)
(* remove_container_resources, which gives them back.                      *)
(*                                                                         *)
(* A storage is known by its mount point.  The sandbox has an entry with a *)
(* reference count for each, and per container the list of those to give   *)
(* back.  A request takes the sandbox mutex several times: what it does    *)
(* under the mutex in one go is one action, and so is each step without it *)
(* (the read of the count, and the creation of the device).                *)
(***************************************************************************)
EXTENDS Naturals, Sequences, FiniteSets

CONSTANTS
  Cid,        \* container ids
  Path,       \* mount points
  Req,        \* tasks that serve requests, reused
  Settings,   \* the situations looked at, one of which a behaviour is in
  MaxRefs     \* bound: no create begins once a count has reached it

FailureKinds == {"driver", "device", "start", "other", "timeout"}

\* storages: the storages a container is created with, for the containers there are;
\* shared: those with the shared flag; noPath: those whose device has an empty path
\* (local, ephemeral, watched) or another one than the mount point (pulled images);
\* serial: the client sends one request at a time and creates no container twice;
\* failures: what may go wrong.
ASSUME StorageAssumption ==
  /\ \A s \in Settings :
       /\ DOMAIN s.storages \subseteq Cid
       /\ \A c \in DOMAIN s.storages :
            /\ s.storages[c] \in Seq(Path)
            /\ \A i, j \in DOMAIN s.storages[c] : s.storages[c][i] = s.storages[c][j] => i = j
       /\ s.shared \subseteq Path /\ s.noPath \subseteq Path
       /\ s.serial \in BOOLEAN
       /\ s.failures \subseteq FailureKinds
  /\ MaxRefs \in Nat
  /\ Cid # {} /\ IsFiniteSet(Cid) /\ IsFiniteSet(Req)

VARIABLES
  setting,    \* the situation
  entry,      \* [Path -> EntryState]: storages; a new entry has a dummy device
  count,      \* [Path -> Nat]: the entry's reference count, 0 if there is none
  mounted,    \* the paths at which a device has been set up in the guest
  mounts,     \* [Cid -> SUBSET Path]: container_mounts
  ctrs,       \* the containers of the sandbox
  root,       \* [Cid -> RootState]: the container's directory, and the exec fifo in it
  pc, cid, at, list, snap  \* the requests: step, container, position in its
              \* storages, mount_list, and the device in the copy of the entry

store    == <<entry, count, mounted>>
requests == <<pc, cid, at, list, snap>>
vars     == <<setting, store, mounts, ctrs, root, requests>>

Storages == setting.storages
Shared   == setting.shared
NoPath   == setting.noPath
Serial   == setting.serial
Failures == setting.failures

EntryState == {"none", "dummy", "device"}
RootState == {"none", "dir", "fifo"}
PCs == {"idle", "add", "load", "device", "update", "undo", "remove"}

\* The range of each variable.
Ranges ==
  /\ setting \in Settings
  /\ entry \in [Path -> EntryState]
  /\ count \in [Path -> Nat]
  /\ mounted \subseteq Path
  /\ mounts \in [Cid -> SUBSET Path]
  /\ ctrs \subseteq Cid
  /\ root \in [Cid -> RootState]
  /\ pc \in [Req -> PCs]
  /\ cid \in [Req -> Cid]
  /\ at \in [Req -> Nat \ {0}]
  /\ list \in [Req -> SUBSET Path]
  /\ snap \in [Req -> EntryState]

\* The paths with an entry in `storages` are the ones with a count.
EntryInv == \A p \in Path : entry[p] = "none" <=> count[p] = 0

\* A type invariant: the range of each variable, and that every entry of the sandbox's
\* storages has a reference count of at least one, a shared one that nobody uses included.
TypeOK == Ranges /\ EntryInv

Init ==
  /\ setting \in Settings
  /\ entry = [p \in Path |-> "none"]
  /\ count = [p \in Path |-> 0]
  /\ mounted = {}
  /\ mounts = [c \in Cid |-> {}]
  /\ ctrs = {}
  /\ root = [c \in Cid |-> "none"]
  /\ pc = [r \in Req |-> "idle"]
  /\ cid = [r \in Req |-> CHOOSE c \in Cid : TRUE]
  /\ at = [r \in Req |-> 1]
  /\ list = [r \in Req |-> {}]
  /\ snap = [r \in Req |-> "none"]
-----------------------------------------------------------------------------
Accepted     == Serial => \A r \in Req : pc[r] = "idle"
AllAdded(r)  == pc[r] = "add" /\ at[r] > Len(Storages[cid[r]])
Here(r)      == Storages[cid[r]][at[r]]

\* The request ends, with success or with an error.
End(r) ==
  /\ pc' = [pc EXCEPT ![r] = "idle"]
  /\ at' = [at EXCEPT ![r] = 1]
  /\ list' = [list EXCEPT ![r] = {}]
  /\ snap' = [snap EXCEPT ![r] = "none"]
  /\ UNCHANGED cid

\* On to the next storage; p goes to mount_list if the device has a path.
Advance(r, p, hasDevice) ==
  /\ pc' = [pc EXCEPT ![r] = "add"]
  /\ at' = [at EXCEPT ![r] = @ + 1]
  /\ list' = [list EXCEPT ![r] = IF hasDevice /\ p \notin NoPath THEN @ \cup {p} ELSE @]
  /\ snap' = [snap EXCEPT ![r] = "none"]
  /\ UNCHANGED cid

\* Mutant: the storage is removed whoever else refers to it.
RemoveStoragesNow(S) ==
  /\ entry' = [p \in Path |-> IF p \in S THEN "none" ELSE entry[p]]
  /\ count' = [p \in Path |-> IF p \in S THEN 0 ELSE count[p]]
  /\ mounted' = mounted \ S

\* Mutant: the count of a shared storage is left at zero.
RemoveStoragesNoReset(S) ==
  LET gone == {p \in S \ Shared : count[p] = 1} IN
  /\ entry' = [p \in Path |-> IF p \in gone THEN "none" ELSE entry[p]]
  /\ count' = [p \in Path |-> IF p \in S THEN count[p] - 1 ELSE count[p]]
  /\ \E F \in SUBSET {p \in gone \ NoPath : entry[p] = "device"} : mounted' = mounted \ F

\* remove_sandbox_storage for the paths in S, which have entries: the last reference
\* destroys the entry and cleans up its device, which may fail; a shared one is
\* kept with a count of 1.
RemoveStorages(S) ==
  LET gone == {p \in S \ Shared : count[p] = 1} IN
  /\ entry' = [p \in Path |-> IF p \in gone THEN "none" ELSE entry[p]]
  /\ count' = [p \in Path |-> IF p \in gone \/ (p \in S /\ count[p] > 1)
                             THEN count[p] - 1 ELSE count[p]]
  /\ \E F \in SUBSET {p \in gone \ NoPath : entry[p] = "device"} : mounted' = mounted \ F

\* remove_container_resources of container c, for which container_mounts has L.
RemoveContainerResources(c, L) ==
  /\ RemoveStorages({p \in L : entry[p] # "none"})
  /\ mounts' = [mounts EXCEPT ![c] = {}]
  /\ ctrs' = ctrs \ {c}
-----------------------------------------------------------------------------
(* CreateContainer.                                                        *)

CreateBegin(r, c) ==
  /\ pc[r] = "idle" /\ Accepted /\ c \in DOMAIN Storages
  /\ Serial => c \notin ctrs
  /\ \A p \in Path : count[p] < MaxRefs
  /\ pc' = [pc EXCEPT ![r] = "add"]
  /\ cid' = [cid EXCEPT ![r] = c]
  /\ UNCHANGED <<store, mounts, ctrs, root, at, list, snap>>

\* Mutant: an entry that exists is used without being counted.
AddUncounted(r) ==
  /\ pc[r] = "add" /\ ~AllAdded(r)
  /\ LET p == Here(r) IN
     /\ entry' = [entry EXCEPT ![p] = IF @ = "none" THEN "dummy" ELSE @]
     /\ count' = [count EXCEPT ![p] = IF entry[p] = "none" THEN 1 ELSE @]
     /\ snap' = [snap EXCEPT ![r] = entry'[p]]
  /\ pc' = [pc EXCEPT ![r] = "load"]
  /\ UNCHANGED <<mounted, mounts, ctrs, root, cid, at, list>>

\* add_sandbox_storage, under the mutex.
AddSandboxStorage(r) ==
  /\ pc[r] = "add" /\ ~AllAdded(r)
  /\ LET p == Here(r) IN
     /\ entry' = [entry EXCEPT ![p] = IF @ = "none" THEN "dummy" ELSE @]
     /\ count' = [count EXCEPT ![p] = @ + 1]
     /\ snap' = [snap EXCEPT ![r] = entry'[p]]
  /\ pc' = [pc EXCEPT ![r] = "load"]
  /\ UNCHANGED <<mounted, mounts, ctrs, root, cid, at, list>>

\* ref_count() > 1, read without the mutex: the device exists.
ReuseDevice(r) ==
  /\ pc[r] = "load" /\ count[Here(r)] > 1
  /\ Advance(r, Here(r), snap[r] = "device")
  /\ UNCHANGED <<store, mounts, ctrs, root>>

\* Otherwise the device is to be created, by the handler of the storage's driver.
NewDevice(r) ==
  /\ pc[r] = "load" /\ count[Here(r)] <= 1
  /\ pc' = [pc EXCEPT ![r] = "device"]
  /\ UNCHANGED <<store, mounts, ctrs, root, cid, at, list, snap>>

\* There is no such handler: the request ends, and the entry stays.
UnknownDriver(r) ==
  /\ pc[r] = "load" /\ count[Here(r)] <= 1 /\ "driver" \in Failures
  /\ End(r)
  /\ UNCHANGED <<store, mounts, ctrs, root>>

\* The handler's create_device waits for the device and mounts it.
CreateDevice(r) ==
  /\ pc[r] = "device"
  /\ mounted' = mounted \cup {Here(r)}
  /\ pc' = [pc EXCEPT ![r] = "update"]
  /\ UNCHANGED <<entry, count, mounts, ctrs, root, cid, at, list, snap>>

\* It fails, possibly after the mount (set_ownership).
CreateDeviceFails(r) ==
  /\ pc[r] = "device" /\ "device" \in Failures
  /\ mounted' \in {mounted, mounted \cup {Here(r)}}
  /\ pc' = [pc EXCEPT ![r] = "undo"]
  /\ UNCHANGED <<entry, count, mounts, ctrs, root, cid, at, list, snap>>

\* update_sandbox_storage.  Its error path, for an entry that is gone, is never
\* taken (UpdateFindsEntry).
UpdateSandboxStorage(r) ==
  /\ pc[r] = "update" /\ entry[Here(r)] # "none"
  /\ entry' = [entry EXCEPT ![Here(r)] = "device"]
  /\ Advance(r, Here(r), TRUE)
  /\ UNCHANGED <<count, mounted, mounts, ctrs, root>>

\* Mutant: the entry of the failed device is left in place.
UndoNothing(r) ==
  /\ pc[r] = "undo" /\ entry[Here(r)] # "none"
  /\ End(r)
  /\ UNCHANGED <<store, mounts, ctrs, root>>

\* The device could not be created: remove_sandbox_storage, and the error.  What was
\* added before this storage stays.
Undo(r) ==
  /\ pc[r] = "undo" /\ entry[Here(r)] # "none"
  /\ RemoveStorages({Here(r)})
  /\ End(r)
  /\ UNCHANGED <<mounts, ctrs, root>>

\* The sealed secrets cannot be handled: the request ends before container_mounts.
SecretsFail(r) ==
  /\ AllAdded(r) /\ "other" \in Failures
  /\ End(r)
  /\ UNCHANGED <<store, mounts, ctrs, root>>

\* The container is created: ctr.start found no exec fifo and made one.
CreateContainer(r) ==
  /\ AllAdded(r)
  /\ root[cid[r]] # "fifo"
  /\ mounts' = [mounts EXCEPT ![cid[r]] = list[r]]
  /\ ctrs' = ctrs \cup {cid[r]}
  /\ root' = [root EXCEPT ![cid[r]] = "fifo"]
  /\ End(r)
  /\ UNCHANGED store

\* A step between container_mounts.insert and ctr.start fails, before or after the
\* directory is made: nothing is rolled back.
CreateFails(r) ==
  /\ AllAdded(r) /\ "other" \in Failures
  /\ mounts' = [mounts EXCEPT ![cid[r]] = list[r]]
  /\ root' \in {root, [root EXCEPT ![cid[r]] = IF @ = "none" THEN "dir" ELSE @]}
  /\ End(r)
  /\ UNCHANGED <<store, ctrs>>

\* setup_shared_mounts fails, after ctr.start: nothing is rolled back either.
SharedMountsFail(r) ==
  /\ AllAdded(r) /\ "other" \in Failures
  /\ root[cid[r]] # "fifo"
  /\ mounts' = [mounts EXCEPT ![cid[r]] = list[r]]
  /\ root' = [root EXCEPT ![cid[r]] = "fifo"]
  /\ End(r)
  /\ UNCHANGED <<store, ctrs>>

\* Mutant: the roll-back forgets the storages.
StartFailsKeeps(r) ==
  /\ AllAdded(r)
  /\ "start" \in Failures \/ root[cid[r]] = "fifo"
  /\ root' = [root EXCEPT ![cid[r]] = "none"]
  /\ End(r)
  /\ UNCHANGED <<store, mounts, ctrs>>

\* ctr.start fails, always if there is an exec fifo: destroy, whose own failure is only
\* logged, and remove_container_resources.
StartFails(r) ==
  /\ AllAdded(r)
  /\ "start" \in Failures \/ root[cid[r]] = "fifo"
  /\ \E left \in {"none"} \cup IF "other" \in Failures THEN {"fifo"} ELSE {} :
       root' = [root EXCEPT ![cid[r]] = left]
  /\ RemoveContainerResources(cid[r], list[r])
  /\ End(r)
-----------------------------------------------------------------------------
(* RemoveContainer.                                                        *)

\* Without a timeout: destroy and remove_container_resources in one go.  destroy fails
\* when the directory is gone.
RemoveContainer(c) ==
  /\ Accepted /\ c \in ctrs /\ root[c] # "none"
  /\ root' = [root EXCEPT ![c] = "none"]
  /\ RemoveContainerResources(c, mounts[c])
  /\ UNCHANGED requests

\* destroy fails once it has removed the directory: the resources stay.
DestroyFails(c) ==
  /\ "other" \in Failures
  /\ Accepted /\ c \in ctrs /\ root[c] # "none"
  /\ root' = [root EXCEPT ![c] = "none"]
  /\ UNCHANGED <<store, mounts, ctrs, requests>>

\* With a timeout: destroy in a task of its own.
RemoveBegin(r, c) ==
  /\ "timeout" \in Failures
  /\ pc[r] = "idle" /\ Accepted /\ c \in ctrs /\ root[c] # "none"
  /\ root' = [root EXCEPT ![c] = "none"]
  /\ pc' = [pc EXCEPT ![r] = "remove"]
  /\ cid' = [cid EXCEPT ![r] = c]
  /\ UNCHANGED <<store, mounts, ctrs, at, list, snap>>

\* In time: remove_container_resources, the mutex having been free in between.
RemoveEnd(r) ==
  /\ pc[r] = "remove"
  /\ RemoveContainerResources(cid[r], mounts[cid[r]])
  /\ End(r)
  /\ UNCHANGED root

\* Too late: ETIME, and the resources stay.
RemoveTimesOut(r) ==
  /\ pc[r] = "remove"
  /\ End(r)
  /\ UNCHANGED <<store, mounts, ctrs, root>>
-----------------------------------------------------------------------------
RequestStep(r) ==
  \/ \E c \in Cid : CreateBegin(r, c) \/ RemoveBegin(r, c)
  \/ AddSandboxStorage(r) \/ ReuseDevice(r) \/ NewDevice(r) \/ UnknownDriver(r)
  \/ CreateDevice(r) \/ CreateDeviceFails(r) \/ UpdateSandboxStorage(r) \/ Undo(r)
  \/ SecretsFail(r) \/ CreateContainer(r) \/ CreateFails(r)
  \/ SharedMountsFail(r) \/ StartFails(r)
  \/ RemoveEnd(r) \/ RemoveTimesOut(r)

Step ==
  \/ \E r \in Req : RequestStep(r)
  \/ \E c \in Cid : RemoveContainer(c) \/ DestroyFails(c)

Next == Step /\ UNCHANGED setting

Spec == Init /\ [][Next]_vars
-----------------------------------------------------------------------------
(* Properties.                                                              *)

\* Who has a reference to the entry of p: containers that will give it back, and
\* requests that will, or that will pass it on to their container.
Users(p)   == {c \in Cid : p \in mounts[c]}
Holders(p) == {r \in Req : \/ p \in list[r]
                           \/ pc[r] \in {"load", "device", "update", "undo"} /\ Here(r) = p}

\* add_sandbox_storage and remove_sandbox_storage: however requests interleave, repeat
\* and fail, no reference is given back that was not taken: the count covers those
\* who refer to the entry.
RefsCover == \A p \in Path : count[p] >= Cardinality(Users(p)) + Cardinality(Holders(p))

\* So a storage is unmounted only when no container and no request has it.
UnmountsUnused ==
  [][\A p \in mounted \ mounted' : (Users(p) = {} /\ Holders(p) = {})']_vars

\* update_sandbox_storage: the entry a request has added is there when its device has
\* been created, or has failed.
UpdateFindsEntry == \A r \in Req : pc[r] \in {"update", "undo"} => entry[Here(r)] # "none"

\* A client that sends one request at a time, in a guest where only creating a device
\* and starting a container fail.
Orderly == Serial /\ Failures \subseteq {"device", "start"}

\* rpc.rs, do_create_container: "rollback work to ensure no resources are leaked".
\* For an orderly client, between requests, the count of a storage that has a path is
\* the number of the containers that use it, and no others have an entry.  A device that
\* fails leaves the storages before it in the list behind (storage/mod.rs:235), so where
\* devices fail this is about containers with one storage.
InUse(p) == {c \in ctrs : \E i \in DOMAIN Storages[c] : Storages[c][i] = p}
OneEach  == \A c \in DOMAIN Storages : Len(Storages[c]) <= 1
RefsExact ==
  /\ Orderly /\ ("device" \in Failures => OneEach)
  /\ \A r \in Req : pc[r] = "idle"
  => \A p \in Path \ (Shared \cup NoPath) :
       /\ count[p] = Cardinality(InUse(p))
       /\ entry[p] = IF count[p] = 0 THEN "none" ELSE "device"

\* add_storages: for an orderly client the storages of a container in the sandbox are
\* set up, unless a shared one, which is kept when its device fails, does fail.
InUseIsMounted ==
  Orderly /\ ("device" \in Failures => Shared = {})
  => \A c \in ctrs : \A i \in DOMAIN Storages[c] : Storages[c][i] \in mounted

\* Why these hold, in a form that every step preserves.  For any client: a request that
\* adds storages is at one of its container's, one that does not has none.
\* EntryInv goes with it.
Busy(r) == pc[r] \in {"load", "device", "update", "undo"}
RequestInv ==
  \A r \in Req :
    /\ pc[r] \in {"idle", "remove"} => at[r] = 1 /\ list[r] = {}
    /\ pc[r] \notin {"idle", "remove"} => cid[r] \in DOMAIN Storages
    /\ Busy(r) => at[r] <= Len(Storages[cid[r]])

\* For an orderly client: one request at a time, for a container that is not there; an entry
\* without a device is the one being added, unless it is a shared one whose device failed;
\* requests and containers have the storages they will give back; and every use, by a
\* container or by the request that creates one, is counted.
Sound(p)    == "device" \notin Failures \/ p \notin Shared
Kept(p)     == p \notin NoPath /\ Sound(p)
Added(r, i) == i < at[r] \/ (i = at[r] /\ Busy(r))
Adding(p)   == {r \in Req : /\ pc[r] # "idle"
                            /\ \E i \in DOMAIN Storages[cid[r]] :
                                 Storages[cid[r]][i] = p /\ Added(r, i)}
SerialInv ==
  Orderly =>
    /\ \A r, s \in Req : pc[r] # "idle" /\ pc[s] # "idle" => r = s
    /\ \A r \in Req : pc[r] # "idle" => pc[r] # "remove" /\ cid[r] \notin ctrs
    /\ ctrs \subseteq DOMAIN Storages
DeviceInv ==
  Orderly =>
    /\ \A p \in Path : entry[p] = "device" => p \in mounted
    /\ \A r \in Req : pc[r] = "update" => Here(r) \in mounted
    /\ \A r \in Req : pc[r] = "load" => snap[r] = entry[Here(r)]
    /\ \A r \in Req : pc[r] \in {"device", "update", "undo"} => count[Here(r)] = 1
    /\ \A r \in Req : pc[r] = "undo" => "device" \in Failures
    /\ \A p \in Path : Sound(p) /\ entry[p] = "dummy" =>
         count[p] = 1 /\ \E r \in Req : Busy(r) /\ Here(r) = p
ListInv ==
  Orderly =>
    /\ \A r \in Req : \A p \in list[r] : \E i \in DOMAIN Storages[cid[r]] :
         i < at[r] /\ Storages[cid[r]][i] = p
    /\ \A r \in Req : pc[r] # "idle" =>
         \A i \in DOMAIN Storages[cid[r]] :
           i < at[r] /\ Kept(Storages[cid[r]][i]) => Storages[cid[r]][i] \in list[r]
    /\ \A c \in Cid \ ctrs : mounts[c] = {}
    /\ \A c \in ctrs : \A p \in mounts[c] : c \in InUse(p)
    /\ \A c \in ctrs, p \in Path : Kept(p) /\ c \in InUse(p) => p \in mounts[c]
CountInv ==
  Orderly =>
    \A p \in Path :
      /\ count[p] >= Cardinality(InUse(p)) + Cardinality(Adding(p))
      /\ p \notin Shared \cup NoPath /\ ("device" \in Failures => OneEach)
           => count[p] = Cardinality(InUse(p)) + Cardinality(Adding(p))

\* add_storages, when it skips a storage: "The device already exists."
ReusedExists ==
  \A r \in Req : pc[r] = "load" /\ count[Here(r)] > 1 => snap[r] = "device"

\* remove_sandbox_storage, of shared storages: "The storage entry is kept in the map so
\* subsequent containers can reuse the already-mounted storage".
KeptIsMounted ==
  \A p \in Shared : entry[p] # "none" /\ Holders(p) = {} => p \in mounted
=============================================================================

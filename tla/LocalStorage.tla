----------------------------- MODULE LocalStorage ----------------------------
(***************************************************************************)
(* LocalDocumentStorage: a file is written under a temporary name, synced  *)
(* and renamed to its key, while reconciliation lists old temporary files. *)
(* Keys are fresh, so one key has one call of store() at a time; the       *)
(* process may be killed and the power may fail anywhere.                  *)
(***************************************************************************)
EXTENDS Naturals

CONSTANTS
  Keys,      \* storage keys
  Temps,     \* the names mkstemp gives out, each once
  MaxCuts,   \* bound on power cuts
  None

ASSUME NamesAssumption == None \notin Temps /\ Temps \cap {"absent"} = {}
ASSUME CutsAssumption == MaxCuts \in Nat

VARIABLES
  pc,        \* where store(k) is
  told,      \* what its caller knows
  cur,       \* temporary_path, or None
  data,      \* of each temporary file made: "none", "partial", "written",
             \* "synced" (whole on the disk) or "torn"
  temporary, \* temporary names in the directory
  file,      \* what each key names: a temporary file made, or None
  onDisk,    \* keys whose new name has reached the disk
  old,       \* temporary files with st_mtime <= cutoff
  lister,    \* list_incomplete: "idle", "entries", "stat", "done" or "error"
  names,     \* what iterdir() returned and is left to look at
  entry,     \* the path looked at
  incomplete,\* the set built so far
  due,       \* auxiliary: what it had to find when it began
  cuts

storing == <<pc, told, cur, data, temporary, file, onDisk>>
listing == <<lister, names, entry, incomplete, due>>
vars == <<storing, old, listing, cuts>>

Calls == {"idle", "start", "write", "sync", "recheck", "replace", "clean", "return"}

TypeOK ==
  /\ pc \in [Keys -> Calls]
  /\ told \in [Keys -> {"none", "stored", "exists", "failed"}]
  /\ cur \in [Keys -> Temps \cup {None}]
  /\ data \in [Temps -> {"none", "partial", "written", "synced", "torn"}]
  /\ temporary \subseteq Temps
  /\ file \in [Keys -> Temps \cup {None}]
  /\ onDisk \subseteq Keys /\ old \subseteq Temps
  /\ lister \in {"idle", "entries", "stat", "done", "error"}
  /\ names \subseteq Temps /\ entry \in Temps \cup {None}
  /\ incomplete \subseteq Temps /\ due \subseteq Temps
  /\ cuts \in 0..MaxCuts

Init ==
  /\ pc = [k \in Keys |-> "idle"]
  /\ told = [k \in Keys |-> "none"]
  /\ cur = [k \in Keys |-> None]
  /\ data = [t \in Temps |-> "none"]
  /\ temporary = {}
  /\ file = [k \in Keys |-> None]
  /\ onDisk = {} /\ old = {}
  /\ lister = "idle" /\ names = {} /\ entry = None
  /\ incomplete = {} /\ due = {}
  /\ cuts = 0

Goto(k, where) == pc' = [pc EXCEPT ![k] = where]
Tell(k, answer) == told' = [told EXCEPT ![k] = answer]

-----------------------------------------------------------------------------
(* store(k) *)

Call(k) ==
  /\ pc[k] = "idle"
  /\ Goto(k, "start")
  /\ Tell(k, "none")
  /\ UNCHANGED <<cur, data, temporary, file, onDisk, old, listing, cuts>>

\* _ensure_destination_is_available, before the file is written and after.
Available(k) == file[k] = None

Refuse(k) ==
  /\ pc[k] = "start" /\ ~Available(k)
  /\ Goto(k, "idle")
  /\ Tell(k, "exists")
  /\ UNCHANGED <<cur, data, temporary, file, onDisk, old, listing, cuts>>

MakeTemporary(k) ==
  /\ pc[k] = "start" /\ Available(k)
  /\ \E t \in Temps :
       /\ data[t] = "none"
       /\ cur' = [cur EXCEPT ![k] = t]
       /\ temporary' = temporary \cup {t}
       /\ data' = [data EXCEPT ![t] = "partial"]
  /\ Goto(k, "write")
  /\ UNCHANGED <<told, file, onDisk, old, listing, cuts>>

Write(k) ==
  /\ pc[k] = "write"
  /\ data' = [data EXCEPT ![cur[k]] = "written"]
  /\ Goto(k, "sync")
  /\ UNCHANGED <<told, cur, temporary, file, onDisk, old, listing, cuts>>

\* Mutant: flush() without os.fsync().
FlushOnly(k) ==
  /\ pc[k] = "sync"
  /\ Goto(k, "recheck")
  /\ UNCHANGED <<told, cur, data, temporary, file, onDisk, old, listing, cuts>>

Sync(k) ==
  /\ pc[k] = "sync"
  /\ data' = [data EXCEPT ![cur[k]] = "synced"]
  /\ Goto(k, "recheck")
  /\ UNCHANGED <<told, cur, temporary, file, onDisk, old, listing, cuts>>

Recheck(k) ==
  /\ pc[k] = "recheck"
  /\ IF Available(k) THEN Goto(k, "replace") /\ UNCHANGED told
                     ELSE Goto(k, "clean") /\ Tell(k, "exists")
  /\ UNCHANGED <<cur, data, temporary, file, onDisk, old, listing, cuts>>

\* os.replace: the name changes in one step; the directory is not synced.
Replace(k) ==
  /\ pc[k] = "replace"
  /\ file' = [file EXCEPT ![k] = cur[k]]
  /\ temporary' = temporary \ {cur[k]}
  /\ onDisk' = onDisk \ {k}
  /\ cur' = [cur EXCEPT ![k] = None]
  /\ Goto(k, "return")
  /\ UNCHANGED <<told, data, old, listing, cuts>>

Return(k) ==
  /\ pc[k] = "return"
  /\ Goto(k, "idle")
  /\ Tell(k, "stored")
  /\ UNCHANGED <<cur, data, temporary, file, onDisk, old, listing, cuts>>

\* The caller's chunks raise, the disk is full, a system call fails.
Raise(k) ==
  /\ pc[k] \in {"start", "write", "sync", "recheck", "replace"}
  /\ Goto(k, "clean")
  /\ Tell(k, "failed")
  /\ UNCHANGED <<cur, data, temporary, file, onDisk, old, listing, cuts>>

\* The temporary file is removed, unless that fails too.
Clean(k) ==
  /\ pc[k] = "clean"
  /\ temporary' \in {temporary \ {cur[k]}, temporary}
  /\ cur' = [cur EXCEPT ![k] = None]
  /\ Goto(k, "idle")
  /\ UNCHANGED <<told, data, file, onDisk, old, listing, cuts>>

\* The process that runs the calls is killed; its temporary files stay.
Killed ==
  /\ \E k \in Keys : pc[k] # "idle"
  /\ pc' = [k \in Keys |-> "idle"]
  /\ cur' = [k \in Keys |-> None]
  /\ UNCHANGED <<told, data, temporary, file, onDisk, old, listing, cuts>>

StoreStep(k) ==
  \/ Call(k) \/ Refuse(k) \/ MakeTemporary(k) \/ Write(k) \/ Sync(k)
  \/ Recheck(k) \/ Replace(k) \/ Return(k) \/ Raise(k) \/ Clean(k)

-----------------------------------------------------------------------------
(* The file system *)

NameReachesDisk(k) ==
  /\ file[k] # None /\ k \notin onDisk
  /\ onDisk' = onDisk \cup {k}
  /\ UNCHANGED <<pc, told, cur, data, temporary, file, old, listing, cuts>>

Ages(t) ==
  /\ t \in temporary \ old
  /\ old' = old \cup {t}
  /\ UNCHANGED <<storing, listing, cuts>>

\* A new name that has not reached the disk may be lost, and the temporary name
\* be back; data that was not synced is torn.
PowerCut ==
  /\ cuts < MaxCuts /\ cuts' = cuts + 1
  /\ \E lost \in SUBSET {k \in Keys \ onDisk : file[k] # None}, gone \in SUBSET temporary :
       /\ file' = [k \in Keys |-> IF k \in lost THEN None ELSE file[k]]
       /\ \E back \in SUBSET {file[k] : k \in lost} :
            temporary' = (temporary \ gone) \cup back
  /\ data' = [t \in Temps |-> IF data[t] = "written" THEN "torn" ELSE data[t]]
  /\ onDisk' = {k \in Keys : file'[k] # None}
  /\ pc' = [k \in Keys |-> "idle"]
  /\ told' = [k \in Keys |-> "none"]
  /\ cur' = [k \in Keys |-> None]
  /\ lister' = "idle" /\ names' = {} /\ entry' = None
  /\ incomplete' = {} /\ due' = {}
  /\ UNCHANGED old

-----------------------------------------------------------------------------
(* list_incomplete(older_than) *)

\* Temporary files no call of store() will ever remove.
Abandoned == temporary \ {cur[k] : k \in Keys}

StartListing ==
  /\ lister \in {"idle", "done", "error"}
  /\ lister' = "entries"
  /\ names' = temporary
  /\ incomplete' = {} /\ entry' = None
  /\ due' = Abandoned \cap old
  /\ UNCHANGED <<storing, old, cuts>>

\* is_symlink(), is_file(): a name that is gone is passed over.
LookAt ==
  /\ lister = "entries"
  /\ IF names = {}
     THEN lister' = "done" /\ UNCHANGED <<names, entry>>
     ELSE \E t \in names :
            /\ names' = names \ {t}
            /\ IF t \in temporary THEN entry' = t /\ lister' = "stat"
                                  ELSE UNCHANGED <<entry, lister>>
  /\ UNCHANGED <<storing, old, incomplete, due, cuts>>

\* Mutant: the age is not looked at.
OldEnoughAlways(t) == TRUE

\* st_mtime <= cutoff
OldEnough(t) == t \in old

\* stat(): a name that has gone since raises, and the listing with it.
Stat ==
  /\ lister = "stat"
  /\ lister' = IF entry \in temporary THEN "entries" ELSE "error"
  /\ incomplete' = IF entry \in temporary /\ OldEnough(entry)
                   THEN incomplete \cup {entry} ELSE incomplete
  /\ entry' = None
  /\ UNCHANGED <<storing, old, names, due, cuts>>

Next ==
  \/ \E k \in Keys : StoreStep(k) \/ NameReachesDisk(k)
  \/ \E t \in Temps : Ages(t)
  \/ Killed \/ PowerCut
  \/ StartListing \/ LookAt \/ Stat

Spec == Init /\ [][Next]_vars

-----------------------------------------------------------------------------
(* Properties *)

\* What a reader of a key gets.
Object(k) == IF file[k] = None THEN "absent"
             ELSE IF data[file[k]] \in {"written", "synced"} THEN file[k]
             ELSE "torn"

Port == INSTANCE DocumentStorage WITH
  objects <- [k \in Keys |-> Object(k)], Contents <- Temps, Empty <- "absent"

\* The adapter keeps the port's promise: under a key there is nothing or one
\* whole file, for ever the same, whatever fails in store(), and even a power
\* cut leaves no torn one.
ImplementsPort == Port!Spec

\* A list_incomplete() that succeeds names every temporary file that was
\* abandoned and old enough when it began, and no young one, whatever uploads
\* rename or remove meanwhile.
AbandonedIsListed ==
  lister = "done" => due \subseteq incomplete /\ incomplete \subseteq old
=============================================================================

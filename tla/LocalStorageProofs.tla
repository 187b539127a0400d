------------------------- MODULE LocalStorageProofs -------------------------
(***************************************************************************)
(* Proofs about LocalStorage for any number of keys, temporary names and   *)
(* power cuts: type correctness, that list_incomplete() misses no          *)
(* abandoned file, and that the adapter implements DocumentStorage.        *)
(*                                                                         *)
(* Owned says which file each call of store() holds and that no other call *)
(* and no key holds it; Whole, that what a key names has been synced, so   *)
(* that no power cut tears it.  Found says that what the listing owes is   *)
(* still to be looked at or already in its result, and Kept, that nobody   *)
(* can remove it meanwhile.                                                *)
(***************************************************************************)
EXTENDS LocalStorage, TLAPS

Holding == {"write", "sync", "recheck", "replace"}

Owned ==
  /\ \A k \in Keys : pc[k] \in Holding => cur[k] # None
  /\ \A k \in Keys : pc[k] \in {"idle", "start", "return"} => cur[k] = None
  /\ \A k \in Keys, j \in Keys : cur[k] = cur[j] /\ cur[k] # None => k = j
  /\ \A k \in Keys, j \in Keys : cur[k] # None => cur[k] # file[j]
  /\ \A k \in Keys : cur[k] # None => data[cur[k]] # "none"
  /\ \A t \in temporary : data[t] # "none"

Whole ==
  /\ \A k \in Keys : file[k] # None => data[file[k]] = "synced"
  /\ \A k \in Keys : pc[k] \in {"recheck", "replace"} => data[cur[k]] = "synced"
  /\ \A k \in Keys : pc[k] = "replace" => file[k] = None
  /\ \A k \in Keys : pc[k] = "return" => file[k] # None

Found ==
  /\ incomplete \subseteq old
  /\ lister = "entries" => due \subseteq incomplete \cup names
  /\ lister = "stat" => due \subseteq incomplete \cup names \cup {entry}
  /\ lister = "done" => due \subseteq incomplete

Kept ==
  /\ due \subseteq temporary \cap old
  /\ \A k \in Keys : cur[k] \notin due

LocalInv == TypeOK /\ Owned /\ Whole /\ Found /\ Kept

-----------------------------------------------------------------------------
(* Lemmas *)

\* The initial states satisfy the invariant.
LEMMA LocalInit == Init => LocalInv
<1> SUFFICES ASSUME Init
             PROVE  LocalInv
  OBVIOUS
<1>1. TypeOK
  <2>1. cuts \in 0..MaxCuts
    BY CutsAssumption DEF Init
  <2> QED
    BY <2>1, Zenon DEF Init, TypeOK, Calls
<1>2. Owned /\ Whole /\ Found /\ Kept
  BY NamesAssumption DEF Init, Owned, Whole, Found, Kept, Holding
<1> QED
  BY <1>1, <1>2 DEF LocalInv

\* A step of store() keeps the variables typed.
LEMMA StoreTyped ==
  ASSUME LocalInv, NEW k \in Keys, StoreStep(k)
  PROVE  TypeOK'
<1> USE NamesAssumption DEF LocalInv, TypeOK, Calls, Goto, Tell, Owned, Holding, listing
<1>1. CASE Call(k) \/ Refuse(k) \/ Return(k) \/ Raise(k) \/ Clean(k) \/ Recheck(k)
  BY <1>1 DEF Call, Refuse, Return, Raise, Clean, Recheck
<1>2. CASE MakeTemporary(k)
  BY <1>2 DEF MakeTemporary
<1>3. CASE Write(k) \/ Sync(k) \/ Replace(k)
  BY <1>3 DEF Write, Sync, Replace
<1> QED
  BY <1>1, <1>2, <1>3 DEF StoreStep

\* A step of store() touches its own file, and a key only in Replace.
LEMMA StoreOwned ==
  ASSUME LocalInv, NEW k \in Keys, StoreStep(k)
  PROVE  Owned' /\ Whole'
<1> USE NamesAssumption
    DEF LocalInv, TypeOK, Goto, Tell, Owned, Whole, Holding, Available
<1>1. CASE Call(k) \/ Refuse(k) \/ Return(k)
  BY <1>1 DEF Call, Refuse, Return
<1>2. CASE MakeTemporary(k)
  BY <1>2 DEF MakeTemporary
<1>3. CASE Write(k)
  BY <1>3 DEF Write
<1>4. CASE Sync(k)
  BY <1>4 DEF Sync
<1>5. CASE Recheck(k)
  BY <1>5 DEF Recheck
<1>6. CASE Replace(k)
  BY <1>6 DEF Replace
<1>7. CASE Raise(k)
  BY <1>7 DEF Raise
<1>8. CASE Clean(k)
  BY <1>8 DEF Clean
<1> QED
  BY <1>1, <1>2, <1>3, <1>4, <1>5, <1>6, <1>7, <1>8 DEF StoreStep

\* It removes nothing that the listing owes.
LEMMA StoreKept ==
  ASSUME LocalInv, NEW k \in Keys, StoreStep(k)
  PROVE  Found' /\ Kept'
<1> USE NamesAssumption DEF LocalInv, TypeOK, Goto, Tell, Owned, Found, Kept, listing
<1>1. CASE Call(k) \/ Refuse(k) \/ Return(k) \/ Raise(k) \/ Recheck(k)
  BY <1>1 DEF Call, Refuse, Return, Raise, Recheck
<1>2. CASE MakeTemporary(k)
  BY <1>2 DEF MakeTemporary
<1>3. CASE Write(k) \/ Sync(k)
  BY <1>3 DEF Write, Sync
<1>4. CASE Replace(k) \/ Clean(k)
  BY <1>4 DEF Replace, Clean
<1> QED
  BY <1>1, <1>2, <1>3, <1>4 DEF StoreStep

\* The file system, the listing and a kill keep the variables typed.
LEMMA FileSystemTyped ==
  ASSUME LocalInv,
         \/ \E k \in Keys : NameReachesDisk(k)
         \/ \E t \in Temps : Ages(t)
         \/ Killed \/ PowerCut \/ StartListing \/ LookAt \/ Stat
  PROVE  TypeOK'
<1> USE NamesAssumption DEF LocalInv, TypeOK, storing, listing
<1>1. ASSUME NEW k \in Keys, NameReachesDisk(k)
      PROVE  TypeOK'
  BY <1>1 DEF NameReachesDisk
<1>2. ASSUME NEW t \in Temps, Ages(t)
      PROVE  TypeOK'
  BY <1>2 DEF Ages
<1>3. CASE Killed
  BY <1>3 DEF Killed, Calls
<1>4. CASE PowerCut
  <2>1. PICK lost \in SUBSET {k \in Keys \ onDisk : file[k] # None},
             gone \in SUBSET temporary :
          /\ file' = [k \in Keys |-> IF k \in lost THEN None ELSE file[k]]
          /\ \E back \in SUBSET {file[k] : k \in lost} :
               temporary' = (temporary \ gone) \cup back
    BY <1>4 DEF PowerCut
  <2>2. file' \in [Keys -> Temps \cup {None}]
    BY <2>1
  <2>3. temporary' \subseteq Temps
    BY <2>1
  <2>4. cuts' \in 0..MaxCuts
    BY <1>4, CutsAssumption DEF PowerCut
  <2>5. /\ pc' \in [Keys -> Calls] /\ cur' \in [Keys -> Temps \cup {None}]
        /\ told' \in [Keys -> {"none", "stored", "exists", "failed"}]
        /\ data' \in [Temps -> {"none", "partial", "written", "synced", "torn"}]
    BY <1>4 DEF PowerCut, Calls
  <2> QED
    BY <1>4, <2>2, <2>3, <2>4, <2>5 DEF PowerCut
<1>5. CASE StartListing
  BY <1>5 DEF StartListing, Abandoned
<1>6. CASE LookAt
  BY <1>6 DEF LookAt
<1>7. CASE Stat
  BY <1>7 DEF Stat, OldEnough
<1> QED
  BY <1>1, <1>2, <1>3, <1>4, <1>5, <1>6, <1>7

\* They leave owned files alone and synced ones whole.
LEMMA FileSystemOwned ==
  ASSUME LocalInv,
         \/ \E k \in Keys : NameReachesDisk(k)
         \/ \E t \in Temps : Ages(t)
         \/ Killed \/ PowerCut \/ StartListing \/ LookAt \/ Stat
  PROVE  Owned' /\ Whole'
<1> USE NamesAssumption
    DEF LocalInv, TypeOK, Owned, Whole, Holding, storing, listing
<1>1. ASSUME NEW k \in Keys, NameReachesDisk(k)
      PROVE  Owned' /\ Whole'
  BY <1>1 DEF NameReachesDisk
<1>2. ASSUME NEW t \in Temps, Ages(t)
      PROVE  Owned' /\ Whole'
  BY <1>2 DEF Ages
<1>3. CASE Killed
  BY <1>3 DEF Killed
<1>4. CASE PowerCut
  <2>1. PICK lost \in SUBSET {k \in Keys \ onDisk : file[k] # None},
             gone \in SUBSET temporary :
          /\ file' = [k \in Keys |-> IF k \in lost THEN None ELSE file[k]]
          /\ \E back \in SUBSET {file[k] : k \in lost} :
               temporary' = (temporary \ gone) \cup back
    BY <1>4 DEF PowerCut
  <2>2. \A k \in Keys : pc'[k] = "idle" /\ cur'[k] = None
    BY <1>4 DEF PowerCut
  <2>3. \A t \in Temps : /\ data[t] # "none" => data'[t] # "none"
                         /\ data[t] = "synced" => data'[t] = "synced"
    BY <1>4 DEF PowerCut
  <2>4. \A t \in temporary' : data'[t] # "none"
    BY <2>1, <2>3
  <2>5. \A k \in Keys : file'[k] # None => data'[file'[k]] = "synced"
    BY <2>1, <2>3
  <2> QED
    BY <2>2, <2>4, <2>5
<1>5. CASE StartListing \/ LookAt \/ Stat
  BY <1>5 DEF StartListing, LookAt, Stat
<1> QED
  BY <1>1, <1>2, <1>3, <1>4, <1>5

\* The listing owes what was abandoned when it began, until it has found it.
LEMMA FileSystemKept ==
  ASSUME LocalInv,
         \/ \E k \in Keys : NameReachesDisk(k)
         \/ \E t \in Temps : Ages(t)
         \/ Killed \/ PowerCut \/ StartListing \/ LookAt \/ Stat
  PROVE  Found' /\ Kept'
<1> USE NamesAssumption DEF LocalInv, TypeOK, Found, Kept, storing, listing
<1>1. ASSUME NEW k \in Keys, NameReachesDisk(k)
      PROVE  Found' /\ Kept'
  BY <1>1 DEF NameReachesDisk
<1>2. ASSUME NEW t \in Temps, Ages(t)
      PROVE  Found' /\ Kept'
  BY <1>2 DEF Ages
<1>3. CASE Killed
  BY <1>3 DEF Killed
<1>4. CASE PowerCut
  BY <1>4 DEF PowerCut
<1>5. CASE StartListing
  BY <1>5 DEF StartListing, Abandoned
<1>6. CASE LookAt
  BY <1>6 DEF LookAt
<1>7. CASE Stat
  BY <1>7 DEF Stat, OldEnough
<1> QED
  BY <1>1, <1>2, <1>3, <1>4, <1>5, <1>6, <1>7

\* The invariant is inductive.
LEMMA LocalStep == LocalInv /\ [Next]_vars => LocalInv'
<1> SUFFICES ASSUME LocalInv, [Next]_vars
             PROVE  LocalInv'
  OBVIOUS
<1>1. CASE UNCHANGED vars
  BY <1>1 DEF vars, storing, listing, LocalInv, TypeOK, Owned, Whole, Found, Kept
<1>2. ASSUME NEW k \in Keys, StoreStep(k)
      PROVE  LocalInv'
  BY <1>2, StoreTyped, StoreOwned, StoreKept DEF LocalInv
<1>3. CASE \/ \E k \in Keys : NameReachesDisk(k)
           \/ \E t \in Temps : Ages(t)
           \/ Killed \/ PowerCut \/ StartListing \/ LookAt \/ Stat
  BY <1>3, FileSystemTyped, FileSystemOwned, FileSystemKept DEF LocalInv
<1> QED
  BY <1>1, <1>2, <1>3 DEF Next

-----------------------------------------------------------------------------
(* The refinement *)

\* Under the invariant a key shows nothing or the file it names, never half of
\* one.
LEMMA ObjectIsFile ==
  ASSUME LocalInv
  PROVE  \A k \in Keys : /\ file[k] = None => Object(k) = "absent"
                         /\ file[k] # None => Object(k) = file[k] /\ Object(k) # "absent"
                         /\ file[k] # None => Object(k) \in Temps
  BY NamesAssumption DEF LocalInv, TypeOK, Whole, Object

\* The initial states map to the port's.
LEMMA PortInit == Init => Port!Init
  BY DEF Init, Port!Init, Object

\* A step that changes neither what the keys name nor what the callers know
\* stutters.
LEMMA PortStutters ==
  ASSUME LocalInv, LocalInv', UNCHANGED <<file, told>>
  PROVE  UNCHANGED Port!vars
  BY ObjectIsFile DEF LocalInv, TypeOK, Whole, Object, Port!vars

\* A step that gives one caller an answer is Tell.
LEMMA PortTells ==
  ASSUME LocalInv, LocalInv', NEW k \in Keys,
         NEW answer \in {"none", "stored", "exists", "failed"},
         answer \in {"stored", "exists"} => file[k] # None,
         UNCHANGED file, Tell(k, answer)
  PROVE  Port!Tell(k)
<1>1. [j \in Keys |-> Object(j)]' = [j \in Keys |-> Object(j)]
  BY ObjectIsFile DEF LocalInv, TypeOK, Whole, Object
<1>2. answer \in {"stored", "exists"} => Object(k) # "absent"
  BY ObjectIsFile
<1> QED
  BY <1>1, <1>2 DEF Port!Tell, Port!Answers, Tell

\* Every step of store() is a step of the port or a stutter.
LEMMA PortStore ==
  ASSUME LocalInv, LocalInv', NEW k \in Keys, StoreStep(k)
  PROVE  [Port!Next]_(Port!vars)
<1>1. CASE MakeTemporary(k) \/ Write(k) \/ Sync(k) \/ Clean(k)
  BY <1>1, PortStutters DEF MakeTemporary, Write, Sync, Clean
<1>2. CASE Call(k)
  <2>1. Port!Tell(k)
    BY <1>2, PortTells DEF Call
  <2> QED
    BY <2>1 DEF Port!Next
<1>3. CASE Refuse(k)
  <2>1. Port!Tell(k)
    BY <1>3, PortTells DEF Refuse, Available
  <2> QED
    BY <2>1 DEF Port!Next
<1>4. CASE Recheck(k)
  <2>1. CASE Available(k)
    BY <1>4, <2>1, PortStutters DEF Recheck
  <2>2. CASE ~Available(k)
    <3>1. Port!Tell(k)
      BY <1>4, <2>2, PortTells DEF Recheck, Available
    <3> QED
      BY <3>1 DEF Port!Next
  <2> QED
    BY <2>1, <2>2
<1>5. CASE Return(k)
  <2>1. Port!Tell(k)
    BY <1>5, PortTells DEF Return, LocalInv, Whole
  <2> QED
    BY <2>1 DEF Port!Next
<1>6. CASE Raise(k)
  <2>1. Port!Tell(k)
    BY <1>6, PortTells DEF Raise
  <2> QED
    BY <2>1 DEF Port!Next
<1>7. CASE Replace(k)
  <2>1. /\ file[k] = None /\ cur[k] \in Temps
        /\ file' = [file EXCEPT ![k] = cur[k]] /\ UNCHANGED <<data, told>>
        /\ data[cur[k]] = "synced"
    BY <1>7 DEF Replace, LocalInv, TypeOK, Owned, Whole, Holding
  <2>2. file' \in [Keys -> Temps \cup {None}] /\ file \in [Keys -> Temps \cup {None}]
    BY DEF LocalInv, TypeOK
  <2>a. Object(k)' = cur[k]
    <3>1. file'[k] = cur[k] /\ cur[k] # None /\ data'[cur[k]] = "synced"
      BY <2>1, <2>2, NamesAssumption
    <3> QED
      BY <3>1 DEF Object
  <2>b. \A j \in Keys : j # k => Object(j)' = Object(j)
    BY <2>1, <2>2 DEF Object
  <2>3. \A j \in Keys : Object(j)' = IF j = k THEN cur[k] ELSE Object(j)
    BY <2>a, <2>b
  <2>4. Object(k) = "absent"
    BY <2>1, ObjectIsFile
  <2>5. Port!Appear(k)
    BY <2>1, <2>3, <2>4 DEF Port!Appear
  <2> QED
    BY <2>5 DEF Port!Next
<1> QED
  BY <1>1, <1>2, <1>3, <1>4, <1>5, <1>6, <1>7 DEF StoreStep

\* A power cut is one of the port's.
LEMMA PortPowerCut ==
  ASSUME LocalInv, LocalInv', PowerCut
  PROVE  Port!PowerCut
<1>1. PICK lost \in SUBSET {k \in Keys \ onDisk : file[k] # None} :
        file' = [k \in Keys |-> IF k \in lost THEN None ELSE file[k]]
  BY DEF PowerCut
<1>2. \A k \in Keys : Object(k)' = IF k \in lost THEN "absent" ELSE Object(k)
  BY <1>1, ObjectIsFile DEF LocalInv, Whole, Object
<1>3. lost \in SUBSET Keys
  OBVIOUS
<1> QED
  BY <1>2, <1>3 DEF Port!PowerCut, PowerCut

\* Every step of the adapter is a step of the port or a stutter.
LEMMA PortStep ==
  ASSUME LocalInv, LocalInv', [Next]_vars
  PROVE  [Port!Next]_(Port!vars)
<1>1. CASE UNCHANGED vars
  BY <1>1, PortStutters DEF vars, storing
<1>2. ASSUME NEW k \in Keys, StoreStep(k)
      PROVE  [Port!Next]_(Port!vars)
  BY <1>2, PortStore
<1>3. CASE PowerCut
  BY <1>3, PortPowerCut DEF Port!Next
<1>4. CASE \/ \E k \in Keys : NameReachesDisk(k)
           \/ \E t \in Temps : Ages(t)
           \/ Killed \/ StartListing \/ LookAt \/ Stat
  BY <1>4, PortStutters
  DEF NameReachesDisk, Ages, Killed, StartListing, LookAt, Stat, storing
<1> QED
  BY <1>1, <1>2, <1>3, <1>4 DEF Next

-----------------------------------------------------------------------------
(* Theorems *)

\* The variables of the adapter, its calls and its files stay typed.
THEOREM LocalTypes == Spec => []TypeOK
<1>1. LocalInv => TypeOK
  BY DEF LocalInv
<1> QED
  BY <1>1, LocalInit, LocalStep, PTL DEF Spec

\* A listing that succeeds names every temporary file that was abandoned and old
\* enough when it began, and no young one, for any number of concurrent uploads
\* (LocalDocumentStorage.list_incomplete).
THEOREM LocalAbandonedIsListed == Spec => []AbandonedIsListed
<1>1. LocalInv => AbandonedIsListed
  BY DEF LocalInv, Found, AbandonedIsListed
<1> QED
  BY <1>1, LocalInit, LocalStep, PTL DEF Spec

\* The adapter implements the port: one whole file appears under a key and is
\* never overwritten, for any number of keys, calls, failures and power cuts
\* (LocalDocumentStorage.store).
THEOREM LocalImplementsPort == Spec => ImplementsPort
<1>1. LocalInv /\ LocalInv' /\ [Next]_vars
        => [Port!Next]_(Port!vars)
  BY PortStep
<1> QED
  BY <1>1, LocalInit, LocalStep, PortInit, PTL DEF Spec, ImplementsPort, Port!Spec
=============================================================================

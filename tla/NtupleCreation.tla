--------------------------- MODULE NtupleCreation ---------------------------
(***************************************************************************)
(* How Ntuples come into a file: the constructors of hdf5::Ntuple with     *)
(* verifiedFile(), makeGroup() and makeDataset(), and make_ntuple().       *)
(*                                                                         *)
(* Several threads make Ntuples of the same name in one HDF5 file, one     *)
(* after the other or at the same time; a constructor holds no lock, and   *)
(* HDF5 serialises only the single calls.  The file's name space is        *)
(* reduced to that one name.  The rows of an Ntuple are module Ntuple's.   *)
(***************************************************************************)
EXTENDS Naturals

CONSTANTS
  Makers,       \* the threads that construct, use and destroy an Ntuple each
  NoMaker,
  OverwriterSets, \* sets of those that may ask for NtupleOverwriteFlag::YES
  Throwing,     \* those whose error mode is ErrorMode::EXCEPTION
  NColumns,     \* nColumns()
  MaxGroups,    \* bound: groups made in the course of a behaviour
  MaxFailures   \* bound: HDF5 calls that fail without a reason in the model

ASSUME MakersAssumption ==
  OverwriterSets \subseteq SUBSET Makers /\ Throwing \subseteq Makers /\ NoMaker \notin Makers
ASSUME SizesAssumption  == NColumns \in Nat \ {0} /\ MaxGroups \in Nat /\ MaxFailures \in Nat

NoGroup == 0

Groups  == 1 .. MaxGroups
Columns == 1 .. NColumns

VARIABLES
  overwriters, \* those that may ask for it
  userFile,  \* the program's own file: "none", "rdonly" or "rw"
  owner,     \* the maker whose Ntuple opened the file by name
  link,      \* the group that the name leads to
  made,      \* number of groups made so far
  datasets,  \* of each group: the columns that have a dataset in it
  pc,        \* where the constructor of each maker is
  flag,      \* its overwriteContents
  group,     \* its dd_.group
  next,      \* the column that makeDataset() is called for next
  failures

vars == <<overwriters, userFile, owner, link, made, datasets, pc, flag, group, next, failures>>

Init ==
  /\ overwriters \in OverwriterSets
  /\ userFile \in {"none", "rdonly", "rw"}
  /\ owner = NoMaker
  /\ link = NoGroup
  /\ made = 0
  /\ datasets = [g \in Groups |-> {}]
  /\ pc = [m \in Makers |-> "idle"]
  /\ flag = [m \in Makers |-> "NO"]
  /\ group = [m \in Makers |-> NoGroup]
  /\ next = [m \in Makers |-> 1]
  /\ failures = 0

Goto(m, label) == pc' = [pc EXCEPT ![m] = label]

MayFail ==
  /\ failures < MaxFailures
  /\ failures' = failures + 1

(* The constructor is left by an exception: what it had is closed. *)
Throw(m) ==
  /\ Goto(m, "idle")
  /\ group' = [group EXCEPT ![m] = NoGroup]
  /\ next' = [next EXCEPT ![m] = 1]
  /\ owner' = IF owner = m THEN NoMaker ELSE owner

-----------------------------------------------------------------------------
(* The arguments.                                                          *)

(* Every overload without the argument means NO; make_ntuple passes on     *)
(* the arguments that its initializer was given.                           *)
Given(m, given, f) ==
  /\ given => f = "NO" \/ m \in overwriters
  /\ flag' = [flag EXCEPT ![m] = IF given THEN f ELSE "NO"]

(* verifiedFile(): otherwise "Attempt to create Ntuple with invalid File"  *)
(* or "Reading from HDF5 Ntuple file not supported!" is thrown, before     *)
(* anything has happened.                                                  *)
Verified(file) == file = "rw"

(* With a file of the program's. *)
ConstructInFile(m, given, f) ==
  /\ pc[m] = "idle"
  /\ Verified(userFile)
  /\ Given(m, given, f)
  /\ Goto(m, "group")
  /\ UNCHANGED <<overwriters, userFile, owner, link, made, datasets, group, next, failures>>

OpenFileTruncatedBug(m, given, f) ==
  /\ pc[m] = "idle"
  /\ userFile = "none"
  /\ owner' = m
  /\ link' = NoGroup
  /\ Given(m, given, f)
  /\ Goto(m, "group")
  /\ UNCHANGED <<overwriters, userFile, made, datasets, group, next, failures>>

(* With a file name: the file is truncated.  HDF5 refuses that while the   *)
(* file is open.                                                           *)
ConstructByName(m, given, f) ==
  /\ pc[m] = "idle"
  /\ userFile = "none"
  /\ owner = NoMaker
  /\ owner' = m
  /\ link' = NoGroup
  /\ Given(m, given, f)
  /\ Goto(m, "group")
  /\ UNCHANGED <<overwriters, userFile, made, datasets, group, next, failures>>

-----------------------------------------------------------------------------
(* makeGroup()                                                             *)

(* A new group, at the name. *)
NewGroup(m) ==
  /\ made < MaxGroups
  /\ made' = made + 1
  /\ link' = made'
  /\ group' = [group EXCEPT ![m] = made']

OpenOrCreateBug(m) ==
  /\ pc[m] = "group"
  /\ made < MaxGroups
  /\ made' = IF link = NoGroup THEN made + 1 ELSE made
  /\ link' = IF link = NoGroup THEN made' ELSE link
  /\ group' = [group EXCEPT ![m] = link']
  /\ Goto(m, "columns")
  /\ UNCHANGED <<overwriters, userFile, owner, datasets, flag, next, failures>>

(* Group(file, name), CREATE_MODE, under a handler that does not throw. *)
CreateGroup(m) ==
  /\ pc[m] = "group"
  /\ \/ /\ link = NoGroup
        /\ NewGroup(m)
        /\ Goto(m, "columns")
        /\ UNCHANGED failures
     \/ /\ link # NoGroup
        /\ Goto(m, "exists")
        /\ UNCHANGED <<link, made, group, failures>>
     \/ /\ MayFail
        /\ Goto(m, "exists")
        /\ UNCHANGED <<link, made, group>>
  /\ UNCHANGED <<overwriters, userFile, owner, datasets, flag, next>>

FlagForgottenBug(m) ==
  /\ pc[m] = "exists"
  /\ link # NoGroup
  /\ link' = NoGroup
  /\ Goto(m, "regroup")
  /\ UNCHANGED <<overwriters, userFile, owner, made, datasets, flag, group, next, failures>>

(* "Group ... already exists and overwriting is not specified"; otherwise  *)
(* the name is deleted, which throws if there is none any more.            *)
MakeRoom(m) ==
  /\ pc[m] = "exists"
  /\ \/ /\ flag[m] = "NO" \/ link = NoGroup
        /\ Throw(m)
        /\ UNCHANGED <<link, failures>>
     \/ /\ flag[m] = "YES" /\ link # NoGroup
        /\ link' = NoGroup
        /\ Goto(m, "regroup")
        /\ UNCHANGED <<owner, group, next, failures>>
     \/ /\ flag[m] = "YES"
        /\ MayFail
        /\ Throw(m)
        /\ UNCHANGED link
  /\ UNCHANGED <<overwriters, userFile, made, datasets, flag>>

(* The second attempt, under the handler of the program; without           *)
(* exceptions the constructor goes on with an invalid group.               *)
CreateGroupAgain(m) ==
  /\ pc[m] = "regroup"
  /\ \/ /\ link = NoGroup
        /\ NewGroup(m)
        /\ Goto(m, "columns")
        /\ UNCHANGED <<owner, next, failures>>
     \/ /\ \/ link # NoGroup /\ UNCHANGED failures
           \/ MayFail
        /\ IF m \in Throwing
             THEN Throw(m)
             ELSE Goto(m, "columns") /\ UNCHANGED <<owner, group, next>>
        /\ UNCHANGED <<link, made>>
  /\ UNCHANGED <<overwriters, userFile, datasets, flag>>

-----------------------------------------------------------------------------
(* makeDataset(), for one column after the other: the initializer of dsets *)
(* goes from call to call and looks at nothing.                            *)

(* The group is not valid, or it has a dataset of that name already. *)
Refused(m) == group[m] # NoGroup => next[m] \in datasets[group[m]]

MakeDataset(m) ==
  /\ pc[m] = "columns" /\ next[m] \in Columns
  /\ ~ Refused(m)
  /\ datasets' = [datasets EXCEPT ![group[m]] = @ \cup {next[m]}]
  /\ next' = [next EXCEPT ![m] = @ + 1]
  /\ UNCHANGED <<overwriters, userFile, owner, link, made, pc, flag, group, failures>>

(* No dataset comes into being: it is refused, or HDF5 fails. *)
NoDataset(m) ==
  /\ pc[m] = "columns" /\ next[m] \in Columns
  /\ \/ Refused(m) /\ UNCHANGED failures
     \/ MayFail
  /\ UNCHANGED <<overwriters, userFile, link, made, datasets, flag>>

ModeOfThreadBug(m) ==
  /\ NoDataset(m)
  /\ IF m \in Throwing THEN Throw(m)
     ELSE next' = [next EXCEPT ![m] = @ + 1] /\ UNCHANGED <<owner, pc, group>>

(* makeDataset() has a ScopedErrorHandler in mode EXCEPTION, whatever the  *)
(* mode of the thread.  The group stays in the file as it is.              *)
MakeDatasetFails(m) ==
  /\ NoDataset(m)
  /\ Throw(m)

(* The initializer of dsets has come to its end, and the constructor too.  *)
AllColumns(m) ==
  /\ pc[m] = "columns" /\ next[m] \notin Columns
  /\ Goto(m, "live")
  /\ UNCHANGED <<overwriters, userFile, owner, link, made, datasets, flag, group, next, failures>>

(* ~Ntuple() *)
Destroy(m) ==
  /\ pc[m] = "live"
  /\ Throw(m)
  /\ UNCHANGED <<overwriters, userFile, link, made, datasets, flag, failures>>

Construct(m) ==
  \/ CreateGroup(m) \/ MakeRoom(m) \/ CreateGroupAgain(m)
  \/ MakeDataset(m) \/ MakeDatasetFails(m) \/ AllColumns(m)

Next ==
  \E m \in Makers :
    \/ \E given \in BOOLEAN, f \in {"NO", "YES"} :
         ConstructInFile(m, given, f) \/ ConstructByName(m, given, f)
    \/ Construct(m)
    \/ Destroy(m)

Spec == Init /\ [][Next]_vars

-----------------------------------------------------------------------------
Labels == {"idle", "group", "exists", "regroup", "columns", "live"}

(* The type invariant; only a constructor with YES gets past a name that   *)
(* exists.                                                                 *)
TypeOK ==
  /\ overwriters \in OverwriterSets
  /\ userFile \in {"none", "rdonly", "rw"}
  /\ owner \in Makers \cup {NoMaker}
  /\ made \in 0 .. MaxGroups
  /\ link \in 0 .. made
  /\ datasets \in [Groups -> SUBSET Columns]
  /\ pc \in [Makers -> Labels]
  /\ flag \in [Makers -> {"NO", "YES"}]
  /\ group \in [Makers -> 0 .. made]
  /\ next \in [Makers -> 1 .. NColumns + 1]
  /\ failures \in 0 .. MaxFailures
  /\ \A m \in Makers :
       /\ pc[m] = "regroup" => flag[m] = "YES"
       /\ pc[m] \in {"idle", "group", "exists", "regroup"} => group[m] = NoGroup

(* No two Ntuples ever write to the same group, however the constructors   *)
(* of several threads interleave: there is no lock between them, only the  *)
(* creation of the group tells them apart (Group.cpp:16-24).               *)
SoleWriter ==
  \A m, n \in Makers : group[m] # NoGroup /\ group[m] = group[n] => m = n

(* Without failures no group stays behind that lacks datasets: a           *)
(* constructor is at it.                                                   *)
LeftByFailures ==
  failures = 0 =>
    \A g \in 1 .. made : datasets[g] # Columns => \E m \in Makers : group[m] = g

(* A constructor that returns has all its datasets, in a group that is     *)
(* valid, whatever failed before, in whatever error mode, and whoever      *)
(* deleted the name meanwhile: it only goes from makeDataset() to          *)
(* makeDataset().  And what readers may find incomplete in the file is     *)
(* under construction, or was left so by an exception.                     *)
LiveIsComplete ==
  /\ \A m \in Makers :
       pc[m] = "live" => group[m] # NoGroup /\ datasets[group[m]] = Columns
  /\ LeftByFailures

(* Ntuple.hpp:103-107: an existing entity is overwritten, or else an       *)
(* exception is thrown.  So if nobody may overwrite, the group of an       *)
(* Ntuple stays in the file, from the first dataset to the destructor.     *)
KeptUnlessOverwritten ==
  overwriters = {} =>
    \A m \in Makers : group[m] # NoGroup => link = group[m]

(* What the name leads to changes hands only by way of a constructor that  *)
(* has YES or truncates the file - not when a constructor fails.           *)
OnlyOverwritersReplace ==
  [][link # NoGroup /\ link' # link =>
       \/ \E m \in Makers : pc[m] = "exists" /\ flag[m] = "YES" /\ pc'[m] = "regroup"
       \/ \E m \in Makers : owner = NoMaker /\ owner' = m]_vars
=============================================================================

----------------------- MODULE NtupleCreation_proofs -----------------------
(***************************************************************************)
(* Proofs about NtupleCreation, for any number of threads, columns, groups *)
(* and failures.                                                           *)
(***************************************************************************)
EXTENDS NtupleCreation, TLAPS

(* Who is in the file.  A maker that works by file name has the file to    *)
(* itself; only those that may ask for YES have it.                        *)
FileHeld ==
  /\ \A m \in Makers : pc[m] # "idle" => userFile = "rw" \/ owner = m
  /\ \A m \in Makers : flag[m] = "YES" => m \in overwriters

(* What the group of a constructor has so far: the datasets of the calls   *)
(* behind it, as each of these has made one or ended the constructor.      *)
DatasetsInOrder ==
  /\ \A m \in Makers :
       /\ group[m] = NoGroup => next[m] = 1
       /\ group[m] # NoGroup => datasets[group[m]] = 1 .. next[m] - 1
       /\ pc[m] = "live" => next[m] = NColumns + 1
  /\ \A g \in Groups : g > made => datasets[g] = {}

(* SoleWriter is inductive with TypeOK, by which new groups are not in use *)
(* yet; KeptUnlessOverwritten needs FileHeld for the truncation;           *)
(* DatasetsInOrder needs SoleWriter, or another constructor could have     *)
(* made the datasets.                                                      *)
IInv ==
  /\ TypeOK /\ FileHeld /\ SoleWriter /\ DatasetsInOrder /\ LeftByFailures
  /\ KeptUnlessOverwritten

LEMMA InitIInv == Init => IInv
  BY MakersAssumption, SizesAssumption
  DEF Init, IInv, TypeOK, FileHeld, SoleWriter, DatasetsInOrder, LeftByFailures, KeptUnlessOverwritten,
      Labels, Groups, NoGroup

(* Steps that make no dataset: those that leave the groups alone, those    *)
(* that make a group, and those that end an Ntuple or its constructor.     *)
LEMMA GroupsAlone ==
  ASSUME IInv, UNCHANGED <<datasets, made, group, next>>, failures' = 0 => failures = 0,
         \A n \in Makers : pc'[n] = "live" => next[n] = NColumns + 1
  PROVE  DatasetsInOrder' /\ LeftByFailures'
  BY DEF IInv, DatasetsInOrder, LeftByFailures

LEMMA GroupMade ==
  ASSUME IInv, NEW m \in Makers, group[m] = NoGroup, NewGroup(m),
         UNCHANGED <<datasets, next, failures>>,
         \A n \in Makers : pc'[n] = "live" => pc[n] = "live"
  PROVE  DatasetsInOrder' /\ LeftByFailures'
<1> USE SizesAssumption DEF IInv, TypeOK, Groups, NoGroup
<1>1. /\ made \in Nat /\ made' = made + 1 /\ made' \in Groups
      /\ group'[m] = made + 1 /\ \A n \in Makers \ {m} : group'[n] = group[n]
  BY DEF NewGroup
<1>2. next[m] = 1 /\ datasets[made + 1] = {}
  BY <1>1 DEF DatasetsInOrder
<1>3. DatasetsInOrder'
  <2>1. ASSUME NEW n \in Makers
        PROVE  /\ group'[n] = NoGroup => next'[n] = 1
               /\ group'[n] # NoGroup => datasets'[group'[n]] = 1 .. next'[n] - 1
               /\ pc'[n] = "live" => next'[n] = NColumns + 1
    <3>1. CASE n = m
      <4>1. pc'[n] # "live"
        BY <1>2, <3>1 DEF DatasetsInOrder
      <4>2. datasets'[group'[n]] = 1 .. next'[n] - 1
        <5>1. datasets'[group'[n]] = {} /\ next'[n] - 1 = 0
          BY <1>1, <1>2, <3>1
        <5>2. 1 .. 0 = {}
          OBVIOUS
        <5> QED BY <5>1, <5>2
      <4> QED BY <1>1, <3>1, <4>1, <4>2
    <3>2. CASE n # m
      BY <1>1, <3>2 DEF DatasetsInOrder
    <3> QED BY <3>1, <3>2
  <2>2. \A g \in Groups : g > made' => datasets'[g] = {}
    BY <1>1 DEF DatasetsInOrder
  <2> QED BY <2>1, <2>2 DEF DatasetsInOrder
<1>4. ASSUME failures' = 0, NEW g \in 1 .. made', datasets'[g] # Columns
      PROVE  \E n \in Makers : group'[n] = g
  <2>1. CASE g = made + 1
    BY <1>1, <2>1
  <2>2. CASE g \in 1 .. made
    <3>1. failures = 0 /\ datasets[g] # Columns
      BY <1>4
    <3>2. PICK n \in Makers : group[n] = g
      BY <2>2, <3>1 DEF LeftByFailures
    <3>3. n # m
      BY <2>2, <3>2
    <3> QED BY <1>1, <3>2, <3>3
  <2>3. g = made + 1 \/ g \in 1 .. made
    BY <1>1, <1>4
  <2> QED BY <2>1, <2>2, <2>3
<1> QED BY <1>3, <1>4 DEF LeftByFailures

LEMMA GroupGivenUp ==
  ASSUME IInv, NEW m \in Makers, Throw(m), UNCHANGED <<datasets, made>>,
         failures' = 0 => failures = 0 /\ (group[m] = NoGroup \/ datasets[group[m]] = Columns)
  PROVE  DatasetsInOrder' /\ LeftByFailures'
<1> USE DEF IInv, TypeOK, NoGroup
<1>1. /\ group'[m] = NoGroup /\ next'[m] = 1 /\ pc'[m] = "idle"
      /\ \A n \in Makers \ {m} : group'[n] = group[n] /\ next'[n] = next[n] /\ pc'[n] = pc[n]
  BY DEF Throw, Goto
<1>2. DatasetsInOrder'
  BY <1>1 DEF DatasetsInOrder
<1>3. LeftByFailures'
  BY <1>1 DEF LeftByFailures
<1> QED BY <1>2, <1>3

(* What NoDataset leaves alone, and that it says so when something failed. *)
LEMMA FailureCounts ==
  ASSUME IInv, NEW m \in Makers, NoDataset(m)
  PROVE  /\ UNCHANGED <<overwriters, userFile, link, made, datasets, flag>>
         /\ failures' \in 0 .. MaxFailures
         /\ failures' = 0 => failures = 0 /\ Refused(m)
  BY SizesAssumption DEF IInv, TypeOK, NoDataset, MayFail

(* ConstructInFile keeps the invariant. *)
LEMMA ConstructInFileKeeps ==
  ASSUME IInv, NEW m \in Makers, NEW given \in BOOLEAN, NEW f \in {"NO", "YES"}, ConstructInFile(m, given, f)
  PROVE  IInv'
<1> USE MakersAssumption, SizesAssumption DEF IInv, TypeOK, Labels, Groups, NoGroup
<1>1. TypeOK'
  BY DEF ConstructInFile, Verified, Given, Goto
<1>2. FileHeld'
  BY DEF ConstructInFile, Verified, Given, Goto, FileHeld
<1>3. SoleWriter'
  BY DEF ConstructInFile, Verified, Given, Goto, SoleWriter
<1>4. DatasetsInOrder' /\ LeftByFailures'
  BY GroupsAlone DEF ConstructInFile, Given, Goto, DatasetsInOrder
<1>5. KeptUnlessOverwritten'
  BY DEF ConstructInFile, Verified, Given, Goto, KeptUnlessOverwritten, FileHeld
<1> QED BY <1>1, <1>2, <1>3, <1>4, <1>5

(* ConstructByName keeps the invariant. *)
LEMMA ConstructByNameKeeps ==
  ASSUME IInv, NEW m \in Makers, NEW given \in BOOLEAN, NEW f \in {"NO", "YES"}, ConstructByName(m, given, f)
  PROVE  IInv'
<1> USE MakersAssumption, SizesAssumption DEF IInv, TypeOK, Labels, Groups, NoGroup
<1>1. TypeOK'
  BY DEF ConstructByName, Given, Goto
<1>2. FileHeld'
  BY DEF ConstructByName, Given, Goto, FileHeld
<1>3. SoleWriter'
  BY DEF ConstructByName, Given, Goto, SoleWriter
<1>4. DatasetsInOrder' /\ LeftByFailures'
  BY GroupsAlone DEF ConstructByName, Given, Goto, DatasetsInOrder
<1>5. KeptUnlessOverwritten'
  BY DEF ConstructByName, Given, Goto, KeptUnlessOverwritten, FileHeld
<1> QED BY <1>1, <1>2, <1>3, <1>4, <1>5

(* CreateGroup keeps the invariant. *)
LEMMA CreateGroupKeeps ==
  ASSUME IInv, NEW m \in Makers, CreateGroup(m)
  PROVE  IInv'
<1> USE MakersAssumption, SizesAssumption DEF IInv, TypeOK, Labels, Groups, NoGroup
<1>1. TypeOK'
  <2>1. CASE NewGroup(m) /\ Goto(m, "columns") /\ UNCHANGED failures
    BY <2>1 DEF CreateGroup, NewGroup, Goto
  <2>2. CASE Goto(m, "exists") /\ UNCHANGED <<link, made, group, failures>>
    BY <2>2 DEF CreateGroup, Goto
  <2>3. CASE MayFail /\ Goto(m, "exists") /\ UNCHANGED <<link, made, group>>
    BY <2>3 DEF CreateGroup, Goto, MayFail
  <2> QED BY <2>1, <2>2, <2>3 DEF CreateGroup
<1>2. FileHeld'
  BY DEF CreateGroup, NewGroup, Goto, MayFail, FileHeld
<1>3. SoleWriter'
  <2>1. CASE group' = group
    BY <2>1 DEF SoleWriter
  <2>2. CASE NewGroup(m)
    <3>1. group' = [group EXCEPT ![m] = made + 1]
      BY <2>2 DEF NewGroup
    <3>2. \A n \in Makers : group[n] # made + 1
      OBVIOUS
    <3> QED BY <3>1, <3>2 DEF SoleWriter
  <2> QED BY <2>1, <2>2 DEF CreateGroup
<1>4. DatasetsInOrder' /\ LeftByFailures'
  <2>1. group[m] = NoGroup /\ UNCHANGED <<datasets, next>> /\ pc[m] = "group"
        /\ \A n \in Makers : pc'[n] = "live" => pc[n] = "live"
    BY DEF CreateGroup, Goto
  <2>2. CASE NewGroup(m) /\ UNCHANGED failures
    BY <2>1, <2>2, GroupMade
  <2>3. CASE UNCHANGED <<made, group>> /\ (UNCHANGED failures \/ MayFail)
    BY <2>1, <2>3, GroupsAlone DEF MayFail, DatasetsInOrder
  <2> QED BY <2>2, <2>3 DEF CreateGroup
<1>5. KeptUnlessOverwritten'
  BY DEF CreateGroup, NewGroup, Goto, MayFail, KeptUnlessOverwritten, FileHeld
<1> QED BY <1>1, <1>2, <1>3, <1>4, <1>5

(* MakeRoom keeps the invariant. *)
LEMMA MakeRoomKeeps ==
  ASSUME IInv, NEW m \in Makers, MakeRoom(m)
  PROVE  IInv'
<1> USE MakersAssumption, SizesAssumption DEF IInv, TypeOK, Labels, Groups, NoGroup
<1>1. TypeOK'
  <2>1. CASE Throw(m) /\ UNCHANGED link
    <3>1. failures' \in 0 .. MaxFailures
      BY DEF MakeRoom, MayFail
    <3> QED BY <2>1, <3>1 DEF MakeRoom, Throw, Goto
  <2>2. CASE flag[m] = "YES" /\ link' = NoGroup /\ Goto(m, "regroup")
             /\ UNCHANGED <<owner, group, next, failures>>
    BY <2>2 DEF MakeRoom, Goto
  <2> QED BY <2>1, <2>2 DEF MakeRoom
<1>2. FileHeld'
  BY DEF MakeRoom, Throw, Goto, MayFail, FileHeld
<1>3. SoleWriter'
  BY DEF MakeRoom, Throw, Goto, MayFail, SoleWriter
<1>4. DatasetsInOrder' /\ LeftByFailures'
  <2>1. group[m] = NoGroup /\ UNCHANGED <<datasets, made>> /\ failures' \in {failures, failures + 1}
    BY DEF MakeRoom, MayFail
  <2>2. CASE Throw(m)
    BY <2>1, <2>2, GroupGivenUp
  <2>3. CASE Goto(m, "regroup") /\ UNCHANGED <<group, next>>
    BY <2>1, <2>3, GroupsAlone DEF Goto, DatasetsInOrder
  <2> QED BY <2>2, <2>3 DEF MakeRoom
<1>5. KeptUnlessOverwritten'
  BY DEF MakeRoom, Throw, Goto, MayFail, KeptUnlessOverwritten, FileHeld
<1> QED BY <1>1, <1>2, <1>3, <1>4, <1>5

(* CreateGroupAgain keeps the invariant. *)
LEMMA CreateGroupAgainKeeps ==
  ASSUME IInv, NEW m \in Makers, CreateGroupAgain(m)
  PROVE  IInv'
<1> USE MakersAssumption, SizesAssumption DEF IInv, TypeOK, Labels, Groups, NoGroup
<1>1. TypeOK'
  <2>1. CASE NewGroup(m) /\ Goto(m, "columns") /\ UNCHANGED <<owner, next, failures>>
    BY <2>1 DEF CreateGroupAgain, NewGroup, Goto
  <2>2. CASE Throw(m)
    BY <2>2 DEF CreateGroupAgain, NewGroup, Throw, Goto, MayFail
  <2>3. CASE Goto(m, "columns") /\ UNCHANGED <<owner, group, next, link, made>>
    BY <2>3 DEF CreateGroupAgain, Goto, MayFail
  <2> QED BY <2>1, <2>2, <2>3 DEF CreateGroupAgain
<1>2. FileHeld'
  BY DEF CreateGroupAgain, NewGroup, Throw, Goto, MayFail, FileHeld
<1>3. SoleWriter'
  <2>1. CASE NewGroup(m)
    <3>1. group' = [group EXCEPT ![m] = made + 1]
      BY <2>1 DEF NewGroup
    <3>2. \A n \in Makers : group[n] # made + 1
      OBVIOUS
    <3> QED BY <3>1, <3>2 DEF SoleWriter
  <2>2. CASE Throw(m)
    BY <2>2 DEF Throw, SoleWriter
  <2>3. CASE UNCHANGED group
    BY <2>3 DEF SoleWriter
  <2> QED BY <2>1, <2>2, <2>3 DEF CreateGroupAgain
<1>4. DatasetsInOrder' /\ LeftByFailures'
  <2>1. group[m] = NoGroup /\ UNCHANGED datasets /\ failures' \in {failures, failures + 1}
    BY DEF CreateGroupAgain, MayFail
  <2>2. CASE NewGroup(m) /\ Goto(m, "columns") /\ UNCHANGED <<owner, next, failures>>
    BY <2>1, <2>2, GroupMade DEF Goto
  <2>3. CASE Throw(m) /\ UNCHANGED made
    BY <2>1, <2>3, GroupGivenUp
  <2>4. CASE Goto(m, "columns") /\ UNCHANGED <<group, next, made>>
    BY <2>1, <2>4, GroupsAlone DEF Goto, DatasetsInOrder
  <2> QED BY <2>2, <2>3, <2>4 DEF CreateGroupAgain
<1>5. KeptUnlessOverwritten'
  BY DEF CreateGroupAgain, NewGroup, Throw, Goto, MayFail, KeptUnlessOverwritten, FileHeld
<1> QED BY <1>1, <1>2, <1>3, <1>4, <1>5

(* MakeDataset keeps the invariant. *)
LEMMA MakeDatasetKeeps ==
  ASSUME IInv, NEW m \in Makers, MakeDataset(m)
  PROVE  IInv'
<1> USE MakersAssumption, SizesAssumption DEF IInv, TypeOK, Labels, Groups, NoGroup
<1>a. /\ group[m] \in Groups /\ next[m] \in 1 .. NColumns
      /\ datasets' = [datasets EXCEPT ![group[m]] = datasets[group[m]] \cup {next[m]}]
      /\ next' = [next EXCEPT ![m] = next[m] + 1]
      /\ UNCHANGED <<made, pc, group, failures>>
  BY DEF MakeDataset, Refused, Columns
<1>1. TypeOK'
  <2>1. datasets' \in [Groups -> SUBSET Columns] /\ next' \in [Makers -> 1 .. NColumns + 1]
    BY <1>a DEF Columns
  <2> QED BY <1>a, <2>1 DEF MakeDataset
<1>2. FileHeld'
  BY DEF MakeDataset, FileHeld
<1>3. SoleWriter'
  BY DEF MakeDataset, SoleWriter
<1>b. datasets[group[m]] \cup {next[m]} = 1 .. next'[m] - 1
  <2> DEFINE k == next[m]
  <2>1. k \in Nat \ {0} /\ group[m] # NoGroup
    BY <1>a
  <2>2. next'[m] = k + 1
    BY <1>a
  <2>3. datasets[group[m]] = 1 .. k - 1
    BY <2>1 DEF DatasetsInOrder
  <2> HIDE DEF k
  <2>4. (1 .. k - 1) \cup {k} = 1 .. (k + 1) - 1
    BY <2>1
  <2> QED BY <2>2, <2>3, <2>4 DEF k
<1>4. DatasetsInOrder'
  <2>1. ASSUME NEW n \in Makers
        PROVE  /\ group'[n] = NoGroup => next'[n] = 1
               /\ group'[n] # NoGroup => datasets'[group'[n]] = 1 .. next'[n] - 1
               /\ pc'[n] = "live" => next'[n] = NColumns + 1
    <3>1. CASE n = m
      <4>1. pc[m] # "live"
        BY DEF MakeDataset
      <4> QED BY <1>a, <1>b, <3>1, <4>1
    <3>2. CASE n # m
      <4>1. group[n] # NoGroup => group[n] # group[m]
        BY <1>a, <3>2 DEF SoleWriter
      <4> QED BY <1>a, <3>2, <4>1 DEF DatasetsInOrder
    <3> QED BY <3>1, <3>2
  <2>2. \A g \in Groups : g > made' => datasets'[g] = {}
    BY <1>a DEF DatasetsInOrder
  <2> QED BY <2>1, <2>2 DEF DatasetsInOrder
<1>6. LeftByFailures'
  <2> SUFFICES ASSUME failures' = 0, NEW g \in 1 .. made', datasets'[g] # Columns
               PROVE  \E n \in Makers : group'[n] = g
    BY DEF LeftByFailures
  <2>1. CASE g = group[m]
    BY <1>a, <2>1
  <2>2. CASE g # group[m]
    BY <1>a, <2>2 DEF LeftByFailures
  <2> QED BY <2>1, <2>2
<1>5. KeptUnlessOverwritten'
  BY DEF MakeDataset, KeptUnlessOverwritten, FileHeld
<1> QED BY <1>1, <1>2, <1>3, <1>4, <1>5, <1>6

(* MakeDatasetFails keeps the invariant. *)
LEMMA MakeDatasetFailsKeeps ==
  ASSUME IInv, NEW m \in Makers, MakeDatasetFails(m)
  PROVE  IInv'
<1> USE MakersAssumption, SizesAssumption DEF IInv, TypeOK, Labels, Groups, NoGroup
<1>a. /\ Throw(m) /\ UNCHANGED <<overwriters, userFile, link, made, datasets, flag>>
      /\ failures' \in 0 .. MaxFailures
      /\ failures' = 0 => failures = 0 /\ Refused(m)
  BY FailureCounts DEF MakeDatasetFails
<1>1. TypeOK'
  BY <1>a DEF Throw, Goto
<1>2. FileHeld'
  BY <1>a DEF Throw, Goto, FileHeld
<1>3. SoleWriter'
  BY <1>a DEF Throw, Goto, SoleWriter
<1>4. DatasetsInOrder' /\ LeftByFailures'
  <2>1. group[m] # NoGroup => ~ Refused(m)
    <3>1. next[m] \in Nat
      OBVIOUS
    <3> QED BY <3>1 DEF Refused, DatasetsInOrder
  <2>2. failures' = 0 => failures = 0 /\ group[m] = NoGroup
    BY <1>a, <2>1
  <2> QED BY <1>a, <2>2, GroupGivenUp
<1>5. KeptUnlessOverwritten'
  BY <1>a DEF Throw, Goto, KeptUnlessOverwritten, FileHeld
<1> QED BY <1>1, <1>2, <1>3, <1>4, <1>5

(* AllColumns keeps the invariant. *)
LEMMA AllColumnsKeeps ==
  ASSUME IInv, NEW m \in Makers, AllColumns(m)
  PROVE  IInv'
<1> USE MakersAssumption, SizesAssumption DEF IInv, TypeOK, Labels, Groups, NoGroup
<1>1. TypeOK'
  BY DEF AllColumns, Goto
<1>2. FileHeld'
  BY DEF AllColumns, Goto, FileHeld
<1>3. SoleWriter'
  BY DEF AllColumns, Goto, SoleWriter
<1>4. DatasetsInOrder' /\ LeftByFailures'
  <2>1. next[m] = NColumns + 1
    BY DEF AllColumns, Columns
  <2> QED BY <2>1, GroupsAlone DEF AllColumns, Goto, DatasetsInOrder
<1>5. KeptUnlessOverwritten'
  BY DEF AllColumns, Goto, KeptUnlessOverwritten, FileHeld
<1> QED BY <1>1, <1>2, <1>3, <1>4, <1>5

(* Destroy keeps the invariant. *)
LEMMA DestroyKeeps ==
  ASSUME IInv, NEW m \in Makers, Destroy(m)
  PROVE  IInv'
<1> USE MakersAssumption, SizesAssumption DEF IInv, TypeOK, Labels, Groups, NoGroup
<1>1. TypeOK'
  BY DEF Destroy, Throw, Goto
<1>2. FileHeld'
  BY DEF Destroy, Throw, Goto, FileHeld
<1>3. SoleWriter'
  BY DEF Destroy, Throw, Goto, SoleWriter
<1>4. DatasetsInOrder' /\ LeftByFailures'
  <2>1. next[m] = NColumns + 1 /\ NColumns \in Nat /\ Throw(m)
        /\ UNCHANGED <<datasets, made, failures>>
    BY DEF Destroy, DatasetsInOrder
  <2>2. group[m] # NoGroup => datasets[group[m]] = Columns
    BY <2>1 DEF DatasetsInOrder, Columns
  <2> QED BY <2>1, <2>2, GroupGivenUp
<1>5. KeptUnlessOverwritten'
  BY DEF Destroy, Throw, Goto, KeptUnlessOverwritten, FileHeld
<1> QED BY <1>1, <1>2, <1>3, <1>4, <1>5

(* Every step keeps the invariant: one lemma per action. *)
LEMMA StepIInv == IInv /\ [Next]_vars => IInv'
<1> SUFFICES ASSUME IInv, [Next]_vars PROVE IInv' OBVIOUS
<1>1. CASE UNCHANGED vars
  BY <1>1 DEF vars, IInv, TypeOK, FileHeld, SoleWriter, DatasetsInOrder, LeftByFailures, KeptUnlessOverwritten
<1>2. ASSUME NEW m \in Makers, Construct(m) PROVE IInv'
  BY <1>2, CreateGroupKeeps, MakeRoomKeeps, CreateGroupAgainKeeps,
     MakeDatasetKeeps, MakeDatasetFailsKeeps, AllColumnsKeeps DEF Construct
<1>3. ASSUME NEW m \in Makers, NEW given \in BOOLEAN, NEW f \in {"NO", "YES"},
             ConstructInFile(m, given, f) \/ ConstructByName(m, given, f)
      PROVE  IInv'
  BY <1>3, ConstructInFileKeeps, ConstructByNameKeeps
<1>4. ASSUME NEW m \in Makers, Destroy(m) PROVE IInv'
  BY <1>4, DestroyKeeps
<1> QED BY <1>1, <1>2, <1>3, <1>4 DEF Next

-----------------------------------------------------------------------------
(* The invariant holds in every reachable state. *)
THEOREM Invariance == Spec => []IInv
  BY InitIInv, StepIInv, PTL DEF Spec

(* Type correctness: the name in the file never leads to a group that was  *)
(* not created.                                                            *)
THEOREM TypeCorrect == Spec => []TypeOK
<1>1. IInv => TypeOK BY DEF IInv
<1> QED BY <1>1, Invariance, PTL

(* No two Ntuples write to the same group (Group.cpp, makeGroup).          *)
THEOREM GroupHasOneWriter == Spec => []SoleWriter
<1>1. IInv => SoleWriter BY DEF IInv
<1> QED BY <1>1, Invariance, PTL

(* A constructed Ntuple has a valid group with all its datasets, whatever  *)
(* failed in whatever mode, and without failures no group is left behind   *)
(* that lacks some (NtupleDataStructure).                                  *)
THEOREM ConstructedIsComplete == Spec => []LiveIsComplete
<1>1. IInv => LiveIsComplete
  <2> SUFFICES ASSUME IInv, NEW m \in Makers, pc[m] = "live"
               PROVE  group[m] # NoGroup /\ datasets[group[m]] = Columns
    BY DEF IInv, LiveIsComplete
  <2>1. next[m] = NColumns + 1 /\ next[m] # 1
    BY SizesAssumption DEF IInv, DatasetsInOrder
  <2>2. group[m] # NoGroup /\ datasets[group[m]] = 1 .. next[m] - 1
    BY <2>1 DEF IInv, DatasetsInOrder
  <2> QED
    BY <2>1, <2>2, SizesAssumption DEF Columns
<1> QED BY <1>1, Invariance, PTL

(* Without NtupleOverwriteFlag::YES nobody takes an Ntuple's group out of  *)
(* the file (Ntuple.hpp:103-107).                                          *)
THEOREM NothingOverwritten == Spec => []KeptUnlessOverwritten
<1>1. IInv => KeptUnlessOverwritten BY DEF IInv
<1> QED BY <1>1, Invariance, PTL

(* Only an Ntuple with NtupleOverwriteFlag::YES, or one that truncates the *)
(* file, takes the name away from a group: makeGroup() and whatever fails  *)
(* in it do not (NtupleDataStructure.cpp).                                 *)
THEOREM NamesReplacedByOverwriters == Spec => OnlyOverwritersReplace
<1> DEFINE Replaced ==
      \/ \E m \in Makers : pc[m] = "exists" /\ flag[m] = "YES" /\ pc'[m] = "regroup"
      \/ \E m \in Makers : owner = NoMaker /\ owner' = m
<1>1. ASSUME IInv, [Next]_vars, link # NoGroup, link' # link
      PROVE  Replaced
  <2>1. ASSUME NEW m \in Makers, NEW given \in BOOLEAN, NEW f \in {"NO", "YES"},
               ConstructInFile(m, given, f) \/ ConstructByName(m, given, f)
        PROVE  Replaced
    BY <1>1, <2>1 DEF ConstructInFile, ConstructByName
  <2>2. ASSUME NEW m \in Makers, MakeRoom(m)
        PROVE  Replaced
    <3>1. pc[m] = "exists" /\ flag[m] = "YES" /\ Goto(m, "regroup")
      BY <1>1, <2>2 DEF MakeRoom
    <3>2. pc'[m] = "regroup"
      BY <1>1, <3>1 DEF IInv, TypeOK, Goto
    <3> QED
      BY <3>1, <3>2
  <2>3. ASSUME NEW m \in Makers,
               \/ CreateGroup(m) \/ CreateGroupAgain(m) \/ MakeDataset(m)
               \/ MakeDatasetFails(m) \/ AllColumns(m) \/ Destroy(m)
        PROVE  FALSE
    BY <1>1, <2>3 DEF CreateGroup, CreateGroupAgain, MakeDataset, MakeDatasetFails, NoDataset,
                      AllColumns, Destroy
  <2>4. ~ UNCHANGED vars
    BY <1>1 DEF vars
  <2> HIDE DEF Replaced
  <2> QED
    BY <1>1, <2>1, <2>2, <2>3, <2>4 DEF Next, Construct
<1>2. IInv /\ [Next]_vars => [link # NoGroup /\ link' # link => Replaced]_vars
  BY <1>1
<1> QED
  BY <1>2, Invariance, PTL DEF Spec, OnlyOverwritersReplace
=============================================================================

--------------------------- MODULE Handles_proofs ---------------------------
(***************************************************************************)
(* Proofs about Resource and its clients, Attribute and Column, for any    *)
(* number of objects and identifiers: no identifier is leaked and none is  *)
(* closed twice, whatever sequence of constructions, moves, copies,        *)
(* resets, releases and destructions the program runs; and whatever fails  *)
(* in write_attribute(), and in whatever error mode, its locals leak       *)
(* nothing, its outcome is truthful, and none of their destructors throws. *)
(***************************************************************************)
EXTENDS Attribute, Column, FiniteSetTheorems, TLAPS

-----------------------------------------------------------------------------
(* Ownership: Resource.                                                    *)

(* The two ownership properties are inductive together. *)
IInv == TypeOK /\ NothingLeaks /\ SoleOwner

LEMMA InitIInv == Init => IInv
  BY IdsAssumption DEF Init, IInv, TypeOK, NothingLeaks, SoleOwner, Open, OwnedBy, Handles

(* DefaultConstruct keeps the ownership of every identifier. *)
LEMMA DefaultConstructKeeps ==
  ASSUME IInv, NEW o \in Objects, NEW h \in {Invalid, Default}, DefaultConstruct(o, h)
  PROVE  IInv'
<1> USE IdsAssumption DEF IInv, Handles
<1>1. TypeOK'
  BY DEF TypeOK, DefaultConstruct, Begin, Hold, NoChange
<1>2. NothingLeaks'
  BY DEF TypeOK, DefaultConstruct, Begin, Hold, NoChange, NothingLeaks, SoleOwner, Open, OwnedBy
<1>3. SoleOwner'
  BY DEF TypeOK, DefaultConstruct, Begin, Hold, NoChange, NothingLeaks, SoleOwner, Open, OwnedBy
<1> QED BY <1>1, <1>2, <1>3

(* Create keeps the ownership of every identifier. *)
LEMMA CreateKeeps ==
  ASSUME IInv, NEW o \in Objects, NEW i \in Ids, Create(o, i)
  PROVE  IInv'
<1> USE IdsAssumption DEF IInv, Handles
<1>1. TypeOK'
  BY DEF TypeOK, Create, Fresh, Begin, Hold
<1>2. NothingLeaks'
  BY DEF TypeOK, Create, Fresh, Begin, Hold, NothingLeaks, SoleOwner, Open, OwnedBy
<1>3. SoleOwner'
  BY DEF TypeOK, Create, Fresh, Begin, Hold, NothingLeaks, SoleOwner, Open, OwnedBy
<1> QED BY <1>1, <1>2, <1>3

(* CreateFails keeps the ownership of every identifier. *)
LEMMA CreateFailsKeeps ==
  ASSUME IInv, NEW o \in Objects, CreateFails(o)
  PROVE  IInv'
<1> USE IdsAssumption DEF IInv, Handles
<1>1. TypeOK'
  BY DEF TypeOK, CreateFails, Begin, Hold, NoChange
<1>2. NothingLeaks'
  BY DEF TypeOK, CreateFails, Begin, Hold, NoChange, NothingLeaks, SoleOwner, Open, OwnedBy
<1>3. SoleOwner'
  BY DEF TypeOK, CreateFails, Begin, Hold, NoChange, NothingLeaks, SoleOwner, Open, OwnedBy
<1> QED BY <1>1, <1>2, <1>3

(* Adopt keeps the ownership of every identifier. *)
LEMMA AdoptKeeps ==
  ASSUME IInv, NEW o \in Objects, NEW h \in Handles, Adopt(o, h)
  PROVE  IInv'
<1> USE IdsAssumption DEF IInv, Handles
<1>1. TypeOK'
  BY DEF TypeOK, Adopt, Begin, Hold, NoChange
<1>2. NothingLeaks'
  BY DEF TypeOK, Adopt, Begin, Hold, NoChange, NothingLeaks, SoleOwner, Open, OwnedBy
<1>3. SoleOwner'
  BY DEF TypeOK, Adopt, Begin, Hold, NoChange, NothingLeaks, SoleOwner, Open, OwnedBy
<1> QED BY <1>1, <1>2, <1>3

(* AdoptPredefined keeps the ownership of every identifier. *)
LEMMA AdoptPredefinedKeeps ==
  ASSUME IInv, NEW o \in Objects, AdoptPredefined(o)
  PROVE  IInv'
<1> USE IdsAssumption DEF IInv, Handles
<1>1. TypeOK'
  BY DEF TypeOK, AdoptPredefined, Begin, Hold, NoChange
<1>2. NothingLeaks'
  BY DEF TypeOK, AdoptPredefined, Begin, Hold, NoChange, NothingLeaks, SoleOwner, Open, OwnedBy
<1>3. SoleOwner'
  BY DEF TypeOK, AdoptPredefined, Begin, Hold, NoChange, NothingLeaks, SoleOwner, Open, OwnedBy
<1> QED BY <1>1, <1>2, <1>3

(* QueryClass keeps the ownership of every identifier but the new one. *)
LEMMA QueryClassKeeps ==
  ASSUME IInv, NEW o \in Objects, NEW i \in Ids, QueryClass(o, i)
  PROVE  IInv'
<1> USE IdsAssumption DEF IInv, Handles
<1>1. TypeOK'
  BY DEF TypeOK, QueryClass, Fresh
<1>2. NothingLeaks'
  BY DEF TypeOK, QueryClass, Fresh, NothingLeaks, SoleOwner, Open, OwnedBy
<1>3. SoleOwner'
  BY DEF TypeOK, QueryClass, Fresh, NothingLeaks, SoleOwner, Open, OwnedBy
<1> QED BY <1>1, <1>2, <1>3

(* Observe keeps the ownership of every identifier. *)
LEMMA ObserveKeeps ==
  ASSUME IInv, NEW o \in Objects, NEW h \in Handles, Observe(o, h)
  PROVE  IInv'
<1> USE IdsAssumption DEF IInv, Handles
<1>1. TypeOK'
  BY DEF TypeOK, Observe, Begin, Hold, NoChange
<1>2. NothingLeaks'
  BY DEF TypeOK, Observe, Begin, Hold, NoChange, NothingLeaks, SoleOwner, Open, OwnedBy
<1>3. SoleOwner'
  BY DEF TypeOK, Observe, Begin, Hold, NoChange, NothingLeaks, SoleOwner, Open, OwnedBy
<1> QED BY <1>1, <1>2, <1>3

(* MoveConstruct keeps the ownership of every identifier. *)
LEMMA MoveConstructKeeps ==
  ASSUME IInv, NEW o \in Objects, NEW p \in Objects, MoveConstruct(o, p)
  PROVE  IInv'
<1> USE IdsAssumption DEF IInv, Handles
<1>1. TypeOK'
  BY DEF TypeOK, MoveConstruct, Transfer, NoChange
<1>2. NothingLeaks'
  BY DEF TypeOK, MoveConstruct, Transfer, NoChange, NothingLeaks, SoleOwner, Open, OwnedBy
<1>3. SoleOwner'
  BY DEF TypeOK, MoveConstruct, Transfer, NoChange, NothingLeaks, SoleOwner, Open, OwnedBy
<1> QED BY <1>1, <1>2, <1>3

(* CopyConstruct keeps the ownership of every identifier. *)
LEMMA CopyConstructKeeps ==
  ASSUME IInv, NEW o \in Objects, NEW p \in Objects, NEW h \in Handles, CopyConstruct(o, p, h)
  PROVE  IInv'
<1> USE IdsAssumption DEF IInv, Handles
<1>1. TypeOK'
  BY DEF TypeOK, CopyConstruct, Copy, Fresh, Begin, Hold
<1>2. NothingLeaks'
  BY DEF TypeOK, CopyConstruct, Copy, Fresh, Begin, Hold, NothingLeaks, SoleOwner, Open, OwnedBy
<1>3. SoleOwner'
  BY DEF TypeOK, CopyConstruct, Copy, Fresh, Begin, Hold, NothingLeaks, SoleOwner, Open, OwnedBy
<1> QED BY <1>1, <1>2, <1>3

(* MoveAssign keeps the ownership of every identifier. *)
LEMMA MoveAssignKeeps ==
  ASSUME IInv, NEW o \in Objects, NEW p \in Objects, MoveAssign(o, p)
  PROVE  IInv'
<1> USE IdsAssumption DEF IInv, Handles
<1>1. TypeOK'
  BY DEF TypeOK, MoveAssign, NoChange
<1>2. NothingLeaks'
  BY DEF TypeOK, MoveAssign, NoChange, NothingLeaks, SoleOwner, Open, OwnedBy
<1>3. SoleOwner'
  BY DEF TypeOK, MoveAssign, NoChange, NothingLeaks, SoleOwner, Open, OwnedBy
<1> QED BY <1>1, <1>2, <1>3

(* CopyAssignFails keeps the ownership of every identifier. *)
LEMMA CopyAssignFailsKeeps ==
  ASSUME IInv, NEW o \in Objects, NEW p \in Objects, CopyAssignFails(o, p)
  PROVE  IInv'
<1> USE IdsAssumption DEF IInv, Handles
<1>1. TypeOK'
  BY DEF TypeOK, CopyAssignFails, TearDown, Close, Hold
<1>2. NothingLeaks'
  BY DEF TypeOK, CopyAssignFails, TearDown, Close, Hold, NothingLeaks, SoleOwner, Open, OwnedBy
<1>3. SoleOwner'
  BY DEF TypeOK, CopyAssignFails, TearDown, Close, Hold, NothingLeaks, SoleOwner, Open, OwnedBy
<1> QED BY <1>1, <1>2, <1>3

(* CopyAssign keeps the ownership of every identifier. *)
LEMMA CopyAssignKeeps ==
  ASSUME IInv, NEW o \in Objects, NEW p \in Objects, NEW h \in Handles, CopyAssign(o, p, h)
  PROVE  IInv'
<1> USE IdsAssumption DEF IInv, Handles
<1>1. TypeOK'
  BY DEF TypeOK, CopyAssign, Copy, Fresh, ReplaceBy, Hold
<1>2. NothingLeaks'
  BY DEF TypeOK, CopyAssign, Copy, Fresh, ReplaceBy, Hold, NothingLeaks, SoleOwner, Open, OwnedBy
<1>3. SoleOwner'
  BY DEF TypeOK, CopyAssign, Copy, Fresh, ReplaceBy, Hold, NothingLeaks, SoleOwner, Open, OwnedBy
<1> QED BY <1>1, <1>2, <1>3

(* Reset keeps the ownership of every identifier. *)
LEMMA ResetKeeps ==
  ASSUME IInv, NEW o \in Objects, NEW h \in {Invalid, Default}, Reset(o, h)
  PROVE  IInv'
<1> USE IdsAssumption DEF IInv, Handles
<1>1. TypeOK'
  BY DEF TypeOK, Reset, TearDown, Close, Hold
<1>2. NothingLeaks'
  BY DEF TypeOK, Reset, TearDown, Close, Hold, NothingLeaks, SoleOwner, Open, OwnedBy
<1>3. SoleOwner'
  BY DEF TypeOK, Reset, TearDown, Close, Hold, NothingLeaks, SoleOwner, Open, OwnedBy
<1> QED BY <1>1, <1>2, <1>3

(* ResetTo keeps the ownership of every identifier. *)
LEMMA ResetToKeeps ==
  ASSUME IInv, NEW o \in Objects, NEW i \in Ids, ResetTo(o, i)
  PROVE  IInv'
<1> USE IdsAssumption DEF IInv, Handles
<1>1. TypeOK'
  BY DEF TypeOK, ResetTo, TearDown, Close, Hold
<1>2. NothingLeaks'
  BY DEF TypeOK, ResetTo, TearDown, Close, Hold, NothingLeaks, SoleOwner, Open, OwnedBy
<1>3. SoleOwner'
  BY DEF TypeOK, ResetTo, TearDown, Close, Hold, NothingLeaks, SoleOwner, Open, OwnedBy
<1> QED BY <1>1, <1>2, <1>3

(* Release keeps the ownership of every identifier. *)
LEMMA ReleaseKeeps ==
  ASSUME IInv, NEW o \in Objects, Release(o)
  PROVE  IInv'
<1> USE IdsAssumption DEF IInv, Handles
<1>1. TypeOK'
  BY DEF TypeOK, Release, Hold, NoChange
<1>2. NothingLeaks'
  BY DEF TypeOK, Release, Hold, NoChange, NothingLeaks, SoleOwner, Open, OwnedBy
<1>3. SoleOwner'
  BY DEF TypeOK, Release, Hold, NoChange, NothingLeaks, SoleOwner, Open, OwnedBy
<1> QED BY <1>1, <1>2, <1>3

(* Destroy keeps the ownership of every identifier. *)
LEMMA DestroyKeeps ==
  ASSUME IInv, NEW o \in Objects, Destroy(o)
  PROVE  IInv'
<1> USE IdsAssumption DEF IInv, Handles
<1>1. TypeOK'
  BY DEF TypeOK, Destroy, TearDown, Close, Hold
<1>2. NothingLeaks'
  BY DEF TypeOK, Destroy, TearDown, Close, Hold, NothingLeaks, SoleOwner, Open, OwnedBy
<1>3. SoleOwner'
  BY DEF TypeOK, Destroy, TearDown, Close, Hold, NothingLeaks, SoleOwner, Open, OwnedBy
<1> QED BY <1>1, <1>2, <1>3

(* UserOpens keeps the ownership of every identifier. *)
LEMMA UserOpensKeeps ==
  ASSUME IInv, NEW i \in Ids, UserOpens(i)
  PROVE  IInv'
<1> USE IdsAssumption DEF IInv, Handles
<1>1. TypeOK'
  BY DEF TypeOK, UserOpens, Fresh
<1>2. NothingLeaks'
  BY DEF TypeOK, UserOpens, Fresh, NothingLeaks, SoleOwner, Open, OwnedBy
<1>3. SoleOwner'
  BY DEF TypeOK, UserOpens, Fresh, NothingLeaks, SoleOwner, Open, OwnedBy
<1> QED BY <1>1, <1>2, <1>3

(* UserCloses keeps the ownership of every identifier. *)
LEMMA UserClosesKeeps ==
  ASSUME IInv, NEW i \in Ids, UserCloses(i)
  PROVE  IInv'
<1> USE IdsAssumption DEF IInv, Handles
<1>1. TypeOK'
  BY DEF TypeOK, UserCloses
<1>2. NothingLeaks'
  BY DEF TypeOK, UserCloses, NothingLeaks, SoleOwner, Open, OwnedBy
<1>3. SoleOwner'
  BY DEF TypeOK, UserCloses, NothingLeaks, SoleOwner, Open, OwnedBy
<1> QED BY <1>1, <1>2, <1>3

(* SetMode keeps the ownership of every identifier. *)
LEMMA SetModeKeeps ==
  ASSUME IInv, SetMode
  PROVE  IInv'
<1> USE IdsAssumption DEF IInv, Handles
<1>1. TypeOK'
  BY DEF TypeOK, SetMode
<1>2. NothingLeaks'
  BY DEF TypeOK, SetMode, NothingLeaks, SoleOwner, Open, OwnedBy
<1>3. SoleOwner'
  BY DEF TypeOK, SetMode, NothingLeaks, SoleOwner, Open, OwnedBy
<1> QED BY <1>1, <1>2, <1>3

(* A step of a program that uses some or all of the objects: one lemma     *)
(* per action.                                                             *)
LEMMA ProgramKeeps ==
  ASSUME IInv, NEW objects \in SUBSET Objects, Program(objects)
  PROVE  IInv'
<1>1. ASSUME NEW o \in objects, Construct(o) PROVE IInv'
  BY <1>1, DefaultConstructKeeps, CreateKeeps, CreateFailsKeeps, AdoptKeeps, AdoptPredefinedKeeps,
     ObserveKeeps, MoveConstructKeeps, CopyConstructKeeps DEF Construct
<1>2. ASSUME NEW o \in objects, Change(o) PROVE IInv'
  BY <1>2, MoveAssignKeeps, CopyAssignFailsKeeps, CopyAssignKeeps, ResetKeeps,
     ResetToKeeps, QueryClassKeeps, ReleaseKeeps, DestroyKeeps DEF Change
<1>3. ASSUME NEW i \in Ids, UserOpens(i) \/ UserCloses(i) PROVE IInv'
  BY <1>3, UserOpensKeeps, UserClosesKeeps
<1>4. CASE SetMode
  BY <1>4, SetModeKeeps
<1> QED BY <1>1, <1>2, <1>3, <1>4 DEF Program

(* Every step keeps the invariant. *)
LEMMA StepIInv == IInv /\ [Next]_vars => IInv'
<1> SUFFICES ASSUME IInv, [Next]_vars PROVE IInv' OBVIOUS
<1>1. CASE UNCHANGED vars
  BY <1>1 DEF vars, IInv, TypeOK, NothingLeaks, SoleOwner, Open, OwnedBy
<1>2. CASE Next
  BY <1>2, ProgramKeeps DEF Next
<1> QED BY <1>1, <1>2

-----------------------------------------------------------------------------
(* TypeOK, NothingLeaks and SoleOwner hold together in every reachable     *)
(* state; each needs the others to be preserved.                           *)
THEOREM Invariance == Spec => []IInv
  BY InitIInv, StepIInv, PTL DEF Spec

(* Every handle, owner and state of an identifier is one that the classes  *)
(* know; an object that is gone owns nothing.                              *)
THEOREM TypeCorrect == Spec => []TypeOK
<1>1. IInv => TypeOK BY DEF IInv
<1> QED BY <1>1, Invariance, PTL

(* An open identifier always has somebody who will close it (Resource.hpp  *)
(* and SimpleRAII.hpp: move, swap, copy, reset, release, destructor).      *)
THEOREM IdentifiersNeverLeak == Spec => []NothingLeaks
<1>1. IInv => NothingLeaks BY DEF IInv
<1> QED BY <1>1, Invariance, PTL

(* It has exactly one such owner, and is closed once: no copy of a handle  *)
(* keeps a teardown after a move, a swap or a release.                     *)
THEOREM IdentifiersClosedOnce == Spec => []SoleOwner
<1>1. IInv => SoleOwner BY DEF IInv
<1> QED BY <1>1, Invariance, PTL

-----------------------------------------------------------------------------
(* write_attribute().                                                      *)

allVars == <<vars, attributeVars>>

(* The locals exist during a call only, and what they own is an identifier *)
(* - or the -1 of a failure, if failures do not throw.                     *)
LocalsQuiet ==
  /\ step \in {"idle", "copy"} => Locals \cap alive = {}
  /\ throwing => \A o \in Locals \cap alive : ~ (owns[o] /\ handle[o] = Invalid)

(* What each statement finds in the file. *)
Progress ==
  /\ step \in {"copy", "size", "space", "create"} => attribute = before
  /\ step = "write" => before = "none" /\ attribute = "unwritten"

AttributeIInv == IInv /\ LocalsQuiet /\ Progress /\ TruthfulResult

LEMMA InitAttributeIInv == Init /\ AttributeInit => AttributeIInv
  BY InitIInv DEF Init, AttributeInit, AttributeIInv, LocalsQuiet, Progress, TruthfulResult

(* The program between the calls touches none of the locals. *)
LEMMA ProgramLeavesLocals ==
  ASSUME TypeOK, Program(Objects \ Locals), Locals \cap alive = {}
  PROVE  Locals \cap alive' = {}
<1>1. ASSUME NEW o \in Objects \ Locals, Construct(o) PROVE Locals \cap alive' = {}
  BY <1>1 DEF Construct, DefaultConstruct, Create, CreateFails, Adopt, AdoptPredefined, Observe,
     MoveConstruct, CopyConstruct, Begin
<1>2. ASSUME NEW o \in Objects \ Locals, Change(o) PROVE Locals \cap alive' = {}
  BY <1>2 DEF Change, MoveAssign, CopyAssign, CopyAssignFails, Reset, ResetTo, QueryClass,
     Release, Destroy
<1>3. ASSUME NEW i \in Ids, UserOpens(i) \/ UserCloses(i) PROVE Locals \cap alive' = {}
  BY <1>3 DEF UserOpens, UserCloses
<1>4. CASE SetMode
  BY <1>4 DEF SetMode
<1> QED BY <1>1, <1>2, <1>3, <1>4 DEF Program

(* Making a local keeps the locals quiet. *)
LEMMA CreateQuiet ==
  ASSUME TypeOK, LocalsQuiet, NEW o \in Locals, NEW i \in Ids, Create(o, i)
  PROVE  throwing' => \A p \in Locals \cap alive' : ~ (owns'[p] /\ handle'[p] = Invalid)
  BY IdsAssumption, LocalsAssumption DEF TypeOK, LocalsQuiet, Create, Begin, Hold

LEMMA FailedIdentifierQuiet ==
  ASSUME IInv, LocalsQuiet, NEW o \in Locals, FailedIdentifier(o)
  PROVE  /\ IInv'
         /\ throwing' => \A p \in Locals \cap alive' : ~ (owns'[p] /\ handle'[p] = Invalid)
         /\ step' = "leave"
         /\ result' \in {"failed", "exception"}
<1> USE IdsAssumption, LocalsAssumption
<1>1. step' = "leave" /\ result' \in {"failed", "exception"}
  BY DEF FailedIdentifier, Leave, Failure
<1>2. CASE throwing /\ UNCHANGED vars
  <2>1. IInv'
    BY <1>2, StepIInv
  <2> QED BY <1>1, <1>2, <2>1 DEF LocalsQuiet, vars
<1>3. CASE Adopt(o, Invalid)
  <2>1. Invalid \notin users
    BY DEF IInv, TypeOK
  <2>2. ~ throwing'
    BY <1>3, <2>1 DEF Adopt
  <2>3. IInv'
    BY <1>3, AdoptKeeps DEF Handles
  <2> QED BY <1>1, <2>2, <2>3
<1> QED BY <1>2, <1>3 DEF FailedIdentifier

-----------------------------------------------------------------------------
LEMMA CallKeeps == ASSUME AttributeIInv, Call PROVE AttributeIInv'
<1>1. IInv'
  BY StepIInv DEF AttributeIInv, Call
<1> QED BY <1>1 DEF AttributeIInv, LocalsQuiet, Progress, TruthfulResult, Call, vars

LEMMA CopyTypeKeeps == ASSUME AttributeIInv, CopyType PROVE AttributeIInv'
<1> USE LocalsAssumption DEF AttributeIInv
<1>1. ASSUME NEW i \in Ids, Create(StringType, i), step' = "size" PROVE AttributeIInv'
  <2>1. IInv'
    BY <1>1, CreateKeeps DEF Locals
  <2>2. throwing' => \A p \in Locals \cap alive' : ~ (owns'[p] /\ handle'[p] = Invalid)
    BY <1>1, CreateQuiet DEF IInv, Locals
  <2> QED BY <1>1, <2>1, <2>2 DEF LocalsQuiet, Progress, TruthfulResult, CopyType
<1>2. CASE FailedIdentifier(StringType)
  BY <1>2, FailedIdentifierQuiet DEF CopyType, Locals, LocalsQuiet, Progress, TruthfulResult
<1> QED BY <1>1, <1>2 DEF CopyType

LEMMA SetSizeKeeps == ASSUME AttributeIInv, SetSize PROVE AttributeIInv'
<1>1. IInv'
  BY StepIInv DEF AttributeIInv, SetSize
<1> QED BY <1>1 DEF AttributeIInv, LocalsQuiet, Progress, TruthfulResult, SetSize, Leave, Failure, vars

LEMMA MakeSpaceKeeps == ASSUME AttributeIInv, MakeSpace PROVE AttributeIInv'
<1> USE LocalsAssumption DEF AttributeIInv
<1>1. ASSUME NEW i \in Ids, Create(Space, i), step' = "create" PROVE AttributeIInv'
  <2>1. IInv'
    BY <1>1, CreateKeeps DEF Locals
  <2>2. throwing' => \A p \in Locals \cap alive' : ~ (owns'[p] /\ handle'[p] = Invalid)
    BY <1>1, CreateQuiet DEF IInv, Locals
  <2> QED BY <1>1, <2>1, <2>2 DEF LocalsQuiet, Progress, TruthfulResult, MakeSpace
<1>2. CASE CreateFails(Space) /\ Leave(Failure)
  <2>1. IInv'
    BY <1>2, CreateFailsKeeps DEF Locals
  <2> QED BY <1>2, <2>1 DEF CreateFails, MakeSpace, Leave, Failure, LocalsQuiet, Progress, TruthfulResult
<1>3. CASE throwing /\ UNCHANGED vars /\ Leave(Failure)
  <2>1. IInv'
    BY <1>3, StepIInv
  <2> QED BY <1>3, <2>1 DEF MakeSpace, Leave, Failure, LocalsQuiet, Progress, TruthfulResult, vars
<1> QED BY <1>1, <1>2, <1>3 DEF MakeSpace

LEMMA CreateAttributeKeeps == ASSUME AttributeIInv, CreateAttribute PROVE AttributeIInv'
<1> USE LocalsAssumption DEF AttributeIInv
<1>1. ASSUME attribute = "none", NEW i \in Ids, Create(AttributeId, i), attribute' = "unwritten",
             step' = "write"
      PROVE  AttributeIInv'
  <2>1. IInv'
    BY <1>1, CreateKeeps DEF Locals
  <2>2. throwing' => \A p \in Locals \cap alive' : ~ (owns'[p] /\ handle'[p] = Invalid)
    BY <1>1, CreateQuiet DEF IInv, Locals
  <2> QED BY <1>1, <2>1, <2>2 DEF LocalsQuiet, Progress, TruthfulResult, CreateAttribute
<1>2. CASE FailedIdentifier(AttributeId) /\ UNCHANGED attribute
  BY <1>2, FailedIdentifierQuiet DEF CreateAttribute, Locals, LocalsQuiet, Progress, TruthfulResult
<1> QED BY <1>1, <1>2 DEF CreateAttribute

LEMMA WriteKeeps == ASSUME AttributeIInv, Write PROVE AttributeIInv'
<1>1. IInv'
  BY StepIInv DEF AttributeIInv, Write
<1> QED BY <1>1 DEF AttributeIInv, LocalsQuiet, Progress, TruthfulResult, Write, Leave, Failure, vars

LEMMA DestroyLocalKeeps ==
  ASSUME AttributeIInv, NEW o \in Locals, DestroyLocal(o)
  PROVE  AttributeIInv' /\ result' = result
<1> USE LocalsAssumption DEF AttributeIInv
<1>1. IInv'
  BY DestroyKeeps DEF DestroyLocal
<1>2. result' = result
  BY DEF DestroyLocal, TeardownThrows, LocalsQuiet
<1>3. LocalsQuiet'
  BY DEF LocalsQuiet, DestroyLocal, Destroy, Hold, IInv, TypeOK
<1> QED BY <1>1, <1>2, <1>3 DEF DestroyLocal, Progress, TruthfulResult

LEMMA ReturnKeeps == ASSUME AttributeIInv, Return PROVE AttributeIInv'
<1>1. IInv'
  BY StepIInv DEF AttributeIInv, Return
<1> QED BY <1>1 DEF AttributeIInv, LocalsQuiet, Progress, TruthfulResult, Return, vars

LEMMA ProgramStepKeeps ==
  ASSUME AttributeIInv, step = "idle", Program(Objects \ Locals), UNCHANGED attributeVars
  PROVE  AttributeIInv'
<1>1. IInv'
  BY ProgramKeeps DEF AttributeIInv
<1>2. Locals \cap alive' = {}
  BY ProgramLeavesLocals DEF AttributeIInv, IInv, LocalsQuiet
<1> QED BY <1>1, <1>2 DEF AttributeIInv, LocalsQuiet, Progress, TruthfulResult, attributeVars

(* Every step keeps the invariant: one lemma per action. *)
LEMMA StepAttributeIInv == AttributeIInv /\ [AttributeNext]_allVars => AttributeIInv'
<1> SUFFICES ASSUME AttributeIInv, [AttributeNext]_allVars PROVE AttributeIInv' OBVIOUS
<1>1. CASE UNCHANGED allVars
  <2>1. IInv'
    BY <1>1, StepIInv DEF AttributeIInv, allVars
  <2> QED BY <1>1, <2>1 DEF AttributeIInv, LocalsQuiet, Progress, TruthfulResult, allVars, vars,
          attributeVars
<1>2. CASE WriteAttribute
  BY <1>2, CallKeeps, CopyTypeKeeps, SetSizeKeeps, MakeSpaceKeeps, CreateAttributeKeeps, WriteKeeps,
     DestroyLocalKeeps, ReturnKeeps DEF WriteAttribute
<1>3. CASE step = "idle" /\ Program(Objects \ Locals) /\ UNCHANGED attributeVars
  BY <1>3, ProgramStepKeeps
<1> QED BY <1>1, <1>2, <1>3 DEF AttributeNext

-----------------------------------------------------------------------------
(* The invariant of write_attribute() and of the program around it. *)
THEOREM AttributeInvariance == AttributeSpec => []AttributeIInv
  BY InitAttributeIInv, StepAttributeIInv, PTL DEF AttributeSpec, allVars

(* The identifiers of the locals are closed, once, on every way out of     *)
(* write_attribute(): the ownership of Resource holds throughout.          *)
THEOREM LocalsNeverLeak == AttributeSpec => [](NothingLeaks /\ SoleOwner)
<1>1. AttributeIInv => NothingLeaks /\ SoleOwner BY DEF AttributeIInv, IInv
<1> QED BY <1>1, AttributeInvariance, PTL

(* write_attribute() returns success exactly if this call has created and  *)
(* written the attribute.                                                  *)
THEOREM ResultIsTruthful == AttributeSpec => []TruthfulResult
<1>1. AttributeIInv => TruthfulResult BY DEF AttributeIInv
<1> QED BY <1>1, AttributeInvariance, PTL

(* No destructor of a local changes the outcome by throwing. *)
THEOREM ReturnIsQuiet == AttributeSpec => QuietReturn
<1>1. AttributeIInv /\ [AttributeNext]_allVars => [step = "leave" => result' = result]_allVars
  <2> SUFFICES ASSUME AttributeIInv, AttributeNext, step = "leave" PROVE result' = result
    BY DEF allVars, attributeVars
  <2>1. CASE \E o \in Locals : DestroyLocal(o)
    BY <2>1, DestroyLocalKeeps
  <2>2. CASE Return
    BY <2>2 DEF Return
  <2> QED BY <2>1, <2>2 DEF AttributeNext, WriteAttribute, Call, CopyType, SetSize, MakeSpace,
          CreateAttribute, Write
<1> QED BY <1>1, AttributeInvariance, PTL DEF AttributeSpec, QuietReturn, allVars

-----------------------------------------------------------------------------
(* make_column() and makeDataset().                                        *)

columnAllVars == <<vars, columnVars>>

ColumnTypeOK ==
  /\ throwing \in BOOLEAN
  /\ stage \in {"idle", "lists", "column", "dataset", "refused"}
  /\ props \in Seq(UserLists)
  /\ perChunk \in ChunkRows \cup {Omitted}
  /\ next \in 1 .. Len(props) + 1
  /\ slots \in [Roles -> Lists \cup {Default, Invalid}]

(* Which of the arguments before position `n' are of role `r'.             *)
GivenBefore(r, n) == {i \in 1 .. n - 1 : RoleOf(props[i]) = r}

(* The arguments that have been looked at are of different roles, and each *)
(* of them is in its slot, or its copy has failed.                         *)
Sorted(n) ==
  /\ \A i \in 1 .. n - 1 : RoleOf(props[i]) \in Roles
  /\ \A r \in Roles : \A i, j \in GivenBefore(r, n) : i = j
  /\ \A r \in Roles : GivenBefore(r, n) = {} => slots[r] = Default
  /\ \A r \in Roles : \A i \in GivenBefore(r, n) :
       \/ slots[r] = props[i]
       \/ slots[r] = Invalid /\ hushed /\ ~ throwing

(* What a column should have for role `r'.                                 *)
Own(r) == IF Given(r) = {} THEN Default ELSE props[CHOOSE i \in Given(r) : TRUE]

Wanted(r) ==
  IF r = "create" /\ perChunk # Omitted
  THEN List(r, perChunk, IF Own(r) = Default THEN FALSE ELSE Own(r).deflate)
  ELSE Own(r)

(* A column has it, or a copy that has failed and cannot be used - unless  *)
(* a failure was hushed up.                                                *)
SlotsKept ==
  \/ perChunk # 0 /\ \A r \in Roles : slots[r] \in {Wanted(r), Invalid}
  \/ hushed /\ ~ throwing

ColumnIInv ==
  /\ ColumnTypeOK
  /\ stage = "idle" => next = 1 /\ slots = [r \in Roles |-> Default]
  /\ stage = "lists" => Sorted(next)
  /\ stage \in {"column", "dataset"} => Acceptable
  /\ stage = "column" => SlotsKept
  /\ DatasetAsRequested

LEMMA InitColumnIInv == Init /\ ColumnInit => ColumnIInv
  BY DEF Init, ColumnInit, ColumnIInv, ColumnTypeOK, DatasetAsRequested

(* What the lists given to setColumnProperties() are.                      *)
LEMMA ListFacts ==
  ASSUME NEW l \in UserLists
  PROVE  /\ l \in Lists \cup {Default}
         /\ l # Invalid
         /\ l = Default => RoleOf(l) \notin Roles
         /\ RoleOf(l) \in Roles => l \in Lists /\ l.class = RoleOf(l) /\ Usable(l)
<1>1. Default # Invalid
  BY IdsAssumption
<1>2. l \in Lists \cup {Default} /\ Default \notin Lists /\ Invalid \notin Lists
  BY ListsAssumption
<1> QED
  BY <1>1, <1>2 DEF RoleOf, Roles, Usable

LEMMA MakeColumnIInv ==
  ASSUME ColumnIInv, NEW n \in 0 .. MaxLists, NEW lists \in [1 .. n -> UserLists],
         NEW rows \in ChunkRows \cup {Omitted}, MakeColumn(lists, rows),
         UNCHANGED vars
  PROVE  ColumnIInv'
<1>1. n \in Nat /\ lists \in Seq(UserLists)
  BY MaxListsAssumption
<1>2. ColumnTypeOK'
  BY <1>1 DEF ColumnIInv, ColumnTypeOK, MakeColumn, vars
<1>3. Sorted(next)'
  BY DEF Sorted, GivenBefore, MakeColumn, ColumnIInv
<1>4. stage' = "lists"
  BY DEF MakeColumn
<1> QED
  BY <1>2, <1>3, <1>4 DEF ColumnIInv, DatasetAsRequested

LEMMA TakeListIInv ==
  ASSUME ColumnIInv, TakeList, UNCHANGED vars
  PROVE  ColumnIInv'
<1> DEFINE l == props[next]
<1>1. /\ stage = "lists" /\ next \in 1 .. Len(props) /\ next' = next + 1
      /\ UNCHANGED <<props, perChunk, dataset, throwing>>
      /\ props \in Seq(UserLists)
      /\ slots \in [Roles -> Lists \cup {Default, Invalid}]
      /\ Sorted(next)
  BY DEF ColumnIInv, ColumnTypeOK, TakeList, vars
<1>2. l \in UserLists
  BY <1>1
<1>3. /\ stage' \in {"lists", "refused"}
      /\ slots' \in [Roles -> Lists \cup {Default, Invalid}]
  <2>1. CASE RoleOf(l) \in Roles /\ TakeCopy(l)
    <3>1. l \in Lists
      BY <1>2, <2>1, ListFacts
    <3> QED
      BY <1>1, <2>1, <3>1 DEF TakeCopy, Refuse
  <2>2. CASE UNCHANGED slots /\ Refuse
    BY <1>1, <2>2 DEF Refuse
  <2> QED
    BY <2>1, <2>2 DEF TakeList
<1>4. ASSUME stage' = "lists" PROVE Sorted(next)'
  <2>1. RoleOf(l) \in Roles /\ TakeCopy(l)
    BY <1>4 DEF TakeList, Refuse
  <2>2. l.class = RoleOf(l) /\ l.class \in Roles
    BY <1>2, <2>1, ListFacts
  <2>3. /\ slots[l.class] = Default
        /\ \/ slots' = [slots EXCEPT ![l.class] = l] /\ UNCHANGED hushed
           \/ slots' = [slots EXCEPT ![l.class] = Invalid] /\ hushed' /\ ~ throwing
    BY <1>1, <1>4, <2>1 DEF TakeCopy, Refuse
  <2>4. GivenBefore(l.class, next) = {}
    <3> SUFFICES ASSUME NEW i \in GivenBefore(l.class, next) PROVE FALSE
      OBVIOUS
    <3>1. slots[l.class] = props[i] \/ slots[l.class] = Invalid
      BY <1>1, <2>2 DEF Sorted
    <3>2. props[i] \in UserLists /\ RoleOf(props[i]) = l.class
      BY <1>1 DEF GivenBefore
    <3>3. props[i] # Default
      BY <2>2, <3>2, ListFacts
    <3> QED
      BY <2>3, <3>1, <3>3, IdsAssumption
  <2>5. \A r \in Roles : GivenBefore(r, next)' =
                           IF r = l.class THEN {next} ELSE GivenBefore(r, next)
    <3>1. next \in Nat \ {0} /\ next' - 1 = next /\ UNCHANGED props
      BY <1>1
    <3>2. 1 .. next = (1 .. next - 1) \cup {next}
      BY <3>1
    <3>3. \A r \in Roles : GivenBefore(r, next)' = {i \in 1 .. next : RoleOf(props[i]) = r}
      BY <3>1 DEF GivenBefore, RoleOf
    <3>4. ASSUME NEW r \in Roles
          PROVE  GivenBefore(r, next)' = IF r = l.class THEN {next} ELSE GivenBefore(r, next)
      <4>1. GivenBefore(r, next)' =
              {i \in 1 .. next - 1 : RoleOf(props[i]) = r}
                \cup {i \in {next} : RoleOf(props[i]) = r}
        BY <3>2, <3>3
      <4>2. RoleOf(props[next]) = l.class
        BY <2>2
      <4> QED
        BY <2>4, <4>1, <4>2 DEF GivenBefore
    <3> QED
      BY <3>4
  <2>6. \A i \in 1 .. next : RoleOf(props[i]) \in Roles
    BY <1>1, <2>1 DEF Sorted
  <2>7. hushed => hushed'
    BY <2>3
  <2>8. ASSUME NEW r \in Roles
        PROVE  /\ GivenBefore(r, next)' = {} => slots'[r] = Default
               /\ \A i \in GivenBefore(r, next)' :
                    \/ slots'[r] = props[i]
                    \/ slots'[r] = Invalid /\ hushed' /\ ~ throwing
               /\ \A i, j \in GivenBefore(r, next)' : i = j
    <3>1. CASE r = l.class
      <4>1. GivenBefore(r, next)' = {next}
        BY <2>5, <3>1
      <4>2. slots'[r] = l \/ (slots'[r] = Invalid /\ hushed' /\ ~ throwing)
        BY <1>1, <2>2, <2>3, <3>1
      <4> QED
        BY <4>1, <4>2
    <3>2. CASE r # l.class
      <4>1. GivenBefore(r, next)' = GivenBefore(r, next)
        BY <2>5, <3>2
      <4>2. slots'[r] = slots[r]
        BY <1>1, <2>3, <3>2
      <4> QED
        BY <1>1, <2>7, <4>1, <4>2 DEF Sorted
    <3> QED
      BY <3>1, <3>2
  <2>9. \A i \in 1 .. next' - 1 : RoleOf(props'[i]) \in Roles
    BY <1>1, <2>6
  <2> QED
    BY <1>1, <2>8, <2>9 DEF Sorted
<1>5. ColumnTypeOK'
  BY <1>1, <1>3 DEF ColumnIInv, ColumnTypeOK, vars
<1> QED
  BY <1>1, <1>3, <1>4, <1>5 DEF ColumnIInv, DatasetAsRequested

(* Once all lists have been sorted, each role has what it was given.       *)
LEMMA SortedLists ==
  ASSUME ColumnTypeOK, Sorted(Len(props) + 1)
  PROVE  /\ Acceptable
         /\ \A r \in Roles :
              \/ /\ slots[r] = Own(r)
                 /\ Own(r) = Default \/ (Own(r) \in Lists /\ Own(r).class = r)
              \/ hushed /\ ~ throwing
<1>1. Len(props) \in Nat /\ props \in Seq(UserLists)
  BY DEF ColumnTypeOK
<1>2. \A r \in Roles : GivenBefore(r, Len(props) + 1) = Given(r)
  BY <1>1 DEF GivenBefore, Given
<1>3. \A i \in 1 .. Len(props) : RoleOf(props[i]) \in Roles
  BY <1>1 DEF Sorted
<1>4. Acceptable
  <2>1. ASSUME NEW r \in Roles, NEW m \in 1 .. Len(props), NEW n \in 1 .. Len(props),
               {m, n} \subseteq Given(r)
        PROVE  m = n
    BY <1>2, <2>1 DEF Sorted
  <2> QED
    BY <1>3, <2>1 DEF Acceptable
<1>5. ASSUME NEW r \in Roles
      PROVE  \/ /\ slots[r] = Own(r)
                /\ Own(r) = Default \/ (Own(r) \in Lists /\ Own(r).class = r)
             \/ hushed /\ ~ throwing
  <2>1. CASE Given(r) = {}
    BY <1>2, <2>1 DEF Sorted, Own
  <2>2. CASE Given(r) # {}
    <3>1. PICK i \in Given(r) : Own(r) = props[i]
      BY <2>2 DEF Own
    <3>2. props[i] \in UserLists /\ RoleOf(props[i]) = r
      BY <1>1 DEF Given
    <3>3. Own(r) \in Lists /\ Own(r).class = r
      BY <3>1, <3>2, ListFacts
    <3>4. slots[r] = props[i] \/ (hushed /\ ~ throwing)
      BY <1>2 DEF Sorted
    <3> QED
      BY <3>1, <3>3, <3>4
  <2> QED
    BY <2>1, <2>2
<1> QED
  BY <1>4, <1>5

LEMMA NewListTyped ==
  /\ List("create", 0, FALSE) \in Lists
  /\ List("create", 0, FALSE).class = "create"
  /\ List("create", 0, FALSE).deflate = FALSE
  BY DEF List, Lists, Roles

LEMMA SetPropertiesIInv ==
  ASSUME ColumnIInv, SetProperties, UNCHANGED vars
  PROVE  ColumnIInv'
<1>1. /\ stage = "lists" /\ next = Len(props) + 1
      /\ UNCHANGED <<props, perChunk, next, dataset, throwing>>
      /\ ColumnTypeOK
      /\ Sorted(Len(props) + 1)
      /\ perChunk \in ChunkRows \cup {Omitted}
      /\ slots \in [Roles -> Lists \cup {Default, Invalid}]
  BY DEF ColumnIInv, ColumnTypeOK, SetProperties, vars
<1>2. stage' \in {"column", "refused"}
  BY DEF SetProperties, Refuse
<1>3. Acceptable'
  <2>1. Acceptable
    BY <1>1, SortedLists
  <2> QED
    BY <1>1, <2>1 DEF Acceptable, Given, RoleOf
<1>4. "create" \in Roles /\ Default # Invalid
  BY IdsAssumption DEF Roles
<1>5. /\ ToBeChunked \in Lists \cup {Invalid}
      /\ perChunk # Omitted => \A l \in Lists : WithChunks(l) \in Lists
  <2>1. ToBeChunked \in Lists \cup {Invalid}
    BY <1>1, <1>4, NewListTyped DEF ToBeChunked
  <2>2. ASSUME perChunk # Omitted, NEW l \in Lists PROVE WithChunks(l) \in Lists
    <3>1. perChunk \in Nat
      BY <1>1, <2>2, ChunkRowsAssumption
    <3> QED
      BY <2>2, <3>1 DEF WithChunks, Lists
  <2> QED
    BY <2>1, <2>2
<1>6. slots' \in [Roles -> Lists \cup {Default, Invalid}]
  <2>1. ASSUME NEW chosen \in [Roles -> Lists \cup {Default, Invalid}]
        PROVE  ToColumn(chosen) \in [Roles -> Lists \cup {Default, Invalid}]
    BY DEF ToColumn
  <2>2. ASSUME NEW l \in Lists \cup {Invalid}
        PROVE  [slots EXCEPT !["create"] = l] \in [Roles -> Lists \cup {Default, Invalid}]
    BY <1>1
  <2>3. CASE UNCHANGED slots \/ slots' = ToColumn(slots)
    BY <1>1, <2>1, <2>3
  <2>4. CASE slots' = ToColumn([slots EXCEPT !["create"] = ToBeChunked])
    BY <1>5, <2>1, <2>2, <2>4
  <2>5. CASE /\ perChunk # Omitted /\ slots["create"] # Invalid
             /\ slots' = ToColumn([slots EXCEPT !["create"] = WithChunks(ToBeChunked)])
    <3>1. ToBeChunked \in Lists
      BY <1>1, <1>4, <2>5, NewListTyped DEF ToBeChunked
    <3> QED
      BY <1>5, <2>1, <2>2, <2>5, <3>1
  <2> QED
    BY <2>3, <2>4, <2>5 DEF SetProperties
<1>7. \A r \in Roles : Wanted(r)' = Wanted(r)
  BY <1>1 DEF Wanted, Own, Given, RoleOf
<1>8. ASSUME stage' = "column" PROVE SlotsKept'
  <2>1. CASE hushed' /\ ~ throwing
    BY <1>1, <2>1 DEF SlotsKept
  <2>2. CASE ~ (hushed' /\ ~ throwing)
    <3>1. /\ \/ perChunk = Omitted /\ slots' = ToColumn(slots)
             \/ /\ perChunk # Omitted /\ perChunk # 0
                /\ slots' = ToColumn([slots EXCEPT !["create"] = WithChunks(ToBeChunked)])
          /\ ~ (hushed /\ ~ throwing)
      BY <1>8, <2>2 DEF SetProperties, Refuse
    <3>2. \A r \in Roles : slots[r] = Own(r) /\
                           (Own(r) = Default \/ (Own(r) \in Lists /\ Own(r).class = r))
      BY <1>1, <3>1, SortedLists
    <3>3. ASSUME NEW r \in Roles PROVE slots'[r] = Wanted(r)
      <4>1. Own(r) = Default \/ (Own(r) # Invalid /\ Own(r) # Default)
        BY <3>2, ListsAssumption
      <4>2. CASE perChunk = Omitted \/ r # "create"
        BY <1>1, <3>1, <3>2, <4>1, <4>2 DEF ToColumn, Usable, Wanted
      <4>3. CASE perChunk # Omitted /\ r = "create"
        <5> DEFINE l == IF Own(r) = Default THEN List("create", 0, FALSE) ELSE Own(r)
        <5>1. ToBeChunked = l /\ l \in Lists /\ l.class = "create"
              /\ l.deflate = IF Own(r) = Default THEN FALSE ELSE Own(r).deflate
          BY <3>2, <4>1, <4>3, NewListTyped DEF ToBeChunked
        <5>2. Wanted(r) = List("create", perChunk, l.deflate)
          BY <4>3, <5>1 DEF Wanted
        <5> HIDE DEF l
        <5>3. WithChunks(l) = List("create", perChunk, l.deflate)
          BY <4>3, <5>1 DEF WithChunks, List, Lists
        <5>4. WithChunks(l) \in Lists
          BY <1>5, <4>3, <5>1
        <5>5. Usable(WithChunks(l))
          BY <5>4, ListsAssumption DEF Usable
        <5>6. slots'["create"] = WithChunks(l)
          BY <1>1, <1>4, <3>1, <4>3, <5>1, <5>5 DEF ToColumn
        <5> QED
          BY <4>3, <5>2, <5>3, <5>6
      <4> QED
        BY <4>2, <4>3
    <3>4. perChunk # 0
      BY <3>1, ChunkRowsAssumption
    <3> QED
      BY <1>1, <1>7, <3>3, <3>4 DEF SlotsKept
  <2> QED
    BY <2>1, <2>2
<1>9. ColumnTypeOK'
  BY <1>1, <1>2, <1>6 DEF ColumnTypeOK
<1> QED
  BY <1>2, <1>3, <1>8, <1>9 DEF ColumnIInv, DatasetAsRequested

LEMMA CopyColumnFailsIInv ==
  ASSUME ColumnIInv, CopyColumnFails, UNCHANGED vars
  PROVE  ColumnIInv'
<1>1. /\ stage = "column" /\ stage' \in {"column", "refused"}
      /\ UNCHANGED <<props, perChunk, next, dataset, hushed, throwing>>
      /\ slots \in [Roles -> Lists \cup {Default, Invalid}]
      /\ Acceptable /\ SlotsKept
  BY DEF ColumnIInv, ColumnTypeOK, CopyColumnFails, vars, Refuse
<1>2. /\ slots' \in [Roles -> Lists \cup {Default, Invalid}]
      /\ \A r \in Roles : slots'[r] \in {slots[r], Invalid}
  <2>1. \/ UNCHANGED slots
        \/ \E r \in Roles : slots' = [slots EXCEPT ![r] = Invalid]
    BY DEF CopyColumnFails
  <2> QED
    BY <1>1, <2>1
<1>3. SlotsKept'
  <2>1. \A r \in Roles : Wanted(r)' = Wanted(r)
    BY <1>1 DEF Wanted, Own, Given, RoleOf
  <2> QED
    BY <1>1, <1>2, <2>1 DEF SlotsKept
<1>4. Acceptable'
  BY <1>1 DEF Acceptable, Given, RoleOf
<1>5. ColumnTypeOK'
  BY <1>1, <1>2 DEF ColumnIInv, ColumnTypeOK
<1> QED
  BY <1>1, <1>3, <1>4, <1>5 DEF ColumnIInv, DatasetAsRequested

LEMMA OwnTyped ==
  ASSUME ColumnTypeOK, NEW r \in Roles
  PROVE  Own(r) = Default \/ (Own(r) \in Lists /\ Own(r).class = r)
<1>1. CASE Given(r) = {}
  BY <1>1 DEF Own
<1>2. CASE Given(r) # {}
  <2>1. PICK i \in Given(r) : Own(r) = props[i]
    BY <1>2 DEF Own
  <2>2. props[i] \in UserLists /\ RoleOf(props[i]) = r
    BY DEF Given, ColumnTypeOK
  <2> QED
    BY <2>1, <2>2, ListFacts
<1> QED
  BY <1>1, <1>2

LEMMA MakeColumnDatasetIInv ==
  ASSUME ColumnIInv, MakeColumnDataset, UNCHANGED vars
  PROVE  ColumnIInv'
<1>1. /\ stage = "column" /\ stage' \in {"dataset", "refused"}
      /\ UNCHANGED <<props, perChunk, next, slots, hushed, throwing>>
      /\ slots \in [Roles -> Lists \cup {Default, Invalid}]
      /\ Acceptable /\ SlotsKept
      /\ perChunk \in ChunkRows \cup {Omitted}
  BY DEF ColumnIInv, ColumnTypeOK, MakeColumnDataset, vars, Refuse
<1>2. ColumnTypeOK'
  BY <1>1 DEF ColumnIInv, ColumnTypeOK
<1>3. Acceptable'
  BY <1>1 DEF Acceptable, Given, RoleOf
<1>4. DatasetAsRequested'
  <2> SUFFICES ASSUME stage' = "dataset"
               PROVE  /\ dataset'["create"].rows > 0
                      /\ \/ \A r \in Roles : dataset'[r] = Requested(r)'
                         \/ hushed /\ ~ throwing
    BY <1>1, <1>3 DEF DatasetAsRequested
  <2>1. dataset' = Description /\ \A r \in Roles : Description[r] # Invalid
    BY DEF MakeColumnDataset, Refuse
  <2>2. \A r \in Roles : Requested(r)' = Requested(r)
    BY <1>1 DEF Requested, Given, RoleOf
  <2>3. "create" \in Roles /\ Default # Invalid
    BY IdsAssumption DEF Roles
  <2>4. /\ Description["create"] = CreationProperties(slots["create"])
        /\ \A r \in Roles : r # "create" => Description[r] = slots[r]
    BY <2>3 DEF Description
  <2>5. /\ slots["create"] # Invalid
        /\ \A r \in Roles : slots[r] # Invalid
    BY <2>1, <2>3, <2>4 DEF CreationProperties
  <2>6. slots["create"] \in Lists \cup {Default}
    BY <1>1, <2>3, <2>5
  <2>7. CreationProperties(slots["create"]).rows > 0
    <3>1. CASE slots["create"] = Default
      BY <3>1 DEF CreationProperties, List, DEFAULT_CHUNKING
    <3>2. CASE slots["create"] \in Lists
      <4> DEFINE l == slots["create"]
      <4>1. l \in Lists /\ l \notin {Default, Invalid}
        BY <3>2, ListsAssumption
      <4> HIDE DEF l
      <4>2. l.rows \in Nat /\ [l EXCEPT !.rows = 128].rows = 128
        BY <4>1 DEF Lists
      <4>3. CreationProperties(l) = IF l.rows = 0 THEN [l EXCEPT !.rows = 128] ELSE l
        BY <4>1 DEF CreationProperties, DEFAULT_CHUNKING
      <4>4. CASE l.rows = 0
        BY <4>2, <4>3, <4>4 DEF l
      <4>5. CASE l.rows # 0
        <5>1. CreationProperties(l).rows = l.rows
          BY <4>3, <4>5
        <5> QED
          BY <4>2, <4>5, <5>1 DEF l
      <4> QED
        BY <4>4, <4>5
    <3> QED
      BY <2>6, <3>1, <3>2
  <2>8. ASSUME ~ (hushed /\ ~ throwing), NEW r \in Roles
        PROVE  Description[r] = Requested(r)
    <3>1. slots[r] = Wanted(r) /\ perChunk # 0
      BY <1>1, <2>5, <2>8 DEF SlotsKept
    <3>2. CASE r # "create"
      BY <2>4, <3>1, <3>2 DEF Wanted, Own, Requested
    <3> DEFINE own == Own("create")
    <3>3. own = Default \/ (own \in Lists /\ own.class = "create" /\ own \notin {Default, Invalid})
      BY <2>3, OwnTyped, ListsAssumption DEF ColumnIInv
    <3>4. Requested("create") =
            List("create",
                 IF perChunk # Omitted THEN perChunk
                 ELSE IF own = Default \/ own.rows = 0 THEN DEFAULT_CHUNKING ELSE own.rows,
                 IF own = Default THEN perChunk = Omitted ELSE own.deflate)
      BY DEF Requested, Own
    <3>5. Wanted("create") =
            IF perChunk # Omitted
            THEN List("create", perChunk, IF own = Default THEN FALSE ELSE own.deflate)
            ELSE own
      BY DEF Wanted
    <3> HIDE DEF own
    <3>6. CASE r = "create" /\ perChunk # Omitted
      <4>1. perChunk \in Nat
        BY <1>1, <3>6, ChunkRowsAssumption
      <4> DEFINE deflate == IF own = Default THEN FALSE ELSE own.deflate
                 l == List("create", perChunk, deflate)
      <4>2. deflate \in BOOLEAN
        BY <3>3 DEF Lists
      <4>3. Requested("create") = l
        BY <3>4, <3>6
      <4>4. slots["create"] = l
        BY <3>1, <3>5, <3>6
      <4> HIDE DEF deflate
      <4>5. l \in Lists /\ l.rows = perChunk
        BY <4>1, <4>2 DEF List, Lists, Roles
      <4> HIDE DEF l
      <4>6. l \notin {Default, Invalid}
        BY <4>5, ListsAssumption
      <4> QED
        BY <2>4, <3>1, <3>6, <4>3, <4>4, <4>5, <4>6 DEF CreationProperties
    <3>7. CASE r = "create" /\ perChunk = Omitted
      <4>1. slots["create"] = own
        BY <3>1, <3>5, <3>7
      <4>2. CASE own = Default
        BY <2>4, <3>4, <3>7, <4>1, <4>2 DEF CreationProperties, List
      <4>3. CASE own # Default
        <5>1. own \in Lists /\ own.class = "create" /\ own \notin {Default, Invalid}
          BY <3>3, <4>3
        <5>2. Requested("create") =
                List("create", IF own.rows = 0 THEN DEFAULT_CHUNKING ELSE own.rows, own.deflate)
          BY <3>4, <3>7, <4>3
        <5>3. CreationProperties(own) =
                IF own.rows = 0 THEN [own EXCEPT !.rows = DEFAULT_CHUNKING] ELSE own
          BY <5>1 DEF CreationProperties
        <5>4. [own EXCEPT !.rows = DEFAULT_CHUNKING]
                = List("create", DEFAULT_CHUNKING, own.deflate)
          BY <5>1 DEF List, Lists
        <5>5. own = List("create", own.rows, own.deflate)
          BY <5>1 DEF List, Lists
        <5> QED
          BY <2>4, <3>7, <4>1, <5>2, <5>3, <5>4, <5>5
      <4> QED
        BY <4>2, <4>3
    <3> QED
      BY <3>2, <3>6, <3>7
  <2> QED
    BY <2>1, <2>2, <2>3, <2>4, <2>7, <2>8
<1> QED
  BY <1>1, <1>2, <1>3, <1>4 DEF ColumnIInv

LEMMA StepColumnIInv ==
  ColumnIInv /\ [ColumnNext]_columnAllVars => ColumnIInv'
<1> SUFFICES ASSUME ColumnIInv, [ColumnNext]_columnAllVars PROVE ColumnIInv'
  OBVIOUS
<1>1. CASE ColumnNext
  <2>1. UNCHANGED vars
    BY <1>1 DEF ColumnNext
  <2>2. ASSUME NEW n \in 0 .. MaxLists, NEW lists \in [1 .. n -> UserLists],
               NEW rows \in ChunkRows \cup {Omitted}, MakeColumn(lists, rows)
        PROVE  ColumnIInv'
    BY <2>1, <2>2, MakeColumnIInv
  <2> QED
    BY <1>1, <2>1, <2>2, TakeListIInv, SetPropertiesIInv, CopyColumnFailsIInv,
       MakeColumnDatasetIInv DEF ColumnNext
<1>2. CASE UNCHANGED columnAllVars
  <2>1. UNCHANGED <<throwing, stage, props, perChunk, next, slots, dataset, hushed>>
    BY <1>2 DEF columnAllVars, vars, columnVars
  <2>2. ColumnTypeOK'
    BY <2>1 DEF ColumnIInv, ColumnTypeOK
  <2>3. \A r \in Roles : Given(r)' = Given(r) /\ Requested(r)' = Requested(r) /\ Wanted(r)' = Wanted(r)
    BY <2>1 DEF Given, RoleOf, Requested, Wanted, Own
  <2>4. Sorted(next)' = Sorted(next)
    BY <2>1 DEF Sorted, GivenBefore, RoleOf
  <2>5. Acceptable' = Acceptable
    BY <2>1 DEF Acceptable, Given, RoleOf
  <2>6. SlotsKept' = SlotsKept
    BY <2>1, <2>3 DEF SlotsKept
  <2>7. DatasetAsRequested' = DatasetAsRequested
    BY <2>1, <2>3, <2>5 DEF DatasetAsRequested
  <2> QED
    BY <2>1, <2>2, <2>4, <2>5, <2>6, <2>7 DEF ColumnIInv
<1> QED
  BY <1>1, <1>2

THEOREM ColumnInvariance == ColumnSpec => []ColumnIInv
  BY InitColumnIInv, StepColumnIInv, PTL DEF ColumnSpec, columnAllVars

(* setColumnProperties(), Column's copies and makeDataset(): whatever      *)
(* lists are given in whatever order, and whatever fails, a dataset that   *)
(* is made is the one that was asked for, or a failure was hushed up.      *)
THEOREM ColumnsAsRequested == ColumnSpec => []DatasetAsRequested
<1>1. ColumnIInv => DatasetAsRequested
  BY DEF ColumnIInv
<1> QED
  BY <1>1, ColumnInvariance, PTL
=============================================================================

------------------------------ MODULE Resource ------------------------------
(***************************************************************************)
(* Ownership of HDF5 identifiers: SimpleRAII (src/hep_hpc/Utilities),      *)
(* Resource, and the classes that hold one Resource each - File, Group,    *)
(* Dataset, Dataspace, Datatype and PropertyList (src/hep_hpc/hdf5).       *)
(*                                                                         *)
(* An object is a C++ variable of such a class.  It has a resourceHandle_  *)
(* and may have a teardown_, which closes that handle; closing an open     *)
(* identifier is taken to succeed.  HDF5 gives every identifier once.      *)
(* MPICommunicator and MPIGroup (src/hep_hpc/MPI) hold MPI's handles by    *)
(* the same SimpleRAII; create(), split(), incl() and so on are Create.    *)
(***************************************************************************)
EXTENDS FiniteSets

CONSTANTS
  Objects,
  Ids,      \* identifiers HDF5 may give: a bound on how many it gives
  Invalid,  \* HID_t {}: -1
  Default   \* H5S_ALL, H5P_DEFAULT, MPI_COMM_WORLD, ...: needs no closing

ASSUME IdsAssumption ==
  Invalid \notin Ids /\ Default \notin Ids /\ Invalid # Default

Handles == Ids \cup {Invalid, Default}

VARIABLES
  alive,    \* objects that have been constructed and not destroyed
  handle,   \* resourceHandle_
  owns,     \* is there a teardown_?
  state,    \* of an identifier, in HDF5: "unused", "open" or "closed"
  users,    \* the identifiers that the program itself has to close
  throwing, \* does a failing HDF5 call throw (ErrorMode::EXCEPTION)?
  dropped,  \* history: the identifiers of classes that getClass() forgot
  misuse    \* history: an identifier was closed that was not open

vars == <<alive, handle, owns, state, users, throwing, dropped, misuse>>

Init ==
  /\ alive = {}
  /\ handle = [o \in Objects |-> Invalid]
  /\ owns = [o \in Objects |-> FALSE]
  /\ state = [i \in Ids |-> "unused"]
  /\ users = {}
  /\ throwing \in BOOLEAN
  /\ dropped = {}
  /\ misuse = FALSE

Fresh(i) == state[i] = "unused"

-----------------------------------------------------------------------------
(* What an object can hold, and how that is closed.                        *)

Hold(o, h, own) ==
  /\ handle' = [handle EXCEPT ![o] = h]
  /\ owns' = [owns EXCEPT ![o] = own]

Begin(o, h, own) ==
  /\ o \notin alive
  /\ alive' = alive \cup {o}
  /\ Hold(o, h, own)

(* The teardown of a handle that is not an identifier, -1 for one, fails:  *)
(* HDF5 closes nothing.                                                    *)
Close(h) ==
  IF h \in Ids THEN [state EXCEPT ![h] = "closed"] ELSE state

(* ~SimpleRAII(): teardown_, if there is one, is called.                   *)
TearDown(o) ==
  /\ state' = IF owns[o] THEN Close(handle[o]) ELSE state
  /\ misuse' = (misuse \/ (owns[o] /\ handle[o] \in Ids /\ state[handle[o]] # "open"))

NoChange == UNCHANGED <<state, misuse>>

-----------------------------------------------------------------------------
(* Construction.                                                           *)

DefaultConstruct(o, h) ==
  /\ h \in {Invalid, Default}
  /\ Begin(o, h, FALSE)
  /\ NoChange
  /\ UNCHANGED <<users, throwing, dropped>>

(* A setup function gives a new identifier. *)
Create(o, i) ==
  /\ Fresh(i)
  /\ Begin(o, i, TRUE)
  /\ state' = [state EXCEPT ![i] = "open"]
  /\ UNCHANGED <<users, throwing, dropped, misuse>>

(* The setup function fails without an exception: "Error that we didn't    *)
(* throw over", the object is left without a teardown.  (With an exception *)
(* there is no object.)                                                    *)
CreateFails(o) ==
  /\ ~ throwing
  /\ Begin(o, Invalid, FALSE)
  /\ NoChange
  /\ UNCHANGED <<users, throwing, dropped>>

(* The program opens something with an HDF5 call of its own. *)
UserOpens(i) ==
  /\ Fresh(i)
  /\ state' = [state EXCEPT ![i] = "open"]
  /\ users' = users \cup {i}
  /\ UNCHANGED <<alive, handle, owns, throwing, dropped, misuse>>

UserCloses(i) ==
  /\ i \in users
  /\ state' = [state EXCEPT ![i] = "closed"]
  /\ users' = users \ {i}
  /\ UNCHANGED <<alive, handle, owns, throwing, dropped, misuse>>

(* ResourceStrategy::handle_tag: the object takes over.  The identifier    *)
(* may also be the -1 of a call that failed without an exception.          *)
Adopt(o, h) ==
  /\ h \in users \/ (h = Invalid /\ ~ throwing)
  /\ Begin(o, h, TRUE)
  /\ users' = users \ {h}
  /\ NoChange
  /\ UNCHANGED <<throwing, dropped>>

(* MPICommunicator and MPIGroup always own; their teardown frees nothing   *)
(* when it is given MPI's predefined or null handles.                      *)
AdoptPredefined(o) ==
  /\ Begin(o, Default, TRUE)
  /\ NoChange
  /\ UNCHANGED <<users, throwing, dropped>>

(* ResourceStrategy::observer_tag: the program remains responsible. *)
Observe(o, h) ==
  /\ h \in users \cup {Invalid, Default}
  /\ Begin(o, h, FALSE)
  /\ NoChange
  /\ UNCHANGED <<users, throwing, dropped>>

-----------------------------------------------------------------------------
(* Moving and copying.                                                     *)

SourceKeepsTeardownBug(o, p) ==
  /\ handle' = [handle EXCEPT ![o] = handle[p]]
  /\ owns' = [owns EXCEPT ![o] = owns[p]]

(* The source is release()d. *)
Transfer(o, p) ==
  /\ handle' = [handle EXCEPT ![o] = handle[p], ![p] = Invalid]
  /\ owns' = [owns EXCEPT ![o] = owns[p], ![p] = FALSE]

MoveConstruct(o, p) ==
  /\ o \notin alive /\ p \in alive
  /\ alive' = alive \cup {o}
  /\ Transfer(o, p)
  /\ NoChange
  /\ UNCHANGED <<users, throwing, dropped>>

(* Move assignment is swap(): what the target had lives on in the source.  *)
MoveAssign(o, p) ==
  /\ o \in alive /\ p \in alive
  /\ handle' = [handle EXCEPT ![o] = handle[p], ![p] = handle[o]]
  /\ owns' = [owns EXCEPT ![o] = owns[p], ![p] = owns[o]]
  /\ NoChange
  /\ UNCHANGED <<alive, users, throwing, dropped>>

(* H5Scopy, H5Tcopy and H5Pcopy give a new identifier for an open one;     *)
(* H5Pcopy gives H5P_DEFAULT for itself.                                   *)
Copy(p, h) ==
  /\ p \in alive
  /\ \/ handle[p] \in Ids /\ state[handle[p]] = "open" /\ h \in Ids /\ Fresh(h)
     \/ handle[p] = Default /\ h = Default

CopyConstruct(o, p, h) ==
  /\ Copy(p, h)
  /\ Begin(o, h, TRUE)
  /\ state' = [j \in Ids |-> IF j = h THEN "open" ELSE state[j]]
  /\ UNCHANGED <<users, throwing, dropped, misuse>>

OldForgottenBug(o, h) ==
  /\ state' = [j \in Ids |-> IF j = h THEN "open" ELSE state[j]]
  /\ UNCHANGED misuse

(* A temporary has got the copy; it is swapped with the target and closes  *)
(* what the target had.                                                    *)
ReplaceBy(o, h) ==
  /\ state' = [j \in Ids |->
       IF j = h THEN "open"
       ELSE IF owns[o] /\ j = handle[o] THEN "closed" ELSE state[j]]
  /\ misuse' = (misuse \/ (owns[o] /\ handle[o] \in Ids /\ state[handle[o]] # "open"))

CopyAssign(o, p, h) ==
  /\ o \in alive /\ Copy(p, h)
  /\ Hold(o, h, TRUE)
  /\ ReplaceBy(o, h)
  /\ UNCHANGED <<alive, users, throwing, dropped>>

(* The copy fails without an exception: the target has lost what it had    *)
(* and is invalid.  (With an exception the target is as it was.)           *)
CopyAssignFails(o, p) ==
  /\ o \in alive /\ p \in alive
  /\ ~ throwing
  /\ TearDown(o)
  /\ Hold(o, Invalid, FALSE)
  /\ UNCHANGED <<alive, users, throwing, dropped>>

-----------------------------------------------------------------------------
(* The end of a handle.                                                    *)

(* File::close(), reset() of the others: Dataspace and PropertyList are    *)
(* then the default one.                                                   *)
Reset(o, h) ==
  /\ o \in alive /\ h \in {Invalid, Default}
  /\ TearDown(o)
  /\ Hold(o, h, FALSE)
  /\ UNCHANGED <<alive, users, throwing, dropped>>

(* reset(rh, teardown), on a Resource: what it had is closed. *)
ResetTo(o, i) ==
  /\ o \in alive /\ i \in users
  /\ TearDown(o)
  /\ Hold(o, i, TRUE)
  /\ users' = users \ {i}
  /\ UNCHANGED <<alive, throwing, dropped>>

ReleasedBlindlyBug(o) ==
  /\ o \in alive
  /\ Hold(o, Invalid, FALSE)
  /\ users' = users \cup {handle[o]}
  /\ NoChange
  /\ UNCHANGED <<alive, throwing, dropped>>

(* release(), on a Resource: the program has it back. *)
Release(o) ==
  /\ o \in alive
  /\ Hold(o, Invalid, FALSE)
  /\ users' = IF owns[o] /\ handle[o] \in Ids THEN users \cup {handle[o]} ELSE users
  /\ NoChange
  /\ UNCHANGED <<alive, throwing, dropped>>

Destroy(o) ==
  /\ o \in alive
  /\ TearDown(o)
  /\ alive' = alive \ {o}
  /\ Hold(o, Invalid, FALSE)
  /\ UNCHANGED <<users, throwing, dropped>>

(* PropertyList::getClass(), getClassName() and isClass(): the identifier  *)
(* that H5Pget_class gives is compared and then forgotten.                 *)
QueryClass(o, i) ==
  /\ o \in alive /\ handle[o] \in Ids /\ state[handle[o]] = "open"
  /\ Fresh(i)
  /\ state' = [state EXCEPT ![i] = "open"]
  /\ dropped' = dropped \cup {i}
  /\ UNCHANGED <<alive, handle, owns, users, throwing, misuse>>

(* The thread's error mode changes. *)
SetMode ==
  /\ throwing' = ~ throwing
  /\ UNCHANGED <<alive, handle, owns, state, users, dropped, misuse>>

Construct(o) ==
  \/ \E h \in {Invalid, Default} : DefaultConstruct(o, h)
  \/ \E i \in Ids : Create(o, i)
  \/ CreateFails(o)
  \/ AdoptPredefined(o)
  \/ \E h \in Handles : Adopt(o, h) \/ Observe(o, h)
  \/ \E p \in Objects : MoveConstruct(o, p)
  \/ \E p \in Objects, h \in Handles : CopyConstruct(o, p, h)

Change(o) ==
  \/ \E p \in Objects : MoveAssign(o, p) \/ CopyAssignFails(o, p)
  \/ \E p \in Objects, h \in Handles : CopyAssign(o, p, h)
  \/ \E h \in {Invalid, Default} : Reset(o, h)
  \/ \E i \in Ids : ResetTo(o, i)
  \/ \E i \in Ids : QueryClass(o, i)
  \/ Release(o)
  \/ Destroy(o)

(* A program that uses these objects. *)
Program(objects) ==
  \/ \E o \in objects : Construct(o) \/ Change(o)
  \/ \E i \in Ids : UserOpens(i) \/ UserCloses(i)
  \/ SetMode

Next == Program(Objects)

Spec == Init /\ [][Next]_vars

-----------------------------------------------------------------------------
TypeOK ==
  /\ alive \subseteq Objects
  /\ handle \in [Objects -> Handles]
  /\ owns \in [Objects -> BOOLEAN]
  /\ state \in [Ids -> {"unused", "open", "closed"}]
  /\ users \subseteq Ids
  /\ throwing \in BOOLEAN
  /\ dropped \subseteq Ids
  /\ misuse \in BOOLEAN
  /\ \A o \in Objects \ alive : ~ owns[o]

Open(i)      == state[i] = "open"
OwnedBy(o, i) == o \in alive /\ owns[o] /\ handle[o] = i

(* Resource.hpp:10-14, "Upon destruction, the specified teardown function  *)
(* is called [...] to clean up the previously-allocated resource": an      *)
(* identifier that is open always has somebody who will close it, through  *)
(* all moves, swaps, copies, resets and failures.  Only the class of a     *)
(* property list, once asked for, stays open until the library closes.     *)
NothingLeaks ==
  \A i \in Ids : Open(i) => i \in users \cup dropped \/ \E o \in Objects : OwnedBy(o, i)

(* And nobody else will: no identifier has two owners, none that the       *)
(* program keeps is closed by an object, and none is closed a second time. *)
SoleOwner ==
  /\ ~ misuse
  /\ \A i \in users : Open(i) /\ \A o \in Objects : ~ OwnedBy(o, i)
  /\ \A o, p \in Objects : \A i \in Ids :
       OwnedBy(o, i) => Open(i) /\ (OwnedBy(p, i) => p = o)
=============================================================================

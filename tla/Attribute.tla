----------------------------- MODULE Attribute -----------------------------
(***************************************************************************)
(* write_attribute() (src/hep_hpc/hdf5/write_attribute.cpp), in both of    *)
(* its overloads: they differ in the size of the string type, the extent   *)
(* and the text, none of which the model tells apart.                      *)
(*                                                                         *)
(* Its locals are objects of module Resource: string_type, dspace and      *)
(* a_id.  Between the calls the program does what it likes with objects of *)
(* its own.  All calls are for one name at one group or dataset.           *)
(***************************************************************************)
EXTENDS Resource

CONSTANTS StringType, Space, AttributeId

Locals == {StringType, Space, AttributeId}

ASSUME LocalsAssumption ==
  /\ Locals \subseteq Objects
  /\ StringType # Space /\ StringType # AttributeId /\ Space # AttributeId

VARIABLES
  step,      \* the next statement of write_attribute()
  result,    \* its outcome: "ok", "failed" (negative) or "exception"
  attribute, \* in the file: "none", "unwritten" or "written"
  before     \* what it was at the call

attributeVars == <<step, result, attribute, before>>

AttributeInit ==
  /\ step = "idle"
  /\ result = "failed"
  /\ attribute = "none"
  /\ before = "none"

Leave(outcome) ==
  /\ step' = "leave"
  /\ result' = outcome

Failure == IF throwing THEN "exception" ELSE "failed"

(* The function is called: result = -1. *)
Call ==
  /\ step = "idle"
  /\ step' = "copy"
  /\ result' = "failed"
  /\ before' = attribute
  /\ UNCHANGED <<vars, attribute>>

(* A call of HDF5 whose identifier an object o takes over before it is     *)
(* looked at: the -1 of a failure as well, unless that has thrown.         *)
FailedIdentifier(o) ==
  /\ \/ throwing /\ UNCHANGED vars
     \/ Adopt(o, Invalid)
  /\ Leave(Failure)

CheckOmittedBug ==
  /\ step = "copy"
  /\ \/ /\ \E i \in Ids : Create(StringType, i)
        /\ step' = "size"
        /\ UNCHANGED result
     \/ /\ Begin(StringType, Invalid, TRUE)
        /\ NoChange
        /\ UNCHANGED <<users, throwing, dropped>>
        /\ Leave("failed")
  /\ UNCHANGED <<attribute, before>>

(* Datatype string_type(...H5Tcopy...) *)
CopyType ==
  /\ step = "copy"
  /\ \/ /\ \E i \in Ids : Create(StringType, i)
        /\ step' = "size"
        /\ UNCHANGED result
     \/ FailedIdentifier(StringType)
  /\ UNCHANGED <<attribute, before>>

(* H5Tset_size *)
SetSize ==
  /\ step = "size"
  /\ \/ step' = "space" /\ result' = "ok"
     \/ Leave(Failure)
  /\ UNCHANGED <<vars, attribute, before>>

(* Dataspace dspace(1, &extent) *)
MakeSpace ==
  /\ step = "space"
  /\ \/ /\ \E i \in Ids : Create(Space, i)
        /\ step' = "create"
        /\ UNCHANGED result
     \/ CreateFails(Space) /\ Leave(Failure)
     \/ throwing /\ UNCHANGED vars /\ Leave(Failure)
  /\ UNCHANGED <<attribute, before>>

(* Resource a_id(...H5Acreate...), which refuses an existing name. *)
CreateAttribute ==
  /\ step = "create"
  /\ \/ /\ attribute = "none"
        /\ \E i \in Ids : Create(AttributeId, i)
        /\ attribute' = "unwritten"
        /\ step' = "write"
        /\ UNCHANGED result
     \/ FailedIdentifier(AttributeId) /\ UNCHANGED attribute
  /\ UNCHANGED before

ResultNotTakenBug ==
  /\ step = "write"
  /\ \/ attribute' = "written" /\ Leave("ok")
     \/ ~ throwing /\ UNCHANGED attribute /\ Leave(result)
  /\ UNCHANGED <<vars, before>>

(* H5Awrite.  (For an empty vector of strings &c_values[0] is undefined;   *)
(* what HDF5 makes of the pointer is one outcome or the other.)  With a    *)
(* vector there is c_values to fill before, for which memory may be        *)
(* lacking, in either mode.                                                *)
Write ==
  /\ step = "write"
  /\ \/ attribute' = "written" /\ Leave("ok")
     \/ UNCHANGED attribute /\ Leave(Failure)
     \/ UNCHANGED attribute /\ Leave("exception")
  /\ UNCHANGED <<vars, before>>

(* A teardown that fails in its destructor throws, too, if no exception is *)
(* on its way already.                                                     *)
TeardownThrows(o) ==
  throwing /\ owns[o] /\ handle[o] = Invalid /\ result # "exception"

(* The locals are destroyed in the reverse order of their construction. *)
DestroyLocal(o) ==
  /\ step = "leave"
  /\ o \in alive
  /\ o = Space => AttributeId \notin alive
  /\ o = StringType => {AttributeId, Space} \cap alive = {}
  /\ Destroy(o)
  /\ result' = IF TeardownThrows(o) THEN "exception" ELSE result
  /\ UNCHANGED <<step, attribute, before>>

Return ==
  /\ step = "leave"
  /\ Locals \cap alive = {}
  /\ step' = "idle"
  /\ UNCHANGED <<vars, result, attribute, before>>

WriteAttribute ==
  \/ Call \/ CopyType \/ SetSize \/ MakeSpace \/ CreateAttribute \/ Write
  \/ \E o \in Locals : DestroyLocal(o)
  \/ Return

AttributeNext ==
  \/ WriteAttribute
  \/ step = "idle" /\ Program(Objects \ Locals) /\ UNCHANGED attributeVars

AttributeSpec == Init /\ AttributeInit /\ [][AttributeNext]_<<vars, attributeVars>>

-----------------------------------------------------------------------------
(* The outcome tells what happened to the file: success means that this    *)
(* call has made the attribute and has written it.  A failure leaves what  *)
(* was there, or an attribute that was created and not written - which     *)
(* makes every later call for the name fail as well.                       *)
TruthfulResult ==
  step = "leave" =>
    /\ result = "ok" <=> (before = "none" /\ attribute = "written")
    /\ result # "ok" => attribute \in {before, "unwritten"}

(* The outcome is decided before the locals are destroyed: although they   *)
(* may have adopted the -1 of a failure, no destructor throws on the way   *)
(* out (the case that the "recommended exception-based error handling" of  *)
(* the comments in write_attribute.cpp is not used).                       *)
QuietReturn == [][step = "leave" => result' = result]_<<vars, attributeVars>>
=============================================================================

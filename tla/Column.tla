------------------------------- MODULE Column -------------------------------
(***************************************************************************)
(* A column of an Ntuple from make_column() and make_scalar_column() to    *)
(* its dataset: which property lists it gets there with, through           *)
(* setColumnProperties() (src/hep_hpc/hdf5/make_column.hpp), the copies of *)
(* the Column (Column.hpp) and makeDataset() (NtupleDataStructure.hpp).    *)
(*                                                                         *)
(* Any call of HDF5 may fail.  In makeDataset() that throws; before, it    *)
(* depends on the error mode of the thread, which is Resource's.  So are   *)
(* the handles of lists that are invalid and of H5P_DEFAULT; who owns the  *)
(* other ones is Resource's matter, what they say is this module's.        *)
(***************************************************************************)
EXTENDS Resource, Sequences, Naturals

CONSTANTS
  UserLists,   \* property lists that the program may pass
  MaxLists,    \* bound: length of the initializer_list
  ChunkRows,   \* values of elementsPerChunk
  Omitted,     \* the overload without elementsPerChunk
  MaxHDF5Failures \* bound: calls that fail

DEFAULT_CHUNKING == 128

Roles == {"link", "create", "access"}

(* Of a property list the model keeps the class, the number of rows of a   *)
(* chunk (0: the layout is not chunked) and whether data are compressed.   *)
List(class, rows, deflate) == [class |-> class, rows |-> rows, deflate |-> deflate]

(* A list of any other class is like one for files. *)
Lists == [class : Roles \cup {"file"}, rows : Nat, deflate : BOOLEAN]

ASSUME ListsAssumption ==
  /\ UserLists \subseteq Lists \cup {Default}
  /\ Default \notin Lists /\ Invalid \notin Lists
ASSUME ChunkRowsAssumption == ChunkRows \subseteq Nat /\ Omitted \notin Nat
ASSUME MaxListsAssumption  == MaxLists \in Nat

VARIABLES
  stage,      \* "idle", "lists", "column", "dataset", "refused"
  props,      \* the argument, and
  perChunk,   \* elementsPerChunk
  next,       \* position in props
  slots,      \* lcp, dcp and dap, then the properties of the column
  type,       \* STRING_TYPE_: "right", "invalid", or "short": of one character
  dataset,    \* what the dataset, once made, was created with
  hushed,     \* history: a list, or a change of it, was lost without notice
  failed      \* number of failures

columnVars == <<stage, props, perChunk, next, slots, type, dataset, hushed, failed>>

ColumnInit ==
  /\ stage = "idle"
  /\ props = <<>>
  /\ perChunk = Omitted
  /\ next = 1
  /\ slots = [r \in Roles |-> Default]
  /\ type = "right"
  /\ dataset = [r \in Roles |-> Default]
  /\ hushed = FALSE
  /\ failed = 0

HDF5Fails ==
  /\ failed < MaxHDF5Failures
  /\ failed' = failed + 1

Refuse == stage' = "refused"

Usable(l) == l \notin {Default, Invalid}

-----------------------------------------------------------------------------
(* The arguments; the Column is constructed.  Its string type comes from   *)
(* H5Tcopy and H5Tset_size themselves: that they fail is never noticed.    *)
MakeColumn(lists, rows) ==
  /\ stage = "idle"
  /\ props' = lists
  /\ perChunk' = rows
  /\ stage' = "lists"
  /\ \/ UNCHANGED <<type, failed>>
     \/ HDF5Fails /\ type' \in {"invalid", "short"}
  /\ UNCHANGED <<next, slots, dataset, hushed>>

DuplicateReplacesBug(l) ==
  /\ slots' = [slots EXCEPT ![l.class] = l]
  /\ UNCHANGED <<stage, failed, hushed>>

(* The list is copied: "auto && prop" is const, and std::move() changes    *)
(* nothing.  Without exceptions a failing copy leaves the slot invalid.    *)
TakeCopy(l) ==
  IF slots[l.class] # Default
    THEN Refuse /\ UNCHANGED <<slots, failed, hushed>>
    ELSE \/ /\ slots' = [slots EXCEPT ![l.class] = l]
            /\ UNCHANGED <<stage, failed, hushed>>
         \/ /\ throwing /\ HDF5Fails
            /\ Refuse
            /\ UNCHANGED <<slots, hushed>>
         \/ /\ ~ throwing /\ HDF5Fails
            /\ slots' = [slots EXCEPT ![l.class] = Invalid]
            /\ hushed' = TRUE
            /\ UNCHANGED stage

(* getClass(): H5P_DEFAULT has none. *)
RoleOf(l) == IF l = Default THEN "none" ELSE l.class

(* isClass() is asked for one role after the other.  A list of no role, or *)
(* one whose class cannot be found out (which H5P_DEFAULT's never can), is *)
(* refused.                                                                *)
TakeList ==
  /\ stage = "lists"
  /\ next <= Len(props)
  /\ next' = next + 1
  /\ LET l == props[next] IN
     \/ RoleOf(l) \in Roles /\ TakeCopy(l)
     \/ /\ RoleOf(l) \notin Roles
        /\ Refuse
        /\ UNCHANGED <<slots, failed, hushed>>
     \/ HDF5Fails /\ Refuse /\ UNCHANGED <<slots, hushed>>
  /\ UNCHANGED <<props, perChunk, type, dataset>>

(* The list that H5Pset_chunk is given: a new one if there was none. *)
ToBeChunked == IF slots["create"] = Default THEN List("create", 0, FALSE) ELSE slots["create"]

(* The list of creation properties after H5Pset_chunk, if all goes well. *)
WithChunks(l) ==
  IF perChunk = Omitted THEN l ELSE [l EXCEPT !.rows = perChunk]

(* Only what is valid and not the default is given to the column. *)
ToColumn(chosen) == [r \in Roles |-> IF Usable(chosen[r]) THEN chosen[r] ELSE Default]

OnlyIfNotChunkedBug ==
  /\ stage = "lists" /\ next = Len(props) + 1
  /\ stage' = "column"
  /\ slots' = IF perChunk # Omitted /\ slots["create"] = Default
              THEN ToColumn([slots EXCEPT !["create"] = WithChunks(ToBeChunked)])
              ELSE ToColumn(slots)
  /\ UNCHANGED <<props, perChunk, next, type, dataset, hushed, failed>>

(* The end of setColumnProperties().  HDF5 refuses chunks without rows.    *)
SetProperties ==
  /\ stage = "lists" /\ next = Len(props) + 1
  /\ \/ /\ perChunk = Omitted
        /\ slots' = ToColumn(slots)
        /\ stage' = "column"
        /\ UNCHANGED <<hushed, failed>>
     \/ /\ perChunk # Omitted /\ perChunk # 0 /\ slots["create"] # Invalid
        /\ slots' = ToColumn([slots EXCEPT !["create"] = WithChunks(ToBeChunked)])
        /\ stage' = "column"
        /\ UNCHANGED <<hushed, failed>>
     \/ /\ perChunk # Omitted
        /\ \/ HDF5Fails
           \/ (perChunk = 0 \/ slots["create"] = Invalid) /\ UNCHANGED failed
        /\ IF throwing
             THEN Refuse /\ UNCHANGED <<slots, hushed>>
             ELSE /\ \/ slots' = ToColumn([slots EXCEPT !["create"] = ToBeChunked])
                     \/ slots["create"] = Default /\ slots' = ToColumn(slots)
                  /\ hushed' = TRUE
                  /\ stage' = "column"
  /\ UNCHANGED <<props, perChunk, next, type, dataset>>

-----------------------------------------------------------------------------
(* The Column is copied, into arguments and into the Ntuple.  H5Pcopy of   *)
(* H5P_DEFAULT does nothing; any other copy may fail.                      *)
CopyColumnFails ==
  /\ stage = "column"
  /\ HDF5Fails
  /\ IF throwing
       THEN Refuse /\ UNCHANGED <<slots, type>>
       ELSE /\ \/ /\ \E r \in Roles : slots[r] # Default /\ slots' = [slots EXCEPT ![r] = Invalid]
                  /\ UNCHANGED type
               \/ type' = "invalid" /\ UNCHANGED slots
            /\ UNCHANGED stage
  /\ UNCHANGED <<props, perChunk, next, dataset, hushed>>

RefusesNothingBug(l) ==
  IF ~ Usable(l) THEN List("create", DEFAULT_CHUNKING, TRUE)
  ELSE IF l.rows = 0 THEN [l EXCEPT !.rows = DEFAULT_CHUNKING]
  ELSE l

(* makeDataset(): defaultDatasetCreationProperties(), setDefaultChunking() *)
CreationProperties(l) ==
  IF l = Default THEN List("create", DEFAULT_CHUNKING, TRUE)
  ELSE IF l = Invalid THEN Invalid
  ELSE IF l.rows = 0 THEN [l EXCEPT !.rows = DEFAULT_CHUNKING]
  ELSE l

Description ==
  [r \in Roles |-> IF r = "create" THEN CreationProperties(slots[r]) ELSE slots[r]]

(* With the columns of the program's own; HDF5 refuses what is invalid.    *)
MakeColumnDataset ==
  /\ stage = "column"
  /\ \/ /\ type # "invalid" /\ \A r \in Roles : Description[r] # Invalid
        /\ dataset' = Description
        /\ stage' = "dataset"
        /\ UNCHANGED failed
     \/ /\ \/ (type = "invalid" \/ \E r \in Roles : Description[r] = Invalid) /\ UNCHANGED failed
           \/ HDF5Fails
        /\ Refuse
        /\ UNCHANGED dataset
  /\ UNCHANGED <<props, perChunk, next, slots, type, hushed>>

ColumnNext ==
  /\ \/ \E n \in 0 .. MaxLists : \E lists \in [1 .. n -> UserLists], rows \in ChunkRows \cup {Omitted} :
          MakeColumn(lists, rows)
     \/ TakeList
     \/ SetProperties
     \/ CopyColumnFails
     \/ MakeColumnDataset
  /\ UNCHANGED vars

ColumnSpec == Init /\ ColumnInit /\ [][ColumnNext]_<<vars, columnVars>>

-----------------------------------------------------------------------------
Given(r) == {n \in 1 .. Len(props) : RoleOf(props[n]) = r}

(* Each list has a role, and no role has two lists. *)
Acceptable ==
  /\ \A n \in 1 .. Len(props) : RoleOf(props[n]) \in Roles
  /\ \A r \in Roles, m, n \in 1 .. Len(props) : {m, n} \subseteq Given(r) => m = n

(* What the program asked for, role by role: elementsPerChunk before the   *)
(* chunks of its own list, before the default; compression by default only *)
(* if it said nothing about creation.                                      *)
Requested(r) ==
  LET own == IF Given(r) = {} THEN Default ELSE props[CHOOSE n \in Given(r) : TRUE]
      rows == IF perChunk # Omitted THEN perChunk
              ELSE IF own = Default \/ own.rows = 0 THEN DEFAULT_CHUNKING ELSE own.rows
      deflate == IF own = Default THEN perChunk = Omitted ELSE own.deflate
  IN  IF r = "create" THEN List(r, rows, deflate) ELSE own

(* A dataset that is made has the properties that were asked for; mistakes *)
(* in the lists never get that far, and no failure replaces properties by  *)
(* the default ones behind the program's back - unless failures are not    *)
(* exceptions and one occurred in setColumnProperties() itself.  Even then *)
(* the dataset has chunks, without which it could not grow.                *)
DatasetAsRequested ==
  stage = "dataset" =>
    /\ Acceptable
    /\ dataset["create"].rows > 0
    /\ \/ \A r \in Roles : dataset[r] = Requested(r)
       \/ hushed /\ ~ throwing
=============================================================================

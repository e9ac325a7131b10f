-------------------------- MODULE ErrorController --------------------------
(***************************************************************************)
(* One thread's HDF5 error handling: hep_hpc::hdf5::ErrorController and    *)
(* ScopedErrorHandler (src/hep_hpc/hdf5/errorHandling.hpp and .cpp).       *)
(*                                                                         *)
(* The configuration is the pair of mode_ and the handler installed in     *)
(* HDF5; storedHandler_ is a single slot for a saved configuration.        *)
(* `scopes' is the stack of ScopedErrorHandlers that are alive, each with  *)
(* the configuration it found: a history of what its exit should restore.  *)
(* An exception that is being propagated destroys the scopes it leaves.    *)
(***************************************************************************)
EXTENDS Naturals, Sequences

CONSTANTS
  MaxDepth,    \* bound on the number of live scopes
  PrintStack,  \* H5Eprint2
  UserHandlers, \* handlers of the program's own
  NoHandler    \* nullptr

ASSUME DepthAssumption   == MaxDepth \in Nat
ASSUME HandlerAssumption ==
  /\ PrintStack # NoHandler
  /\ PrintStack \notin UserHandlers
  /\ NoHandler \notin UserHandlers

Modes    == {"HDF5_DEFAULT", "CUSTOM", "EXCEPTION", "NONE"}
Handlers == {PrintStack, NoHandler} \cup UserHandlers
Configs  == [mode : Modes, func : Handlers]

(* SYSTEM_ERROR_HANDLER, which is also the initial configuration. *)
SystemHandler == [mode |-> "HDF5_DEFAULT", func |-> PrintStack]

VARIABLES
  config,    \* mode_ and H5Eget_auto2()
  stored,    \* storedHandler_
  scopes,    \* history: what each live scope found
  intact,    \* history: has the slot not been used since a scope was entered?
  unwinding  \* an exception is being propagated

vars == <<config, stored, scopes, intact, unwinding>>

(* The configuration that setErrorHandler(mode) installs: only the default *)
(* mode has a handler, and CUSTOM is refused.                              *)
ExceptionPrintsBug(mode) ==
  [mode |-> mode,
   func |-> IF mode = "NONE" THEN NoHandler ELSE PrintStack]

OfMode(mode) ==
  [mode |-> mode,
   func |-> IF mode = "HDF5_DEFAULT" THEN PrintStack ELSE NoHandler]

(* The configuration that setErrorHandler(func, clientData) installs. *)
OfHandler(func) ==
  [mode |-> IF func = NoHandler THEN "NONE" ELSE "CUSTOM", func |-> func]

Settable == { OfMode(m) : m \in Modes \ {"CUSTOM"} }
              \cup { OfHandler(f) : f \in Handlers }

Init ==
  /\ config = SystemHandler
  /\ stored = SystemHandler
  /\ scopes = << >>
  /\ intact = FALSE
  /\ unwinding = FALSE

(* setErrorHandler(), with a mode or with a handler. *)
Set ==
  /\ config' \in Settable
  /\ UNCHANGED <<stored, scopes, intact, unwinding>>

(* setAndSaveErrorHandler(), as a ScopedErrorHandler's constructor calls  *)
(* it; destructors that run while an exception unwinds do this too.        *)
EnterScope ==
  /\ Len(scopes) < MaxDepth
  /\ stored' = config
  /\ config' \in Settable
  /\ scopes' = Append(scopes, config)
  /\ UNCHANGED unwinding
  /\ intact' = TRUE

(* ScopedErrorHandler(ErrorMode::CUSTOM): the configuration is saved, then *)
(* setErrorHandler(mode) throws; no scope comes to life.                   *)
EnterScopeThrows ==
  /\ ~ unwinding
  /\ stored' = config
  /\ unwinding' = TRUE
  /\ UNCHANGED <<config, scopes>>
  /\ intact' = FALSE

(* restoreErrorHandler(): the slot's func is installed, its mode taken     *)
(* over, and the slot reset.                                               *)
RestoreModeForgottenBug ==
  /\ config' = OfHandler(stored.func)
  /\ stored' = SystemHandler

Restore ==
  /\ config' = stored
  /\ stored' = SystemHandler

(* The destructor of the innermost scope. *)
LeaveScope ==
  /\ scopes # << >>
  /\ Restore
  /\ scopes' = SubSeq(scopes, 1, Len(scopes) - 1)
  /\ UNCHANGED unwinding
  /\ intact' = FALSE

(* The program saves, restores or resets by itself. *)
ExplicitSave ==
  /\ stored' = config
  /\ UNCHANGED <<config, scopes, unwinding>>
  /\ intact' = FALSE

ExplicitRestore ==
  /\ Restore
  /\ UNCHANGED <<scopes, unwinding>>
  /\ intact' = FALSE

ResetErrorHandler ==
  /\ config' = SystemHandler
  /\ stored' = SystemHandler
  /\ UNCHANGED <<scopes, unwinding>>
  /\ intact' = FALSE

(* call(f) where f fails: an exception only in mode EXCEPTION, and never   *)
(* while another one is being propagated.                                  *)
CallFails ==
  /\ config.mode = "EXCEPTION"
  /\ ~ unwinding
  /\ unwinding' = TRUE
  /\ UNCHANGED <<config, stored, scopes, intact>>

(* call(mode, f): a scope of its own around the call, unless the mode is   *)
(* the current one.  f may fail; the scope is left either way, so that the *)
(* configuration is back but the slot has been used.                       *)
CallWithMode(mode) ==
  /\ mode \in Modes \ {"CUSTOM"}
  /\ config.mode # mode
  /\ config' = config
  /\ stored' = SystemHandler
  /\ unwinding' \in {unwinding, unwinding \/ mode = "EXCEPTION"}
  /\ UNCHANGED scopes
  /\ intact' = FALSE

(* call(errorFunc, clientData, f): the same with a handler, always in a     *)
(* scope of its own; in mode CUSTOM or NONE a failure throws nothing.      *)
CallWithHandler ==
  /\ stored' = SystemHandler
  /\ UNCHANGED <<config, scopes, unwinding>>
  /\ intact' = FALSE

(* The exception is caught where no more scopes have to be left. *)
Catch ==
  /\ unwinding
  /\ unwinding' = FALSE
  /\ UNCHANGED <<config, stored, scopes, intact>>

Next ==
  \/ Set
  \/ EnterScope
  \/ EnterScopeThrows
  \/ LeaveScope
  \/ ExplicitSave
  \/ ExplicitRestore
  \/ ResetErrorHandler
  \/ CallFails
  \/ \E mode \in Modes : CallWithMode(mode)
  \/ CallWithHandler
  \/ Catch

Spec == Init /\ [][Next]_vars

(* A program that uses scopes as errorHandling.hpp means them to be used: *)
(* none whose constructor throws, no save, restore or reset of its own, no *)
(* call that fails, and never H5Eprint2 except as restoring brings it back.*)
ScopesNext ==
  \/ (Set \/ EnterScope) /\ config'.func # PrintStack
  \/ LeaveScope

ScopesSpec == Init /\ [][ScopesNext]_vars

-----------------------------------------------------------------------------
TypeOK ==
  /\ config \in Configs
  /\ stored \in Configs
  /\ scopes \in Seq(Configs)
  /\ intact \in BOOLEAN /\ unwinding \in BOOLEAN

(* What mode_ says and what HDF5 does never drift apart.                   *)
Consistent(c) ==
  /\ c.mode = "HDF5_DEFAULT" => c.func = PrintStack
  /\ c.mode = "CUSTOM" => c.func # NoHandler
  /\ c.mode \in {"EXCEPTION", "NONE"} => c.func = NoHandler

(* Whatever sequence of sets, saves, restores, scopes and exceptions the   *)
(* program goes through, mode_ describes the handler that is installed in  *)
(* HDF5: in particular HDF5 prints nothing in modes EXCEPTION and NONE.    *)
ModeMatchesHandler == Consistent(config) /\ Consistent(stored)

(* A scope inside which nobody saves, restores or enters another one gives *)
(* back what it found, mode and handler, whatever is set inside it and     *)
(* whether or not an exception leaves it.                                  *)
IntactScopesRestore ==
  [][ Len(scopes') < Len(scopes) /\ intact => config' = scopes[Len(scopes)] ]_vars

(* errorHandling.hpp:91-93, "Previous error handling configuration will be *)
(* restored at scope exit", of any scope, nested ones included.            *)
ScopeRestores ==
  [][ Len(scopes') < Len(scopes) => config' = scopes[Len(scopes)] ]_vars
=============================================================================

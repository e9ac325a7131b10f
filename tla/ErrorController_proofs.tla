----------------------- MODULE ErrorController_proofs -----------------------
(***************************************************************************)
(* ErrorController for every set of handlers and every depth of nesting.   *)
(***************************************************************************)
EXTENDS ErrorController, TLAPS

LEMMA SettableConsistent ==
  \A c \in Settable : c \in Configs /\ Consistent(c)
  BY HandlerAssumption
     DEF Settable, OfMode, OfHandler, Configs, Modes, Handlers, Consistent

LEMMA SystemConsistent == SystemHandler \in Configs /\ Consistent(SystemHandler)
  BY DEF SystemHandler, Configs, Modes, Handlers, Consistent

(* mode_ always describes the handler installed in HDF5, also for a saved  *)
(* configuration.                                                          *)
THEOREM TypedAndConsistent == Spec => [](TypeOK /\ ModeMatchesHandler)
<1>1. Init => TypeOK /\ ModeMatchesHandler
  <2> HAVE Init
  <2>1. scopes \in Seq(Configs)
    BY DEF Init
  <2> QED
    BY <2>1, SystemConsistent DEF Init, TypeOK, ModeMatchesHandler
<1>2. TypeOK /\ ModeMatchesHandler /\ [Next]_vars => (TypeOK /\ ModeMatchesHandler)'
  <2> SUFFICES ASSUME TypeOK, ModeMatchesHandler, [Next]_vars
               PROVE  TypeOK' /\ ModeMatchesHandler'
    OBVIOUS
  <2> USE DEF TypeOK, ModeMatchesHandler
  <2>1. CASE Set
    BY <2>1, SettableConsistent DEF Set
  <2>2. CASE EnterScope
    BY <2>2, SettableConsistent DEF EnterScope
  <2>3. CASE EnterScopeThrows
    BY <2>3 DEF EnterScopeThrows
  <2>4. CASE LeaveScope
    <3>1. SubSeq(scopes, 1, Len(scopes) - 1) \in Seq(Configs)
      BY <2>4 DEF LeaveScope
    <3> QED
      BY <2>4, <3>1, SystemConsistent DEF LeaveScope, Restore
  <2>5. CASE ExplicitSave
    BY <2>5 DEF ExplicitSave
  <2>6. CASE ExplicitRestore
    BY <2>6, SystemConsistent DEF ExplicitRestore, Restore
  <2>7. CASE ResetErrorHandler
    BY <2>7, SystemConsistent DEF ResetErrorHandler
  <2>8. CASE CallFails
    BY <2>8 DEF CallFails
  <2>9. ASSUME NEW mode \in Modes, CallWithMode(mode)
        PROVE  TypeOK' /\ ModeMatchesHandler'
    <3>1. unwinding' \in BOOLEAN
      BY <2>9 DEF CallWithMode
    <3> QED
      BY <2>9, <3>1, SystemConsistent DEF CallWithMode
  <2>10. CASE Catch
    BY <2>10 DEF Catch
  <2>11. CASE CallWithHandler
    BY <2>11, SystemConsistent DEF CallWithHandler
  <2>12. CASE UNCHANGED vars
    BY <2>12 DEF vars
  <2> QED
    BY <2>1, <2>2, <2>3, <2>4, <2>5, <2>6, <2>7, <2>8, <2>9, <2>10,
       <2>11, <2>12 DEF Next
<1> QED
  BY <1>1, <1>2, PTL DEF Spec

(* As long as the slot has not been used otherwise it holds what the       *)
(* innermost scope found.                                                  *)
SlotInv ==
  /\ scopes \in Seq(Configs)
  /\ config \in Configs /\ stored \in Configs
  /\ intact => scopes # << >> /\ stored = scopes[Len(scopes)]

LEMMA SlotStep ==
  ASSUME SlotInv, [Next]_vars
  PROVE  /\ SlotInv'
         /\ Len(scopes') < Len(scopes) /\ intact => config' = scopes[Len(scopes)]
<1> USE DEF SlotInv
<1>1. CASE Set
  BY <1>1, SettableConsistent DEF Set
<1>2. CASE EnterScope
  <2>1. config' \in Configs
    BY <1>2, SettableConsistent DEF EnterScope
  <2>2. scopes' = Append(scopes, config) /\ stored' = config
    BY <1>2 DEF EnterScope
  <2>3. /\ scopes' \in Seq(Configs) /\ scopes' # << >>
        /\ Len(scopes') = Len(scopes) + 1 /\ scopes'[Len(scopes')] = config
    BY <2>2
  <2> QED
    BY <2>1, <2>2, <2>3
<1>3. CASE EnterScopeThrows
  BY <1>3 DEF EnterScopeThrows
<1>4. CASE LeaveScope
  <2>1. SubSeq(scopes, 1, Len(scopes) - 1) \in Seq(Configs)
    BY <1>4 DEF LeaveScope
  <2> QED
    BY <1>4, <2>1, SystemConsistent DEF LeaveScope, Restore
<1>5. CASE ExplicitSave
  BY <1>5 DEF ExplicitSave
<1>6. CASE ExplicitRestore
  BY <1>6, SystemConsistent DEF ExplicitRestore, Restore
<1>7. CASE ResetErrorHandler
  BY <1>7, SystemConsistent DEF ResetErrorHandler
<1>8. CASE CallFails
  BY <1>8 DEF CallFails
<1>9. ASSUME NEW mode \in Modes, CallWithMode(mode)
      PROVE  /\ SlotInv'
             /\ Len(scopes') < Len(scopes) /\ intact => config' = scopes[Len(scopes)]
  BY <1>9, SystemConsistent DEF CallWithMode
<1>10. CASE Catch
  BY <1>10 DEF Catch
<1>11. CASE CallWithHandler
  BY <1>11, SystemConsistent DEF CallWithHandler
<1>12. CASE UNCHANGED vars
  BY <1>12 DEF vars
<1> QED
  BY <1>1, <1>2, <1>3, <1>4, <1>5, <1>6, <1>7, <1>8, <1>9, <1>10,
     <1>11, <1>12 DEF Next

(* A scope inside which the slot is not used again restores what it found, *)
(* at any depth, whatever was set inside it and also when an exception     *)
(* leaves it.                                                              *)
THEOREM InnermostScopesRestore == Spec => IntactScopesRestore
<1>1. Init => SlotInv
  BY SystemConsistent DEF Init, SlotInv
<1>2. SlotInv /\ [Next]_vars => SlotInv'
  BY SlotStep
<1>3. SlotInv /\ [Next]_vars =>
        [Len(scopes') < Len(scopes) /\ intact => config' = scopes[Len(scopes)]]_vars
  BY SlotStep
<1> QED
  BY <1>1, <1>2, <1>3, PTL DEF Spec, IntactScopesRestore
=============================================================================

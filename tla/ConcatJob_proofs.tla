---------------------------- MODULE ConcatJob_proofs ----------------------------
(***************************************************************************)
(* What ConcatJob's runs check of a run of concat_hdf5, for any number of  *)
(* ranks, any command line and any number of collective calls.             *)
(***************************************************************************)
EXTENDS ConcatJob, TLAPS

Verdicts == {"parsing", "accepted", "refused", "undefined"}

Places ==
  {"start", "options", "open", "work", "unwind", "done", "caught",
   "badoptions", "return", "finish", "ended"}

OptionsTypeOK ==
  /\ library \in Libraries
  /\ nranks \in RankCounts
  /\ left \in Nat
  /\ opts \in [Options -> BOOLEAN]
  /\ inputs \in Nat
  /\ verdict \in Verdicts

JobTypeOK ==
  /\ ncalls \in Nat
  /\ pc \in [Ranks -> Places]
  /\ call \in [Ranks -> Nat]
  /\ status \in [Ranks -> 0 .. 2]
  /\ aborted \in BOOLEAN
  /\ failed \subseteq Ranks

(* Where a rank can be, given what became of the options: the try block is *)
(* only entered with options that were accepted, and MPI_Abort() is not    *)
(* for ranks whose options were refused.                                   *)
PlacedByVerdict(r) ==
  /\ At(r, "start") => verdict = "parsing"
  /\ pc[r] \in {"open", "work", "unwind", "done"} => verdict = "accepted"
  /\ pc[r] \in {"badoptions", "finish"} => verdict \in {"refused", "undefined"}
  /\ pc[r] \in {"caught", "return"} => verdict # "refused"
  /\ At(r, "return") /\ status[r] = 0 => verdict = "accepted"

(* A failure is on its way to the status of its rank, or has got there.    *)
Remembered(r) ==
  /\ r \in failed =>
       \/ pc[r] \in {"unwind", "caught", "badoptions"}
       \/ pc[r] \in {"return", "finish", "ended"} /\ status[r] # 0
  /\ pc[r] \in {"unwind", "caught"} => r \in failed
  /\ pc[r] \in {"badoptions", "finish"} => status[r] # 0

(* Who leaves the try block without a failure has made all the calls.      *)
AllCallsMade(r) ==
  At(r, "done") \/ (At(r, "return") /\ r \notin failed) => call[r] = CallsNeeded

(* The ranks end together, and MPI_Abort() is an end. *)
EndTogether ==
  /\ \A r \in Ranks : At(r, "ended") => All("ended")
  /\ aborted => All("ended")
  /\ badopts => ~ aborted

JobIInv ==
  /\ OptionsTypeOK
  /\ JobTypeOK
  /\ AcceptedFitsLibrary
  /\ EndTogether
  /\ \A r \in Ranks : PlacedByVerdict(r) /\ Remembered(r) /\ AllCallsMade(r)
  /\ FailureReported

LEMMA OptionsInitOK == OptionsInit => OptionsTypeOK /\ AcceptedFitsLibrary
<1>1. Defaults \in [Options -> BOOLEAN]
  <2>1. DOMAIN Defaults = Options /\ \A o \in Options : Defaults[o] \in BOOLEAN
    BY DEF Defaults, Options
  <2>2. Defaults = [o \in Options |-> Defaults[o]]
    BY DEF Defaults, Options
  <2> QED
    BY <2>1, <2>2
<1> QED
  BY <1>1, ArgumentsAssumption DEF OptionsInit, OptionsTypeOK, Verdicts, AcceptedFitsLibrary

(* The adjustments at the end of ProgramOptions(), for all combinations of *)
(* flags and every library.                                                *)
LEMMA AdjustedFits ==
  ASSUME OptionsTypeOK
  PROVE  /\ Adjusted(opts) \in [Options -> BOOLEAN]
         /\ LET o == Adjusted(opts) IN
            /\ o.filters /\ (nranks > 1 \/ (o.mpi_io /\ Modern)) => o.collective
            /\ library = "before 1.10.2" /\ nranks > 1 => ~ (o.filters /\ o.collective)
<1> DEFINE forced == ForceNeedsFilters(opts)
<1>1. forced \in [Options -> BOOLEAN]
  BY DEF OptionsTypeOK, ForceNeedsFilters, Options
<1>2. nranks \in Nat \ {0}
  BY RankCountsAssumption DEF OptionsTypeOK
<1> HIDE DEF forced
<1>3. CASE forced.collective
  <2>1. Adjusted(opts) = WithCollective(forced)
    BY <1>3 DEF Adjusted, forced
  <2>2. CASE ~ Modern /\ nranks = 1
    <3>1. Adjusted(opts) = [forced EXCEPT !.collective = FALSE]
      BY <2>1, <2>2 DEF WithCollective
    <3>2. Adjusted(opts) \in [Options -> BOOLEAN]
      BY <1>1, <3>1
    <3> QED
      BY <1>2, <2>2, <3>2
  <2>3. CASE ~ (~ Modern /\ nranks = 1) /\ library = "before 1.10.2" /\ forced.filters
    BY <1>1, <1>2, <1>3, <2>1, <2>3 DEF WithCollective, Options
  <2>4. CASE ~ (~ Modern /\ nranks = 1) /\ ~ (library = "before 1.10.2" /\ forced.filters)
    BY <1>1, <1>2, <1>3, <2>1, <2>4 DEF WithCollective
  <2> QED
    BY <2>2, <2>3, <2>4
<1>4. CASE ~ forced.collective
  <2>1. Adjusted(opts) = WithoutCollective(forced)
    BY <1>4 DEF Adjusted, forced
  <2>2. CASE forced.filters /\ (nranks > 1 \/ forced.mpi_io)
    BY <1>1, <1>2, <1>4, <2>1, <2>2 DEF WithoutCollective, Options
  <2>3. CASE ~ (forced.filters /\ (nranks > 1 \/ forced.mpi_io))
    BY <1>1, <1>2, <1>4, <2>1, <2>3 DEF WithoutCollective
  <2> QED
    BY <2>2, <2>3
<1> QED
  BY <1>3, <1>4

LEMMA OptionsNextOK ==
  ASSUME OptionsTypeOK, OptionsNext
  PROVE  OptionsTypeOK' /\ AcceptedFitsLibrary' /\ UNCHANGED <<library, nranks>>
<1>1. ASSUME NEW o \in Options, NEW value \in BOOLEAN, GiveOption(o, value)
      PROVE  /\ OptionsTypeOK' /\ UNCHANGED <<library, nranks>> /\ verdict' # "accepted"
  BY <1>1 DEF OptionsTypeOK, GiveOption, Consume
<1>2. ASSUME NEW n \in 1 .. MaxArguments, TakeArguments(n)
      PROVE  /\ OptionsTypeOK' /\ UNCHANGED <<library, nranks>> /\ verdict' # "accepted"
  BY <1>2, ArgumentsAssumption DEF OptionsTypeOK, TakeArguments, Consume
<1>3. ASSUME NEW n \in 0 .. MaxListed, ReadList(n)
      PROVE  /\ OptionsTypeOK' /\ UNCHANGED <<library, nranks>> /\ verdict' # "accepted"
  BY <1>3, ArgumentsAssumption DEF OptionsTypeOK, ReadList, Consume
<1>4. CASE ArgumentMissing \/ BadOption
  <2>1. OptionsTypeOK' /\ UNCHANGED <<library, nranks>> /\ verdict' # "accepted"
    BY <1>4 DEF OptionsTypeOK, ArgumentMissing, BadOption, Consume, Verdicts
  <2> QED
    BY <2>1 DEF AcceptedFitsLibrary
<1>5. CASE EndOptions
  <2>1. OptionsTypeOK'
    <3>1. PICK n \in ArgumentsLeft : inputs' = inputs + n
      BY <1>5 DEF EndOptions
    <3>2. n \in Nat
      BY DEF ArgumentsLeft, OptionsTypeOK
    <3>3. /\ left' = 0 /\ opts' = Adjusted(opts) /\ UNCHANGED <<library, nranks>>
          /\ verdict' \in {"refused", "accepted"}
      BY <1>5 DEF EndOptions
    <3> QED
      <4>1. inputs' \in Nat
        BY <3>1, <3>2 DEF OptionsTypeOK
      <4>2. opts' \in [Options -> BOOLEAN]
        BY <3>3, AdjustedFits
      <4> QED
        BY <3>3, <4>1, <4>2 DEF OptionsTypeOK, Verdicts
  <2>2. FiltersNeedCollective' /\ OldLibraryChooses'
    BY <1>5, AdjustedFits DEF EndOptions, FiltersNeedCollective, OldLibraryChooses, Modern
  <2> QED
    BY <1>5, <2>1, <2>2 DEF AcceptedFitsLibrary, EndOptions
<1> QED
  BY <1>1, <1>2, <1>3, <1>4, <1>5 DEF OptionsNext, AcceptedFitsLibrary

-----------------------------------------------------------------------------
(* The invariant *)

RankIInv(r) == PlacedByVerdict(r) /\ Remembered(r) /\ AllCallsMade(r)

LEMMA RankFacts ==
  ASSUME OptionsTypeOK
  PROVE  nranks \in Nat \ {0} /\ 0 \in Ranks
  BY RankCountsAssumption DEF OptionsTypeOK, Ranks

LEMMA InitJobIInv == Init => JobIInv
<1> SUFFICES ASSUME Init PROVE JobIInv
  OBVIOUS
<1>1. OptionsTypeOK /\ AcceptedFitsLibrary /\ verdict = "parsing"
  BY OptionsInitOK DEF Init, OptionsInit
<1>2. 0 \in Ranks
  BY <1>1, RankFacts
<1>3. JobTypeOK
  <2>1. ncalls \in Nat /\ aborted \in BOOLEAN /\ failed \subseteq Ranks
    BY CallsAssumption DEF Init
  <2>2. pc \in [Ranks -> Places]
    BY DEF Init, Places
  <2>3. call \in [Ranks -> Nat] /\ status \in [Ranks -> 0 .. 2]
    BY DEF Init
  <2> QED
    BY <2>1, <2>2, <2>3 DEF JobTypeOK
<1>4. \A r \in Ranks : pc[r] = "start"
  BY DEF Init
<1>5. \A r \in Ranks : RankIInv(r)
  BY <1>1, <1>4 DEF Init, RankIInv, PlacedByVerdict, Remembered, AllCallsMade, At
<1>6. EndTogether /\ FailureReported
  BY <1>1, <1>4 DEF Init, EndTogether, FailureReported, At, badopts
<1> QED
  BY <1>1, <1>3, <1>5, <1>6 DEF JobIInv, RankIInv

(* What an action that leaves the options alone has to keep. *)
LEMMA JobStep ==
  ASSUME JobIInv, UNCHANGED <<optvars, ncalls>>,
         JobTypeOK', EndTogether', (\A r \in Ranks : RankIInv(r))', FailureReported'
  PROVE  JobIInv'
<1>1. OptionsTypeOK' /\ AcceptedFitsLibrary'
  BY DEF JobIInv, optvars, OptionsTypeOK, AcceptedFitsLibrary, FiltersNeedCollective,
         OldLibraryChooses, Modern
<1> QED
  BY <1>1 DEF JobIInv, RankIInv

(* The steps of one rank that do not end anybody. *)
LEMMA OneRankMoves ==
  ASSUME JobIInv, NEW r \in Ranks,
         \/ ParseOptions(r) \/ RefuseOptions(r) \/ OptionsThrow(r)
         \/ FailsAlone(r) \/ EndWork(r) \/ Catch(r) \/ CatchOptions(r)
  PROVE  JobIInv'
<1>1. /\ UNCHANGED <<optvars, ncalls, call, aborted>>
      /\ ~ At(r, "ended")
  BY DEF ParseOptions, RefuseOptions, OptionsThrow, FailsAlone, EndWork, Catch, CatchOptions, At
<1>2. Ranks' = Ranks /\ CallsNeeded' = CallsNeeded /\ badopts' = badopts /\ verdict' = verdict
  BY <1>1 DEF optvars, Ranks, CallsNeeded, badopts
<1>3. PICK place \in Places \ {"ended", "start"} : pc' = [pc EXCEPT ![r] = place]
  BY DEF ParseOptions, RefuseOptions, OptionsThrow, FailsAlone, EndWork, Catch, CatchOptions, GoTo, Places
<1>4. JobTypeOK'
  BY <1>1, <1>2, <1>3 DEF JobIInv, JobTypeOK, RefuseOptions, Catch, StatusOf, ParseOptions,
    OptionsThrow, FailsAlone, EndWork, CatchOptions
<1>5. ~ aborted /\ \A q \in Ranks : ~ At(q, "ended")
  BY <1>1 DEF JobIInv, EndTogether, All
<1>6. EndTogether' /\ FailureReported'
  BY <1>1, <1>2, <1>3, <1>5 DEF EndTogether, FailureReported, At, All, JobIInv, JobTypeOK
<1>7. \A q \in Ranks \ {r} : pc'[q] = pc[q] /\ status'[q] = status[q] /\ (q \in failed' <=> q \in failed)
  BY <1>3 DEF JobIInv, JobTypeOK, ParseOptions, RefuseOptions, OptionsThrow, FailsAlone, EndWork,
    Catch, CatchOptions
<1>8. \A q \in Ranks \ {r} : RankIInv(q)'
  BY <1>1, <1>2, <1>7 DEF JobIInv, RankIInv, PlacedByVerdict, Remembered, AllCallsMade, At
<1>9. RankIInv(r)'
  <2>1. PlacedByVerdict(r) /\ Remembered(r) /\ AllCallsMade(r) /\ JobTypeOK
    BY DEF JobIInv
  <2>2. PlacedByVerdict(r)'
    BY <1>1, <1>2, <2>1 DEF PlacedByVerdict, Remembered, At, GoTo, JobTypeOK, ParseOptions,
      RefuseOptions, OptionsThrow, FailsAlone, EndWork, Catch, CatchOptions, StatusOf
  <2>3. Remembered(r)'
    BY <1>1, <1>2, <2>1 DEF Remembered, At, GoTo, JobTypeOK, ParseOptions,
      RefuseOptions, OptionsThrow, FailsAlone, EndWork, Catch, CatchOptions, StatusOf
  <2>4. AllCallsMade(r)'
    BY <1>1, <1>2, <2>1 DEF Remembered, AllCallsMade, At, GoTo, JobTypeOK, ParseOptions,
      RefuseOptions, OptionsThrow, FailsAlone, EndWork, Catch, CatchOptions, CallsOf
  <2> QED
    BY <2>2, <2>3, <2>4 DEF RankIInv
<1>10. (\A q \in Ranks : RankIInv(q))'
  BY <1>2, <1>8, <1>9
<1> QED
  BY <1>1, <1>4, <1>6, <1>10, JobStep

(* What a step does to all ranks at once, when it ends none of them. *)
LEMMA AllRanksMove ==
  ASSUME JobIInv,
         StartMPI \/ OpenOutput \/ OpenOutputFails \/ CollectiveCall \/ CallFails \/ CloseOutput
  PROVE  JobIInv'
<1>1. /\ UNCHANGED <<optvars, ncalls, status, aborted>>
      /\ \A r \in Ranks : ~ At(r, "ended")
  BY DEF StartMPI, OpenOutput, OpenOutputFails, CollectiveCall, CallFails, CloseOutput, All, At
<1>2. Ranks' = Ranks /\ CallsNeeded' = CallsNeeded /\ badopts' = badopts /\ verdict' = verdict
  BY <1>1 DEF optvars, Ranks, CallsNeeded, badopts
<1>3. OptionsTypeOK /\ JobTypeOK /\ EndTogether /\ 0 \in Ranks
  BY RankFacts DEF JobIInv
<1>4. \A r \in Ranks : PlacedByVerdict(r) /\ Remembered(r) /\ AllCallsMade(r)
  BY DEF JobIInv
<1>5. pc' \in [Ranks -> Places \ {"start", "ended"}]
  BY <1>1, <1>3 DEF StartMPI, OpenOutput, OpenOutputFails, CollectiveCall, CallFails, CloseOutput,
    AllGoTo, Places, JobTypeOK, All, At
<1>6. JobTypeOK'
  <2>1. call' \in [Ranks -> Nat] /\ failed' \subseteq Ranks
    BY <1>3 DEF JobTypeOK, StartMPI, OpenOutput, OpenOutputFails, CollectiveCall, CallFails, CloseOutput
  <2> QED
    BY <1>1, <1>2, <1>3, <1>5, <2>1 DEF JobTypeOK
<1>7. EndTogether' /\ FailureReported'
  BY <1>1, <1>2, <1>3, <1>5 DEF EndTogether, FailureReported, At, All
<1>8. ASSUME NEW r \in Ranks PROVE RankIInv(r)'
  <2>1. PlacedByVerdict(r) /\ Remembered(r) /\ AllCallsMade(r)
    BY <1>4
  <2>2. PlacedByVerdict(r)'
    BY <1>1, <1>2, <1>3, <2>1 DEF PlacedByVerdict, Remembered, At, All, AllGoTo, StartMPI, OpenOutput,
      OpenOutputFails, CollectiveCall, CallFails, CloseOutput
  <2>3. Remembered(r)'
    BY <1>1, <1>2, <1>3, <2>1 DEF Remembered, At, All, AllGoTo, StartMPI, OpenOutput,
      OpenOutputFails, CollectiveCall, CallFails, CloseOutput
  <2>4. AllCallsMade(r)'
    BY <1>1, <1>2, <1>3, <2>1 DEF AllCallsMade, Remembered, At, All, AllGoTo, StartMPI, OpenOutput,
      OpenOutputFails, CollectiveCall, CallFails, CloseOutput
  <2> QED
    BY <2>2, <2>3, <2>4 DEF RankIInv
<1>9. (\A r \in Ranks : RankIInv(r))'
  BY <1>2, <1>8
<1> QED
  BY <1>1, <1>6, <1>7, <1>9, JobStep

(* The steps after which every rank has ended. *)
LEMMA AllRanksEnd ==
  ASSUME JobIInv,
         StartFails \/ Finalize \/ \E r \in Ranks : OptionsCrash(r) \/ Abort(r)
  PROVE  JobIInv'
<1>1. UNCHANGED <<optvars, ncalls, call>> /\ pc' = [r \in Ranks |-> "ended"]
  BY DEF StartFails, Finalize, OptionsCrash, Abort, AllGoTo
<1>2. Ranks' = Ranks /\ CallsNeeded' = CallsNeeded /\ badopts' = badopts /\ verdict' = verdict
  BY <1>1 DEF optvars, Ranks, CallsNeeded, badopts
<1>3. OptionsTypeOK /\ JobTypeOK /\ EndTogether /\ 0 \in Ranks /\ nranks \in Nat
  BY RankFacts DEF JobIInv
<1>4. \A r \in Ranks : PlacedByVerdict(r) /\ Remembered(r) /\ AllCallsMade(r)
  BY DEF JobIInv
<1>5. JobTypeOK' /\ (All("ended"))'
  <2>1. status' \in [Ranks -> 0 .. 2] /\ aborted' \in BOOLEAN /\ failed' \subseteq Ranks
    <3>1. CASE StartFails
      BY <1>3, <3>1 DEF StartFails
    <3>2. CASE Finalize
      BY <1>3, <3>2 DEF Finalize, JobTypeOK
    <3>3. ASSUME NEW r \in Ranks, OptionsCrash(r)
          PROVE  status' \in [Ranks -> 0 .. 2] /\ aborted' \in BOOLEAN /\ failed' \subseteq Ranks
      BY <1>3, <3>3 DEF OptionsCrash, JobTypeOK
    <3>4. ASSUME NEW r \in Ranks, Abort(r)
          PROVE  status' \in [Ranks -> 0 .. 2] /\ aborted' \in BOOLEAN /\ failed' \subseteq Ranks
      BY <1>3, <3>4 DEF Abort, JobTypeOK
    <3> QED
      BY <3>1, <3>2, <3>3, <3>4
  <2> QED
    BY <1>1, <1>2, <1>3, <2>1 DEF JobTypeOK, All, At, Places
<1>6. badopts' => ~ aborted'
  <2>1. CASE StartFails
    BY <1>2, <1>3, <1>4, <2>1 DEF StartFails, All, PlacedByVerdict, badopts
  <2>2. CASE Finalize
    BY <1>2, <1>3, <2>2 DEF Finalize, EndTogether
  <2>3. ASSUME NEW r \in Ranks, OptionsCrash(r) PROVE badopts' => ~ aborted'
    BY <1>2, <1>3, <2>3 DEF OptionsCrash, EndTogether
  <2>4. ASSUME NEW r \in Ranks, Abort(r) PROVE badopts' => ~ aborted'
    BY <1>2, <1>4, <2>4 DEF Abort, WantsAbort, At, PlacedByVerdict, badopts
  <2> QED
    BY <2>1, <2>2, <2>3, <2>4
<1>7. EndTogether'
  BY <1>5, <1>6 DEF EndTogether
<1>8. \/ \A r \in Ranks : status'[r] # 0
      \/ UNCHANGED <<status, failed>> /\ \A r \in Ranks : status[r] = 0 =>
           failed = {} /\ \A q \in Ranks : call[q] = CallsNeeded
  <2>1. CASE StartFails
    BY <2>1 DEF StartFails
  <2>2. CASE Finalize
    <3>1. \A r \in Ranks : pc[r] \in {"return", "finish"}
      BY <2>2 DEF Finalize
    <3>2. ASSUME NEW r \in Ranks, status[r] = 0, NEW q \in Ranks
          PROVE  q \notin failed /\ call[q] = CallsNeeded
      <4>1. At(r, "return") /\ verdict = "accepted"
        BY <1>4, <3>1, <3>2 DEF Remembered, PlacedByVerdict, At
      <4>2. At(q, "return")
        BY <1>4, <3>1, <4>1 DEF PlacedByVerdict, At
      <4>3. status[q] = 0
        BY <2>2, <3>2, <4>2 DEF Finalize, WantsAbort
      <4> QED
        BY <1>4, <4>2, <4>3 DEF Remembered, AllCallsMade, At
    <3> QED
      BY <1>3, <2>2, <3>2 DEF Finalize, JobTypeOK
  <2>3. ASSUME NEW r \in Ranks, OptionsCrash(r) PROVE \A q \in Ranks : status'[q] # 0
    BY <2>3 DEF OptionsCrash
  <2>4. ASSUME NEW r \in Ranks, Abort(r) PROVE \A q \in Ranks : status'[q] # 0
    BY <2>4 DEF Abort, WantsAbort
  <2> QED
    BY <2>1, <2>2, <2>3, <2>4
<1>9. FailureReported'
  BY <1>1, <1>2, <1>8 DEF FailureReported, At
<1>10. ASSUME NEW r \in Ranks PROVE RankIInv(r)'
  <2>1. pc'[r] = "ended" /\ (r \in failed' => status'[r] # 0)
    BY <1>1, <1>8
  <2> QED
    BY <2>1 DEF RankIInv, PlacedByVerdict, Remembered, AllCallsMade, At
<1>11. (\A r \in Ranks : RankIInv(r))'
  BY <1>2, <1>10
<1> QED
  BY <1>1, <1>5, <1>7, <1>9, <1>11, JobStep

LEMMA ParseJobIInv ==
  ASSUME JobIInv, Parse
  PROVE  JobIInv'
<1>1. /\ UNCHANGED <<ncalls, pc, call, status, aborted, failed>>
      /\ \A r \in Ranks : pc[r] = "options"
  BY DEF Parse, jobvars, All, At
<1>2. OptionsTypeOK' /\ AcceptedFitsLibrary' /\ UNCHANGED <<library, nranks>>
  BY OptionsNextOK DEF JobIInv, Parse
<1>3. Ranks' = Ranks /\ 0 \in Ranks /\ JobTypeOK /\ EndTogether
  BY <1>2, RankFacts DEF JobIInv, Ranks
<1>4. \A r \in Ranks : r \notin failed
  BY <1>1 DEF JobIInv, Remembered
<1>5. JobTypeOK'
  BY <1>1, <1>3 DEF JobTypeOK
<1>6. EndTogether' /\ FailureReported'
  BY <1>1, <1>3 DEF EndTogether, FailureReported, At, All
<1>7. ASSUME NEW r \in Ranks PROVE RankIInv(r)'
  BY <1>1, <1>4 DEF RankIInv, PlacedByVerdict, Remembered, AllCallsMade, At
<1> QED
  BY <1>2, <1>3, <1>5, <1>6, <1>7 DEF JobIInv, RankIInv

LEMMA StepJobIInv == JobIInv /\ [Next]_vars => JobIInv'
<1> SUFFICES ASSUME JobIInv, [Next]_vars PROVE JobIInv'
  OBVIOUS
<1>1. CASE Next
  <2>1. CASE Parse
    BY <2>1, ParseJobIInv
  <2>2. CASE Joint
    BY <2>2, AllRanksMove, AllRanksEnd DEF Joint
  <2>3. ASSUME NEW r \in Ranks, Step(r) \/ FailsAlone(r) PROVE JobIInv'
    BY <2>3, OneRankMoves, AllRanksEnd DEF Step
  <2> QED
    BY <1>1, <2>1, <2>2, <2>3 DEF Next
<1>2. CASE UNCHANGED vars
  <2>1. UNCHANGED optvars /\ UNCHANGED <<ncalls, pc, call, status, aborted, failed>>
    BY <1>2 DEF vars, jobvars
  <2>2. Ranks' = Ranks /\ CallsNeeded' = CallsNeeded /\ badopts' = badopts /\ verdict' = verdict
    BY <2>1 DEF optvars, Ranks, CallsNeeded, badopts
  <2>3. JobTypeOK' /\ EndTogether'
    BY <2>1, <2>2 DEF JobIInv, JobTypeOK, EndTogether, All, At
  <2>4. FailureReported'
    BY <2>1, <2>2 DEF JobIInv, FailureReported, At
  <2>5. (\A r \in Ranks : RankIInv(r))'
    BY <2>1, <2>2 DEF JobIInv, RankIInv, PlacedByVerdict, Remembered, AllCallsMade, At
  <2> QED
    BY <2>1, <2>3, <2>4, <2>5, JobStep
<1> QED
  BY <1>1, <1>2

THEOREM JobInvariance == Spec => []JobIInv
  BY InitJobIInv, StepJobIInv, PTL DEF Spec

-----------------------------------------------------------------------------
(* The theorems *)

(* ProgramOptions(): whatever options are given in whatever order, what is *)
(* accepted are filters and writes that the library can do with as many    *)
(* processes as there are.                                                 *)
THEOREM AcceptedOptionsFit == Spec => []AcceptedFitsLibrary
<1>1. JobIInv => AcceptedFitsLibrary
  BY DEF JobIInv
<1> QED
  BY <1>1, JobInvariance, PTL

(* main(): whatever fails in whatever ranks, and whoever aborts, a status  *)
(* of 0 at the end means that nothing failed anywhere and no collective    *)
(* call was left out.                                                      *)
THEOREM FailuresReported == Spec => []FailureReported
<1>1. JobIInv => FailureReported
  BY DEF JobIInv
<1> QED
  BY <1>1, JobInvariance, PTL

(* main()'s want_abort: with options that are refused no output is opened  *)
(* and nobody aborts the others.                                           *)
THEOREM MistakesAreNoAbort == Spec => []MistakesEndNormally
<1>1. JobIInv => MistakesEndNormally
  BY DEF JobIInv, EndTogether, MistakesEndNormally, PlacedByVerdict, At, badopts
<1> QED
  BY <1>1, JobInvariance, PTL
=============================================================================

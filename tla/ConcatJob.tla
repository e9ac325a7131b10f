------------------------------ MODULE ConcatJob ------------------------------
(***************************************************************************)
(* A run of concat_hdf5 by several MPI processes: main() of                *)
(* src/hep_hpc/concat_hdf5/concat_hdf5.cpp, from the options to the end.   *)
(*                                                                         *)
(* The output file is shared, so that opening it, closing it, creating or  *)
(* extending a dataset, and collective transfers are calls that no process *)
(* leaves before all have entered: each is one step of all ranks.  So is   *)
(* MPI_Finalize().  MPI_Abort() ends everybody at once.                    *)
(***************************************************************************)
EXTENDS ProgramOptions

CONSTANT CallCounts \* how many collective calls the inputs may need

ASSUME CallsAssumption == CallCounts \subseteq Nat

VARIABLES
  ncalls,   \* collective calls that the inputs need
  pc,       \* where in main() each rank is
  call,     \* collective calls each rank has made
  status,   \* what main() returns, or passes to MPI_Abort()
  aborted,  \* MPI_Abort() has been called
  failed    \* history: the ranks in which something went wrong

jobvars == <<ncalls, pc, call, status, aborted, failed>>
vars    == <<optvars, jobvars>>

Ranks == 0 .. (nranks - 1)

badopts == verdict = "refused"

At(r, place) == pc[r] = place
All(place) == \A r \in Ranks : At(r, place)
GoTo(r, place) == pc' = [pc EXCEPT ![r] = place]
AllGoTo(place) == pc' = [r \in Ranks |-> place]

Init ==
  /\ OptionsInit
  /\ ncalls \in CallCounts
  /\ pc = [r \in Ranks |-> "start"]
  /\ call = [r \in Ranks |-> 0]
  /\ status = [r \in Ranks |-> 0]
  /\ aborted = FALSE
  /\ failed = {}

(* Without inputs there is nothing to call. *)
CallsNeeded == IF inputs = 0 THEN 0 ELSE ncalls

SkipsTransfersBug(r) == IF r = 0 \/ CallsNeeded = 0 THEN CallsNeeded ELSE CallsNeeded - 1

(* Every rank takes part in every call, also one that transfers no rows.   *)
CallsOf(r) == CallsNeeded

(* MPIInstance: MPI_Init_thread() gives the level of threads asked for.    *)
StartMPI ==
  /\ All("start")
  /\ AllGoTo("options")
  /\ UNCHANGED <<optvars, ncalls, call, status, aborted, failed>>

(* It gives another one, lower or higher, and the constructor aborts; or   *)
(* it fails, and the exception leaves main().                              *)
StartFails ==
  /\ All("start")
  /\ aborted' = TRUE
  /\ failed' = Ranks
  /\ status' = [r \in Ranks |-> 1]
  /\ AllGoTo("ended")
  /\ UNCHANGED <<optvars, ncalls, call>>

(* All ranks have the same command line, and take the same from it.        *)
Parse == All("options") /\ OptionsNext /\ UNCHANGED jobvars

ParseOptions(r) ==
  /\ At(r, "options") /\ verdict = "accepted"
  /\ GoTo(r, "open")
  /\ UNCHANGED <<optvars, ncalls, call, status, aborted, failed>>

(* ProgramOptionsException: the usage is shown, nothing has been opened;   *)
(* any status but 0 is like another.  What lies behind the last argument   *)
(* may not be the same on all ranks.                                       *)
RefuseOptions(r) ==
  /\ At(r, "options") /\ verdict \in {"refused", "undefined"}
  /\ status' = [status EXCEPT ![r] = 2]
  /\ failed' = failed \cup {r}
  /\ GoTo(r, "badoptions")
  /\ UNCHANGED <<optvars, ncalls, call, aborted>>

(* Another exception, of a vector that cannot have a negative length. *)
OptionsThrow(r) ==
  /\ At(r, "options") /\ verdict = "undefined"
  /\ failed' = failed \cup {r}
  /\ GoTo(r, "caught")
  /\ UNCHANGED <<optvars, ncalls, call, status, aborted>>

(* A crash of one process ends the job. *)
OptionsCrash(r) ==
  /\ At(r, "options") /\ verdict = "undefined"
  /\ failed' = failed \cup {r}
  /\ status' = [q \in Ranks |-> 1]
  /\ AllGoTo("ended")
  /\ UNCHANGED <<optvars, ncalls, call, aborted>>

OpenOutput ==
  /\ All("open")
  /\ AllGoTo("work")
  /\ UNCHANGED <<optvars, ncalls, call, status, aborted, failed>>

(* The HDF5 error mode is EXCEPTION by now: File::File() throws, and there *)
(* is no output that would have to be closed.                              *)
OpenOutputFails ==
  /\ All("open")
  /\ AllGoTo("caught")
  /\ failed' = Ranks
  /\ UNCHANGED <<optvars, ncalls, call, status, aborted>>

CollectiveCall ==
  /\ All("work")
  /\ \A r \in Ranks : call[r] < CallsOf(r)
  /\ call' = [r \in Ranks |-> call[r] + 1]
  /\ UNCHANGED <<optvars, ncalls, pc, status, aborted, failed>>

(* The call fails in every rank: an input cannot be opened, the inputs do  *)
(* not fit together, the buffer is too small for a row.                    *)
CallFails ==
  /\ All("work")
  /\ \A r \in Ranks : call[r] < CallsOf(r)
  /\ AllGoTo("unwind")
  /\ failed' = Ranks
  /\ UNCHANGED <<optvars, ncalls, call, status, aborted>>

(* One rank fails between two calls: no memory, an input it cannot read.   *)
FailsAlone(r) ==
  /\ At(r, "work") /\ call[r] < CallsOf(r)
  /\ GoTo(r, "unwind")
  /\ failed' = failed \cup {r}
  /\ UNCHANGED <<optvars, ncalls, call, status, aborted>>

EndWork(r) ==
  /\ At(r, "work") /\ call[r] = CallsOf(r)
  /\ GoTo(r, "done")
  /\ UNCHANGED <<optvars, ncalls, call, status, aborted, failed>>

(* The concatenator is destroyed at the end of the try block, or before    *)
(* the exception is caught, and closes the output: again all ranks in one. *)
CloseOutput ==
  /\ \A r \in Ranks : At(r, "done") \/ At(r, "unwind")
  /\ pc' = [r \in Ranks |-> IF At(r, "unwind") THEN "caught" ELSE "return"]
  /\ UNCHANGED <<optvars, ncalls, call, status, aborted, failed>>

StatusForgottenBug(r) == 0

StatusOf(r) == 1

(* catch (std::exception const &) and catch (...). *)
Catch(r) ==
  /\ At(r, "caught")
  /\ status' = [status EXCEPT ![r] = StatusOf(r)]
  /\ GoTo(r, "return")
  /\ UNCHANGED <<optvars, ncalls, call, aborted, failed>>

(* catch (ProgramOptionsException const &), where want_abort is reset. *)
CatchOptions(r) ==
  /\ At(r, "badoptions")
  /\ GoTo(r, "finish")
  /\ UNCHANGED <<optvars, ncalls, call, status, aborted, failed>>

AlwaysAbortsBug(r) == pc[r] \in {"return", "finish"} /\ status[r] # 0 /\ Ranks # {0}

(* want_abort: more than one rank, and not a ProgramOptionsException. *)
WantsAbort(r) == At(r, "return") /\ status[r] # 0 /\ Ranks # {0}

Abort(r) ==
  /\ WantsAbort(r)
  /\ aborted' = TRUE
  /\ status' = [q \in Ranks |-> status[r]]
  /\ AllGoTo("ended")
  /\ UNCHANGED <<optvars, ncalls, call, failed>>

(* ~MPIInstance() *)
Finalize ==
  /\ \A r \in Ranks : pc[r] \in {"return", "finish"} /\ ~ WantsAbort(r)
  /\ AllGoTo("ended")
  /\ UNCHANGED <<optvars, ncalls, call, status, aborted, failed>>

Step(r) ==
  \/ ParseOptions(r)
  \/ RefuseOptions(r)
  \/ OptionsThrow(r)
  \/ OptionsCrash(r)
  \/ EndWork(r)
  \/ Catch(r)
  \/ CatchOptions(r)
  \/ Abort(r)

Joint ==
  \/ StartMPI
  \/ StartFails
  \/ OpenOutput
  \/ OpenOutputFails
  \/ CollectiveCall
  \/ CallFails
  \/ CloseOutput
  \/ Finalize

Next == Parse \/ Joint \/ \E r \in Ranks : Step(r) \/ FailsAlone(r)

(* The options are read to their end, every rank runs, and a call that all *)
(* ranks have entered is completed.                                        *)
Fairness ==
  /\ WF_vars(Parse)
  /\ WF_vars(Joint)
  /\ \A n \in RankCounts : \A r \in 0 .. (n - 1) : WF_vars(r \in Ranks /\ Step(r))

Spec == Init /\ [][Next]_vars /\ Fairness

-----------------------------------------------------------------------------
Ended == All("ended")

(* What went wrong anywhere is known everywhere at the end: the run's      *)
(* status is 0 only if nothing failed and every rank made every call that  *)
(* the inputs need.                                                        *)
FailureReported ==
  \A r \in Ranks :
    At(r, "ended") /\ status[r] = 0 =>
      failed = {} /\ \A q \in Ranks : call[q] = CallsNeeded

(* concat_hdf5.cpp:731, "Let everyone finish normally": a mistake in the   *)
(* options does not abort the job, and opens no output.                    *)
MistakesEndNormally ==
  badopts => ~ aborted /\ \A r \in Ranks : ~ At(r, "open") /\ ~ At(r, "work")

(* A run in which whatever fails fails in all ranks, or in none, comes to  *)
(* its end in every rank.                                                  *)
EndsWhenFailingTogether == <>[](failed \in {{}, Ranks}) => <>Ended

(* MPIInstance.hpp:9-12, "safe shutdown": every run comes to its end, in   *)
(* every rank, whatever goes wrong.                                        *)
EveryRankEnds == <>Ended
=============================================================================

--------------------------- MODULE ProgramOptions ---------------------------
(***************************************************************************)
(* The options of concat_hdf5: one option after another is taken from the  *)
(* command line, then the combination is adjusted or refused               *)
(* (src/hep_hpc/concat_hdf5/concat_hdf5.cpp, ProgramOptions).              *)
(*                                                                         *)
(* Of the values of the options only what decides how the output is opened *)
(* and written is kept, and the files that are to be read.  Arguments are  *)
(* counted; what the next one is, the model leaves open.                   *)
(***************************************************************************)
EXTENDS Naturals

CONSTANTS
  RankCounts,   \* numbers of MPI processes
  Libraries,    \* versions of HDF5 the program may be built with
  MaxArguments, \* bound: arguments of a command line
  MaxListed     \* bound: files named in a list file

ASSUME RankCountsAssumption == RankCounts \subseteq Nat \ {0}
ASSUME LibrariesAssumption ==
  Libraries \subseteq {"before 1.10.2", "1.10.2", "1.10.3 and later"}
ASSUME ArgumentsAssumption == MaxArguments \in Nat /\ MaxListed \in Nat

VARIABLES
  library, \* the version of HDF5
  nranks,  \* n_ranks
  left,    \* eargs - iarg: arguments not looked at yet
  opts,    \* the flags of ProgramOptions
  inputs,  \* how many files are to be read
  verdict  \* "parsing", then "accepted", "refused" by an exception, or
           \* "undefined": an iterator has passed the end of the arguments

optvars == <<library, nranks, left, opts, inputs, verdict>>

Options ==
  {"append", "overwrite", "collective", "filters", "force", "mpi_io"}

Defaults ==
  [append |-> FALSE, overwrite |-> TRUE, collective |-> TRUE,
   filters |-> TRUE, force |-> FALSE, mpi_io |-> FALSE]

OptionsInit ==
  /\ library \in Libraries
  /\ nranks \in RankCounts
  /\ left \in 0 .. MaxArguments
  /\ opts = Defaults
  /\ inputs = 0
  /\ verdict = "parsing"

(* The option and its `n' arguments have been dealt with. *)
Consume(n) ==
  /\ verdict = "parsing"
  /\ n < left
  /\ left' = left - (1 + n)

(* -a, -f, -C, +C, -F, +F, --force-compression, --mpi-io: only collective  *)
(* writes and filters can be switched off.  -v changes nothing here.       *)
GiveOption(o, value) ==
  /\ Consume(0)
  /\ value \/ o \in {"collective", "filters"}
  /\ opts' = [opts EXCEPT ![o] = value]
  /\ UNCHANGED <<library, nranks, inputs, verdict>>

(* -n, -o, --mem-max, --verbosity with one argument, whatever it looks     *)
(* like; --only-groups and --filename-column with as many as follow.       *)
TakeArguments(n) ==
  /\ n > 0 /\ Consume(n)
  /\ UNCHANGED <<library, nranks, opts, inputs, verdict>>

(* -I: a list that cannot be opened reads like one without a name. *)
ReadList(n) ==
  /\ Consume(1)
  /\ inputs' = inputs + n
  /\ UNCHANGED <<library, nranks, opts, verdict>>

(* coerce_n_sub_args() for an option that is the last argument: what is    *)
(* read behind the end, and what comes of it, is up to the build.          *)
ArgumentMissing ==
  /\ Consume(0) /\ left = 1
  /\ verdict' = "undefined"
  /\ UNCHANGED <<library, nranks, opts, inputs>>

(* An unknown option, one with a wrong number of arguments or a bad one,   *)
(* --help; and an empty name for the output.                               *)
BadOption ==
  /\ Consume(0)
  /\ verdict' = "refused"
  /\ UNCHANGED <<library, nranks, opts, inputs>>

-----------------------------------------------------------------------------
(* What is done to the flags when all options have been seen, in order.    *)

Modern == library = "1.10.3 and later"

ForceNeedsFilters(o) ==
  IF o.force THEN [o EXCEPT !.filters = TRUE] ELSE o

RanksOnlyBug(o) ==
  IF o.filters /\ nranks > 1 THEN [o EXCEPT !.filters = FALSE] ELSE o

(* Filters with MPI I/O need collective writes. *)
WithoutCollective(o) ==
  IF o.filters /\ (nranks > 1 \/ o.mpi_io) THEN [o EXCEPT !.filters = FALSE] ELSE o

FiltersKeptBug(o) ==
  IF ~ Modern /\ nranks = 1
  THEN [o EXCEPT !.collective = FALSE]
  ELSE o

(* Older libraries: no collective writes in one process, and no filters    *)
(* with collective writes.                                                 *)
WithCollective(o) ==
  IF ~ Modern /\ nranks = 1
  THEN [o EXCEPT !.collective = FALSE]
  ELSE IF library = "before 1.10.2" /\ o.filters
  THEN [o EXCEPT !.filters = FALSE]
  ELSE o

Adjusted(o) ==
  LET forced == ForceNeedsFilters(o)
  IN  IF forced.collective THEN WithCollective(forced) ELSE WithoutCollective(forced)

ArgumentsLeft == {left, IF left = 0 THEN 0 ELSE left - 1}

(* Options end with the arguments, at "--", or at the first that does not  *)
(* look like one; the rest are files.                                      *)
EndOptions ==
  /\ verdict = "parsing"
  /\ left' = 0
  /\ \E n \in ArgumentsLeft : inputs' = inputs + n
  /\ opts' = Adjusted(opts)
  /\ verdict' = IF opts.append /\ opts.overwrite THEN "refused" ELSE "accepted"
  /\ UNCHANGED <<library, nranks>>

OptionsNext ==
  \/ \E o \in Options, value \in BOOLEAN : GiveOption(o, value)
  \/ \E n \in 1 .. MaxArguments : TakeArguments(n)
  \/ \E n \in 0 .. MaxListed : ReadList(n)
  \/ ArgumentMissing
  \/ BadOption
  \/ EndOptions

-----------------------------------------------------------------------------
(* concat_hdf5.cpp:633-634, "Output filters require [...] collective writes *)
(* with MPI I/O": whatever is given in whatever order, filters that several *)
(* processes write through, or one that uses MPI I/O with a modern library, *)
(* are written collectively.  (HDF5 1.10.2 and one process with --mpi-io:  *)
(* collective writes are switched off, and filters are not looked at.)     *)
FiltersNeedCollective ==
  opts.filters /\ (nranks > 1 \/ (opts.mpi_io /\ Modern)) => opts.collective

(* concat_hdf5.cpp:655-658: with an older library, several processes have  *)
(* either collective writes or filters.                                    *)
OldLibraryChooses ==
  library = "before 1.10.2" /\ nranks > 1 => ~ (opts.filters /\ opts.collective)

(* What is accepted can be written with the library at hand, by as many    *)
(* processes as there are.                                                 *)
AcceptedFitsLibrary ==
  verdict = "accepted" => FiltersNeedCollective /\ OldLibraryChooses
=============================================================================

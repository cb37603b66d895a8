-------------------------------- MODULE MCShared -------------------------------
(****************************************************************************)
(* What several processes, people or machines share, checked side by side,  *)
(* each on an instance of its own: the register, one project's memory, and a *)
(* checkout whose submodules are converted. A behaviour is one of one       *)
(* component, and what the others keep stays at None.  The register's       *)
(* constants are the configuration's.                                       *)
(****************************************************************************)
EXTENDS Register

CONSTANTS Which, Machines, Keepers, MaxRecords, MaxCommits, Habits, During, Behind, None, Holder, MaxWork, MaxConversions

VARIABLES
    which,                                   \* the component that runs
    commits, origin, mach, records,
    checkout, conv, disturbed, torn, typed, edits

\* Four records, two that their contributors register and two that people may add by hand.
TwoBranches == <<"p", "q">>
FourHomes   == [a |-> "p", b |-> "q", late |-> "q", stray |-> "q"]
TwoReaders  == [ann |-> {"a", "b", "stray"}, bob |-> {"a", "b", "late", "stray"}]

Mem  == INSTANCE Machines
\* 4 in 3 in 2 in the root, and 5 in the root.
FiveRepos == <<0, 1, 2, 3, 1>>
Subs == INSTANCE Submodules WITH MaxRuns <- MaxConversions

\* A submodule sits in one repository, and none in itself.
ASSUME ConversionAssumption == Subs!Nested

bounds       == <<runs, faults>>
registerOnly == <<remote, known, cloned, seen, mine, sure, hands>>
machinesOnly == <<commits, origin, mach, records>>
submodulesOnly == <<checkout, conv, disturbed, torn, typed, edits>>
all          == <<which, bounds, registerOnly, machinesOnly, submodulesOnly>>

\* A variable of a component that does not run holds nothing.
RegisterAbsent ==
    /\ filed = None /\ index = None /\ gone = None /\ known = None /\ cloned = None
    /\ seen = None /\ dirty = None /\ step = None /\ own = None /\ route = None
    /\ base = None /\ tries = None /\ made = None /\ sure = None /\ hands = None
MachinesAbsent == commits = None /\ origin = None /\ mach = None /\ records = None
SubmodulesAbsent ==
    checkout = None /\ conv = None /\ disturbed = None /\ torn = None /\ typed = None /\ edits = None

InitOne ==
    /\ which \in Which
    /\ CASE which = "register"   -> Init /\ MachinesAbsent /\ SubmodulesAbsent
         [] which = "machines"   -> Mem!Init /\ RegisterAbsent /\ SubmodulesAbsent /\ runs = 0
         [] which = "submodules" -> Subs!Init /\ RegisterAbsent /\ MachinesAbsent /\ runs = 0 /\ faults = 0

Registering == which = "register" /\ Next /\ UNCHANGED <<which, machinesOnly, submodulesOnly>>
Travelling  == which = "machines" /\ Mem!Next /\ UNCHANGED <<which, runs, registerOnly, submodulesOnly>>
Adopting    == which = "submodules" /\ Subs!Next /\ UNCHANGED <<which, bounds, registerOnly, machinesOnly>>

OneRuns == Registering \/ Travelling \/ Adopting

Shared == InitOne /\ [][OneRuns]_all

-----------------------------------------------------------------------------
(* The properties of the components *)

\* Whoever else registers, crashes or edits the register in between: the index is acceptable to who
\* did not see it rewritten, what one was told is registered stays so, and each covered record is answered for.
RegisterAnswers == which = "register" => RegisterIsSound
\* A command only ever adds to the index it finds, and to what its contributor last found sound.
IndexGrows == [][which = "register" => IndexOnlyGrows]_all
\* No recorded entry is forgotten, a memory made by default stays on its machine, and the shared base is
\* nobody's.
MemoryIsKept == which = "machines" => Mem!MemoryIsKept
\* Origin only gains, an adoption that fails leaves what was there, a repair keeps the records of both machines,
\* and every ledger published still verifies.
NothingGivenUp == [][which = "machines" => Mem!NothingGivenUp]_all
\* A conversion nobody disturbs does every submodule at every depth or none; one that says it is done left
\* each ignored by its holder.
ConversionIsWhole == which = "submodules" => Subs!ConversionIsWhole

(* What does not hold. *)

\* A published memory whose push is refused can be repaired by a command.
RefusedIsRepairable == which = "machines" => Mem!RefusedIsRepairable
\* "a folded entry's `seq` is always lower than any pending one"
NumberedAcrossTheFold == which = "machines" => Mem!NumberedAcrossTheFold
\* A first registration notices an index rewritten since the clone.
FirstNotices == [][which = "register" => FirstRunNotices]_all
\* What a conversion writes itself does not stop the next one.
OwnFilesNeverBlock == which = "submodules" => Subs!OwnFilesNeverBlock
\* A conversion cut short is finished by the command its message names.
ImportFinishesTheJob == which = "submodules" => Subs!ImportFinishesTheJob
=============================================================================

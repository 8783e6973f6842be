---------------------------- MODULE AnalyzedInputs ----------------------------
(***************************************************************************)
(* The pure parts of an analysis, given any input at all: a behaviour      *)
(* hands one input to the code it is for, and the properties say what that *)
(* code makes of it.  Nothing bounds the inputs but what they are.         *)
(***************************************************************************)
EXTENDS Correlation, ScannerNormalization, PartitionTables, MediaValidation, CompoundFiles

VARIABLES
    kind,       \* of the input: a disk, a volume, an archive, a compound file, a scanner's process or
                \* the objects of a job
    input,
    analyzed
handed == <<kind, input, analyzed>>

Kinds == {"disk", "iso", "lha", "cfb", "process", "job"}
Archives == [traits : SUBSET Traits, large : BOOLEAN, archive : Seq(SUBSET Faults)]
Processed == [scanner : FileScanners \cup SystemScanners, process : Processes, setting : BOOLEAN]
Jobs == Seq(JobObjects(Nat)) \ {<<>>}
IsProper(what, given) ==
    CASE what = "disk" -> IsImage(given)
      [] what = "iso" -> IsVolume(given)
      [] what = "lha" -> given \in Archives
      [] what = "cfb" -> IsCompound(given)
      [] what = "process" -> given \in Processed
      [] what = "job" -> given \in Jobs

Init == kind \in Kinds /\ input = "none" /\ analyzed = FALSE
Hand == ~analyzed /\ IsProper(kind, input') /\ analyzed' = TRUE /\ UNCHANGED kind
Spec == Init /\ [][Hand]_handed

Given(what) == analyzed /\ kind = what

\* TableIsTrue of every disk (partitions.py:81-272).
TablesAreTrue == Given("disk") => TableIsTrue(input)
\* HashCoversPartition of every disk (partitions.py:15-59, 275-292).
HashesCoverPartitions == Given("disk") => HashCoversPartition(input)
\* IsoIsReadWhole of every volume (structural.py:509-607), LhaIsReadWhole of every archive (609-651).
MediaAreReadWhole ==
    /\ Given("iso") => IsoIsReadWhole(input)
    /\ Given("lha") => LhaIsReadWhole(input.traits, input.large, input.archive)
\* CompoundIsReadOrRefused for every compound file (document.py:389-502).
CompoundFilesAreReadOrRefused == Given("cfb") => CompoundIsReadOrRefused(input)
\* NormalizationIsConservative for every scanner's process (adapters.py:166-376).
VerdictsAreConservative ==
    Given("process") => NormalizationIsConservative(input.scanner, input.process, input.setting)
\* CorrelationIsBounded for every job and every way the remote service answers (service.py:37-66).
JobsAreBounded == Given("job") => CorrelationIsBounded(input)
\* FailureIsNotAbsence for every job (providers.py:91-197).
AnswersAreEarned == Given("job") => FailureIsNotAbsence(input)
=============================================================================

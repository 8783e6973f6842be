------------------------ MODULE ScannerNormalization ------------------------
(***************************************************************************)
(* What becomes of a scanner's process: the runner of                      *)
(* src/avbox/scanners/command.py, the probes of the adapters and the       *)
(* tables by which src/avbox/scanners/adapters.py turns exit code and      *)
(* output into a verdict.  Pure operators.                                 *)
(*                                                                         *)
(* A process is how it went: its exit code, whether it outlived the        *)
(* timeout, whether bubblewrap is there, and what it wrote.  The text of a *)
(* stream is the set of the kinds of lines in it.                          *)
(***************************************************************************)
EXTENDS Integers, FiniteSets

FileScanners == {"clamav", "yara", "yara-x", "loki", "maldet"}
SystemScanners == {"chkrootkit", "rkhunter"}

\* "FOUND" ends with that word, "ALERT" and "WARNING" contain theirs, "hits" has a count of at
\* least one; "bwrap" is a first line of bubblewrap's own; "blank" is only spaces.
Lines == {"FOUND", "ALERT", "WARNING", "hits", "bwrap", "blank", "other"}
Processes ==    \* the exit code of one that a signal killed is negative
    [exit : Int, late : BOOLEAN, bwrap : BOOLEAN, stdout : SUBSET Lines, stderr : SUBSET Lines]

\* IsolatedCommandRunner.run(): a late process is killed and gets exit code 124; an isolation
\* failure is bubblewrap complaining and nothing being run.
BugRun(process, useBwrap) ==
    [exit |-> IF process.late THEN 124 ELSE process.exit, timedOut |-> process.late,
     isolated |-> useBwrap /\ process.bwrap, isolationFailed |-> FALSE,
     stdout |-> process.stdout, stderr |-> process.stderr]
Run(process, useBwrap) ==
    LET isolated == useBwrap /\ process.bwrap
    IN  [exit |-> IF process.late THEN 124 ELSE process.exit,
         timedOut |-> process.late,
         isolated |-> isolated,
         isolationFailed |->
            ~process.late /\ isolated /\ process.exit # 0 /\ "bwrap" \in process.stderr,
         stdout |-> process.stdout,
         stderr |-> process.stderr]

Text(native) == native.stdout \cup native.stderr
Ran(native) == ~native.timedOut /\ native.exit \in {0, 1}

NormalizeClamAV(native) ==
    CASE native.timedOut -> "ERROR"
      [] ~native.timedOut /\ native.exit = 0 -> "CLEAN"
      [] ~native.timedOut /\ native.exit = 1 -> "MALICIOUS"
      [] OTHER -> "ERROR"

\* YARA and YARA-X: every line that is not blank is a match.
NormalizeYara(native) ==
    IF ~Ran(native) THEN "ERROR"
    ELSE IF native.stdout \ {"blank"} # {} THEN "SUSPICIOUS" ELSE "CLEAN"

NormalizeLoki(native) ==
    IF ~Ran(native) THEN "ERROR"
    ELSE IF "ALERT" \in Text(native) THEN "MALICIOUS"
    ELSE IF "WARNING" \in Text(native) THEN "SUSPICIOUS" ELSE "CLEAN"

NormalizeMaldet(native) ==
    IF ~Ran(native) THEN "ERROR"
    ELSE IF "hits" \in Text(native) THEN "MALICIOUS" ELSE "CLEAN"

\* chkrootkit and rkhunter, which run unisolated: anything they say is a warning.
NormalizeRootkit(native) ==
    IF ~Ran(native) THEN "ERROR"
    ELSE IF Text(native) \ {"blank"} # {} \/ native.exit = 1 THEN "SUSPICIOUS" ELSE "CLEAN"

Normalize(scanner, native) ==
    IF scanner \in FileScanners /\ native.isolationFailed THEN "ERROR"
    ELSE CASE scanner = "clamav" -> NormalizeClamAV(native)
           [] scanner \in {"yara", "yara-x"} -> NormalizeYara(native)
           [] scanner = "loki" -> NormalizeLoki(native)
           [] scanner = "maldet" -> NormalizeMaldet(native)
           [] scanner \in SystemScanners -> NormalizeRootkit(native)

\* The runners of the adapters are built with settings.runtime.use_bubblewrap, those of the
\* system detectors without.
UsesBwrap(scanner, setting) == scanner \in FileScanners /\ setting
Verdict(scanner, process, setting) == Normalize(scanner, Run(process, UsesBwrap(scanner, setting)))

\* probe(): the version is the first line of what the process wrote.  A file scanner that in time
\* wrote nothing raises IndexError; a system detector is PROBED whatever its exit code was.
Probe(scanner, installed, process, setting) ==
    LET native == Run(process, UsesBwrap(scanner, setting))
        written == IF native.stdout # {} THEN native.stdout ELSE native.stderr
    IN  CASE ~installed -> "absent"
          [] installed /\ scanner \in SystemScanners -> "PROBED"
          [] installed /\ scanner \in FileScanners /\ ~native.timedOut
               /\ written \ {"blank"} = {} -> "raised"
          [] OTHER -> IF native.exit = 0 THEN "PROBED" ELSE "DEGRADED"

\* ScanService.system_scan(): one available detector's result and the row saved for it.
SystemRow(scanner, process) ==
    IF Verdict(scanner, process, FALSE) = "ERROR" THEN "DEGRADED" ELSE "QUALIFIED"

\* bubblewrap could not isolate the process, which then did not run.
Unisolated(scanner, process, setting) ==
    /\ UsesBwrap(scanner, setting) /\ process.bwrap
    /\ process.exit # 0 /\ "bwrap" \in process.stderr

\* The process gave no sign of a detection: exit code 1 of ClamAV, a match of YARA, an alert or a
\* warning of Loki, a hit of maldet, any word of a rootkit detector.
Silent(scanner, process) ==
    LET text == process.stdout \cup process.stderr
    IN  CASE scanner = "clamav" -> process.exit = 0
          [] scanner \in {"yara", "yara-x"} -> process.stdout \subseteq {"blank"}
          [] scanner = "loki" -> text \cap {"ALERT", "WARNING"} = {}
          [] scanner = "maldet" -> "hits" \notin text
          [] OTHER -> text \subseteq {"blank"} /\ process.exit = 0

\* "Isolation failure can never be a detection or clean" (tests/test_m1_adapters.py:129), nor can
\* a process that was killed or failed; and no scanner's own sign of a detection ends CLEAN
\* (adapters.py:166-376, command.py:86-114).
NormalizationIsConservative(scanner, process, setting) ==
    LET verdict == Verdict(scanner, process, setting)
    IN  /\ process.late \/ process.exit \notin {0, 1} \/ Unisolated(scanner, process, setting)
              => verdict = "ERROR"
        /\ verdict = "CLEAN" => Silent(scanner, process)
        /\ SystemRow(scanner, process) = "QUALIFIED" => ~process.late
=============================================================================

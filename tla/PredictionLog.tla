---------------------------- MODULE PredictionLog ----------------------------
(***************************************************************************)
(* The log of served predictions: /predict's worker threads append to one  *)
(* JSON-lines file, and the monthly DAG or a person makes a drift report   *)
(* from it.  A line is three bytes here, two of JSON and the newline:      *)
(* enough for one that breaks off within its JSON or right after it.       *)
(***************************************************************************)
EXTENDS Naturals, Sequences

CONSTANTS
    Requests,       \* /predict calls that get a score
    Readers,        \* runs of drift-report
    Checked,        \* ... those of the DAG, after its first task
    NoOne,          \* no write(2) is under way
    MaxFaults       \* bound: failed writes and killed API processes

Newline == 3
Byte == [by : Requests, byte : 1..Newline]

ASSUME LogAssumption ==
    /\ Checked \subseteq Readers
    /\ NoOne \notin Requests
    /\ MaxFaults \in Nat

VARIABLES
    log,        \* prediction_log.jsonl
    request,    \* of each request: "scored", "writing", "answered", "lost"
    sent,       \* ... the bytes of its line written
    failed,     \* ... whether a write of it failed
    writer,     \* the request whose write(2) is under way; the kernel admits one
    appended,   \* history: requests whose append_prediction returned without an error
    reader,     \* of each report: "idle", "reference", "read", "render"
    outcome,    \* ... how its last run ended, if it has
    rows,       \* ... the predictions it read
    due,        \* history: those appended when it started
    broken,     \* history: reports that read during a write
    faults      \* failed writes and killed processes so far

writeVars == <<log, request, sent, failed, writer, appended, faults>>
readVars == <<reader, outcome, rows, due, broken>>
vars == <<writeVars, readVars>>

TypeOK ==
    /\ log \in Seq(Byte)
    /\ request \in [Requests -> {"scored", "writing", "answered", "lost"}]
    /\ sent \in [Requests -> 0..Newline] /\ failed \in [Requests -> BOOLEAN]
    /\ writer \in Requests \union {NoOne}
    /\ appended \subseteq Requests
    /\ reader \in [Readers -> {"idle", "reference", "read", "render"}]
    /\ outcome \in [Readers -> {"none", "0", "unchecked", "noReference", "noRows",
                                "unparsable", "noSummary"}]
    /\ rows \in [Readers -> SUBSET Requests] /\ due \in [Readers -> SUBSET Requests]
    /\ broken \subseteq Readers
    /\ faults \in 0..MaxFaults

Init ==
    /\ log = <<>>
    /\ request = [r \in Requests |-> "scored"] /\ sent = [r \in Requests |-> 0]
    /\ failed = [r \in Requests |-> FALSE] /\ writer = NoOne /\ appended = {}
    /\ reader = [d \in Readers |-> "idle"] /\ outcome = [d \in Readers |-> "none"]
    /\ rows = [d \in Readers |-> {}] /\ due = [d \in Readers |-> {}]
    /\ broken = {} /\ faults = 0
-----------------------------------------------------------------------------
\* append_prediction, in the thread that answers the request

\* Mutant: open("w").
OpenTruncating(r) ==
    /\ request[r] = "scored"
    /\ request' = [request EXCEPT ![r] = "writing"]
    /\ log' = <<>>
    /\ UNCHANGED <<sent, failed, writer, appended, faults, readVars>>

\* mkdir and open("a").
Open(r) ==
    /\ request[r] = "scored"
    /\ request' = [request EXCEPT ![r] = "writing"]
    /\ UNCHANGED <<log, sent, failed, writer, appended, faults, readVars>>

\* ... which raises OSError; the request is answered all the same.
OpenFails(r) ==
    /\ request[r] = "scored" /\ faults < MaxFaults
    /\ request' = [request EXCEPT ![r] = "answered"]
    /\ faults' = faults + 1
    /\ UNCHANGED <<log, sent, failed, writer, appended, readVars>>

\* Mutant: one write for the JSON and one for the newline.
WriteByteUnbuffered(r) ==
    /\ request[r] = "writing" /\ writer \in {NoOne, r}
    /\ log' = Append(log, [by |-> r, byte |-> sent[r] + 1])
    /\ sent' = [sent EXCEPT ![r] = @ + 1]
    /\ IF sent[r] + 1 < Newline
          THEN /\ writer' = IF sent[r] + 1 = Newline - 1 THEN NoOne ELSE r
               /\ UNCHANGED <<request, appended>>
          ELSE /\ writer' = NoOne
               /\ request' = [request EXCEPT ![r] = "answered"]
               /\ appended' = IF failed[r] THEN appended ELSE appended \union {r}
    /\ UNCHANGED <<failed, faults, readVars>>

\* Mutant: a line is written again and again once a write of it failed.
WriteByteAgain(r) ==
    /\ request[r] = "writing" /\ writer \in {NoOne, r}
    /\ log' = Append(log, [by |-> r, byte |-> sent[r] + 1])
    /\ sent' = [sent EXCEPT ![r] = @ + 1]
    /\ IF sent[r] + 1 < Newline \/ failed[r]
          THEN writer' = r /\ UNCHANGED <<request, appended>>
          ELSE /\ writer' = NoOne
               /\ request' = [request EXCEPT ![r] = "answered"]
               /\ appended' = appended \union {r}
    /\ UNCHANGED <<failed, faults, readVars>>

\* The line is buffered and close() hands it to one write(2), whose bytes a reader may
\* see arrive.
WriteByte(r) ==
    /\ request[r] = "writing" /\ writer \in {NoOne, r}
    /\ log' = Append(log, [by |-> r, byte |-> sent[r] + 1])
    /\ sent' = [sent EXCEPT ![r] = @ + 1]
    /\ IF sent[r] + 1 < Newline
          THEN writer' = r /\ UNCHANGED <<request, appended>>
          ELSE /\ writer' = NoOne
               /\ request' = [request EXCEPT ![r] = "answered"]
               /\ appended' = IF failed[r] THEN appended ELSE appended \union {r}
    /\ UNCHANGED <<failed, faults, readVars>>

\* Mutant: a lock that an exception does not release.
WriteFailsLocked(r) ==
    /\ request[r] = "writing" /\ writer \in {NoOne, r} /\ faults < MaxFaults
    /\ writer' = r
    /\ failed' = [failed EXCEPT ![r] = TRUE]
    /\ request' = [request EXCEPT ![r] = "answered"]
    /\ faults' = faults + 1
    /\ UNCHANGED <<log, sent, appended, readVars>>

\* The disk is full.  Flushing failed; closing tries the rest once more, and
\* _log_prediction swallows the OSError.
WriteFails(r) ==
    /\ request[r] = "writing" /\ writer \in {NoOne, r} /\ faults < MaxFaults
    /\ writer' = NoOne
    /\ failed' = [failed EXCEPT ![r] = TRUE]
    /\ request' = [request EXCEPT ![r] = IF failed[r] THEN "answered" ELSE "writing"]
    /\ faults' = faults + 1
    /\ UNCHANGED <<log, sent, appended, readVars>>

\* The API's process dies with the requests in it; the file is on a volume.
Kill ==
    /\ faults < MaxFaults
    /\ \E r \in Requests : request[r] = "writing"
    /\ request' = [r \in Requests |-> IF request[r] = "writing" THEN "lost" ELSE request[r]]
    /\ writer' = NoOne
    /\ faults' = faults + 1
    /\ UNCHANGED <<log, sent, failed, appended, readVars>>
-----------------------------------------------------------------------------
\* fraud-detection drift-report

\* A line of one prediction's JSON and nothing else starts at i.
IsRow(i) ==
    /\ i \in DOMAIN log /\ i + 1 \in DOMAIN log
    /\ log[i].byte = 1 /\ log[i + 1] = [by |-> log[i].by, byte |-> 2]
    /\ i > 1 => log[i - 1].byte = Newline
    /\ i + 2 \in DOMAIN log => log[i + 2].byte = Newline

\* Whether json.loads accepts every line that is not blank.
Parses ==
    \A i \in DOMAIN log :
        /\ log[i].byte = 1 => IsRow(i)
        /\ log[i].byte = 2 => i > 1 /\ IsRow(i - 1)

\* Mutant: the last line is left out, it may not be whole yet.
LoggedRowsButLast == {log[i].by : i \in {j \in DOMAIN log : IsRow(j) /\ j + 3 \in DOMAIN log}}

LoggedRows == {log[i].by : i \in {j \in DOMAIN log : IsRow(j)}}

End(d, how) ==
    /\ reader' = [reader EXCEPT ![d] = "idle"]
    /\ outcome' = [outcome EXCEPT ![d] = how]
    /\ rows' = [rows EXCEPT ![d] = {}] /\ due' = [due EXCEPT ![d] = {}]

\* Mutant: the command without the first task.
BeginUnchecked(d) ==
    /\ reader[d] = "idle"
    /\ reader' = [reader EXCEPT ![d] = "reference"]
    /\ due' = [due EXCEPT ![d] = appended]
    /\ outcome' = [outcome EXCEPT ![d] = "none"]
    /\ broken' = broken \ {d}
    /\ UNCHANGED <<rows, writeVars>>

\* The DAG's first task is `test -s`; the second, like a person, runs the command.
Begin(d) ==
    /\ reader[d] = "idle"
    /\ \/ /\ d \in Checked => log # <<>>
          /\ reader' = [reader EXCEPT ![d] = "reference"]
          /\ due' = [due EXCEPT ![d] = appended]
          /\ outcome' = [outcome EXCEPT ![d] = "none"]
          /\ broken' = broken \ {d}
          /\ UNCHANGED rows
       \/ d \in Checked /\ log = <<>> /\ End(d, "unchecked") /\ UNCHANGED broken
    /\ UNCHANGED writeVars

\* load_reference_sample: the raw CSV may not load.
LoadReference(d) ==
    /\ reader[d] = "reference"
    /\ \/ reader' = [reader EXCEPT ![d] = "read"] /\ UNCHANGED <<outcome, rows, due>>
       \/ End(d, "noReference")
    /\ UNCHANGED <<broken, writeVars>>

\* Mutant: reads again until every line is JSON.
LoadPredictionsRetrying(d) ==
    /\ reader[d] = "read"
    /\ \/ /\ Parses /\ LoggedRows # {}
          /\ rows' = [rows EXCEPT ![d] = LoggedRows]
          /\ reader' = [reader EXCEPT ![d] = "render"]
          /\ UNCHANGED <<outcome, due>>
       \/ Parses /\ LoggedRows = {} /\ End(d, "noRows")
       \/ ~Parses /\ UNCHANGED <<reader, outcome, rows, due>>
    /\ UNCHANGED <<broken, writeVars>>

\* load_predictions: a missing or blank log is a PredictionLogError, a line that is not
\* JSON a JSONDecodeError that nothing catches.
LoadPredictions(d) ==
    /\ reader[d] = "read"
    /\ broken' = IF writer # NoOne THEN broken \union {d} ELSE broken
    /\ \/ /\ Parses /\ LoggedRows # {}
          /\ rows' = [rows EXCEPT ![d] = LoggedRows]
          /\ reader' = [reader EXCEPT ![d] = "render"]
          /\ UNCHANGED <<outcome, due>>
       \/ Parses /\ LoggedRows = {} /\ End(d, "noRows")
       \/ ~Parses /\ End(d, "unparsable")
    /\ UNCHANGED writeVars

\* generate_drift_report: the HTML, then the summary, which may be missing.
Generate(d) ==
    /\ reader[d] = "render"
    /\ \E how \in {"0", "noSummary"} : End(d, how)
    /\ UNCHANGED <<broken, writeVars>>
-----------------------------------------------------------------------------
Serve(r) == Open(r) \/ OpenFails(r) \/ WriteByte(r) \/ WriteFails(r)
Report(d) == LoadReference(d) \/ LoadPredictions(d) \/ Generate(d)

Next ==
    \/ \E r \in Requests : Serve(r)
    \/ Kill
    \/ \E d \in Readers : Begin(d) \/ Report(d)

Spec ==
    /\ Init /\ [][Next]_vars
    /\ \A r \in Requests : WF_vars(Serve(r))
    /\ \A d \in Readers : WF_vars(Report(d))
-----------------------------------------------------------------------------
\* Properties.

\* The line of an append that returned without an error stays in the log in one piece,
\* its bytes next to each other, whatever other threads append without a lock, however
\* many of their lines break off before or after it, and whoever is killed.
At(file, i, r, n) == i \in DOMAIN file /\ file[i] = [by |-> r, byte |-> n]
AppendedLinesAreWhole ==
    \A r \in appended :
        \E i \in DOMAIN log : At(log, i, r, 1) /\ At(log, i + 1, r, 2) /\ At(log, i + 2, r, 3)

\* A report that gets as far as rendering has every prediction whose append had
\* succeeded when it started, whatever broken lines other appends have left.
ReportIsComplete == \A d \in Readers : reader[d] = "render" => due[d] \subseteq rows[d]

\* A report only meets a line that is not JSON if some write failed or was killed, or
\* one was under way just then: appends of different threads do not mix.
UnparsableIsExplained ==
    \A d \in Readers : outcome[d] = "unparsable" => faults > 0 \/ d \in broken

\* The DAG's first task means something: its report never finds the log empty.
CheckedHasRows == \A d \in Checked : outcome[d] # "noRows"

\* A thread that appends is not stopped for good by another one's failure.
AppendsEnd == \A r \in Requests : request[r] = "writing" ~> request[r] \in {"answered", "lost"}

\* drift-report ends whatever is in the log.
ReportsEnd == \A d \in Readers : reader[d] # "idle" ~> reader[d] = "idle"
=============================================================================

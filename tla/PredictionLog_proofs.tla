------------------------ MODULE PredictionLog_proofs ------------------------
(***************************************************************************)
(* Proofs about the prediction log, for any number of requests, readers    *)
(* and faults.                                                             *)
(***************************************************************************)
EXTENDS PredictionLog, TLAPS

\* Whose bytes are where, whatever fails: what has been written of a line began with its
\* first byte, and the log begins with some line's.
WritesOnTrack ==
    /\ \A r \in Requests : request[r] = "scored" => sent[r] = 0
    /\ \A r \in Requests : request[r] = "writing" => sent[r] < Newline
    /\ \A r \in Requests : sent[r] > 0 => \E i \in DOMAIN log : log[i] = [by |-> r, byte |-> 1]
    /\ \A r \in appended : sent[r] > 0
    /\ log # <<>> => log[1].byte = 1
    /\ writer # NoOne => request[writer] = "writing"

ReadersOnTrack ==
    /\ \A d \in Readers : due[d] \subseteq appended
    /\ \A d \in Checked : reader[d] # "idle" => log # <<>>

\* Without a fault the log is one line after the other, the last one cut at the byte its
\* writer has got to.
WholeLines ==
    /\ \A i \in DOMAIN log :
          /\ log[i].byte = 1 => i = 1 \/ (i - 1 \in DOMAIN log /\ log[i - 1].byte = Newline)
          /\ log[i].byte = 2 => i - 1 \in DOMAIN log /\ log[i - 1] = [by |-> log[i].by, byte |-> 1]
          /\ log[i].byte = Newline =>
                i - 1 \in DOMAIN log /\ log[i - 1] = [by |-> log[i].by, byte |-> 2]
    /\ writer = NoOne /\ log # <<>> => log[Len(log)].byte = Newline
    /\ writer # NoOne =>
          /\ log # <<>> /\ sent[writer] \in {1, 2}
          /\ log[Len(log)] = [by |-> writer, byte |-> sent[writer]]
    /\ \A r \in Requests : request[r] \in {"scored", "writing"} /\ r # writer => sent[r] = 0

IInv ==
    /\ TypeOK /\ WritesOnTrack /\ ReadersOnTrack
    /\ faults = 0 => WholeLines
    /\ ReportIsComplete /\ UnparsableIsExplained /\ CheckedHasRows

LEMMA LogBytes ==
    ASSUME TypeOK
    PROVE  /\ Len(log) \in Nat /\ DOMAIN log = 1 .. Len(log)
           /\ \A i \in DOMAIN log : /\ log[i] = [by |-> log[i].by, byte |-> log[i].byte]
                                    /\ log[i].by \in Requests /\ log[i].byte \in {1, 2, 3}
<1>1. Len(log) \in Nat /\ DOMAIN log = 1 .. Len(log) /\ \A i \in DOMAIN log : log[i] \in Byte
  BY DEF TypeOK
<1> QED  BY <1>1 DEF Byte, Newline

\* A log of whole lines parses.
LEMMA WholeLinesParse ==
    ASSUME TypeOK, WholeLines, writer = NoOne PROVE Parses
<1>l. /\ Len(log) \in Nat /\ DOMAIN log = 1 .. Len(log)
      /\ \A i \in DOMAIN log : /\ log[i] = [by |-> log[i].by, byte |-> log[i].byte]
                               /\ log[i].by \in Requests /\ log[i].byte \in {1, 2, 3}
  BY LogBytes
<1>a. \A i \in DOMAIN log :
          log[i].byte = 1 => i = 1 \/ (i - 1 \in DOMAIN log /\ log[i - 1].byte = 3)
  BY DEF WholeLines, Newline
<1>b. \A i \in DOMAIN log :
          log[i].byte = 2 => i - 1 \in DOMAIN log /\ log[i - 1] = [by |-> log[i].by, byte |-> 1]
  BY DEF WholeLines, Newline
<1>c. \A i \in DOMAIN log :
          log[i].byte = 3 => i - 1 \in DOMAIN log /\ log[i - 1] = [by |-> log[i].by, byte |-> 2]
  BY DEF WholeLines, Newline
<1>d. log # <<>> => log[Len(log)].byte = 3
  BY DEF WholeLines, Newline
\* The byte after a line's first is its second, and the one after that its newline.
<1>1. ASSUME NEW i \in DOMAIN log, log[i].byte \in {1, 2}
      PROVE  i + 1 \in DOMAIN log /\ log[i + 1] = [by |-> log[i].by, byte |-> log[i].byte + 1]
  <2>1. i # Len(log)
    <3> SUFFICES ASSUME i = Len(log) PROVE FALSE
      OBVIOUS
    <3>1. log # <<>>
      BY <1>l
    <3> QED  BY <1>d, <1>1, <3>1
  <2>2. i + 1 \in DOMAIN log /\ (i + 1) - 1 = i /\ i + 1 # 1
    BY <1>l, <2>1
  <2> DEFINE j == i + 1
  <2>3. j \in DOMAIN log /\ j - 1 = i /\ j # 1
    BY <2>2
  <2>4. /\ log[j].byte \in {1, 2, 3}
        /\ log[j] = [by |-> log[j].by, byte |-> log[j].byte]
        /\ log[i] = [by |-> log[i].by, byte |-> log[i].byte]
    BY <1>l, <2>3
  <2> HIDE DEF j
  <2>5. log[j].byte # 1
    BY <1>a, <1>1, <2>3
  <2>6. CASE log[j].byte = 2
    <3>1. log[i] = [by |-> log[j].by, byte |-> 1]
      BY <1>b, <2>3, <2>6
    <3>2. log[i].by = log[j].by /\ log[i].byte = 1
      BY <3>1
    <3> QED  BY <2>2, <2>3, <2>4, <2>6, <3>2 DEF j
  <2>7. CASE log[j].byte = 3
    <3>1. log[i] = [by |-> log[j].by, byte |-> 2]
      BY <1>c, <2>3, <2>7
    <3>2. log[i].by = log[j].by /\ log[i].byte = 2
      BY <3>1
    <3> QED  BY <2>2, <2>3, <2>4, <2>7, <3>2 DEF j
  <2> QED  BY <2>4, <2>5, <2>6, <2>7
<1>2. ASSUME NEW i \in DOMAIN log, log[i].byte = 1 PROVE IsRow(i)
  <2>1. i + 1 \in DOMAIN log /\ log[i + 1] = [by |-> log[i].by, byte |-> 2]
    <3>1. log[i].byte \in {1, 2} /\ log[i].byte + 1 = 2
      BY <1>2
    <3> QED  BY <1>1, <3>1
  <2>2. i + 2 \in DOMAIN log => log[i + 2].byte = 3
    <3>1. log[i + 1].byte = 2
      BY <2>1
    <3>2. log[i + 1].byte \in {1, 2} /\ log[i + 1].byte + 1 = 3
      BY <3>1
    <3>3. log[(i + 1) + 1] = [by |-> log[i + 1].by, byte |-> log[i + 1].byte + 1]
      BY <1>1, <2>1, <3>2
    <3>4. (i + 1) + 1 = i + 2
      BY <1>l
    <3> QED  BY <3>2, <3>3, <3>4
  <2>3. i > 1 => log[i - 1].byte = 3
    BY <1>a, <1>l, <1>2
  <2> QED  BY <1>2, <2>1, <2>2, <2>3 DEF IsRow, Newline
<1>3. ASSUME NEW i \in DOMAIN log, log[i].byte = 2 PROVE i > 1 /\ IsRow(i - 1)
  <2>0. i - 1 \in DOMAIN log /\ log[i - 1] = [by |-> log[i].by, byte |-> 1]
    BY <1>b, <1>3
  <2>1. i - 1 \in DOMAIN log /\ log[i - 1].byte = 1
    BY <2>0
  <2> QED  BY <1>l, <1>2, <2>1
<1> QED  BY <1>2, <1>3 DEF Parses

\* What a report that can be read has of the predictions due to it.
LEMMA AppendedAreRows ==
    ASSUME TypeOK, WritesOnTrack, Parses PROVE appended \subseteq LoggedRows
<1> SUFFICES ASSUME NEW r \in appended PROVE r \in LoggedRows
  OBVIOUS
<1>1. PICK i \in DOMAIN log : log[i] = [by |-> r, byte |-> 1]
  BY DEF WritesOnTrack, TypeOK
<1>2. IsRow(i)
  BY <1>1 DEF Parses
<1> QED  BY <1>1, <1>2 DEF LoggedRows

LEMMA LogHasRows ==
    ASSUME TypeOK, WritesOnTrack, Parses, log # <<>> PROVE LoggedRows # {}
<1>1. 1 \in DOMAIN log /\ log[1].byte = 1
  BY LogBytes DEF WritesOnTrack, TypeOK
<1>2. IsRow(1)
  BY <1>1 DEF Parses
<1> QED  BY <1>1, <1>2 DEF LoggedRows

LEMMA InitIInv == ASSUME LogAssumption, Init PROVE IInv
<1>1. TypeOK
  BY DEF Init, TypeOK, LogAssumption, Byte, Newline
<1>2. WritesOnTrack
  BY DEF Init, WritesOnTrack, Newline
<1>3. ReadersOnTrack
  BY DEF Init, ReadersOnTrack, LogAssumption
<1>4. WholeLines
  BY DEF Init, WholeLines
<1>5. ReportIsComplete /\ UnparsableIsExplained /\ CheckedHasRows
  BY DEF Init, ReportIsComplete, UnparsableIsExplained, CheckedHasRows, LogAssumption
<1> QED  BY <1>1, <1>2, <1>3, <1>4, <1>5 DEF IInv

\* What an append leaves of the log it found.
LEMMA AppendKeeps ==
    ASSUME TypeOK, NEW b \in Byte
    PROVE  /\ Append(log, b) \in Seq(Byte)
           /\ Len(Append(log, b)) = Len(log) + 1 /\ Append(log, b) # <<>>
           /\ DOMAIN Append(log, b) = 1 .. Len(log) + 1
           /\ \A i \in DOMAIN log : i \in DOMAIN Append(log, b) /\ Append(log, b)[i] = log[i]
           /\ Append(log, b)[Len(log) + 1] = b
<1>1. log \in Seq(Byte) /\ Len(log) \in Nat /\ DOMAIN log = 1 .. Len(log)
  BY DEF TypeOK
<1>2. Append(log, b) \in Seq(Byte) /\ Len(Append(log, b)) = Len(log) + 1
  BY <1>1
<1>3. DOMAIN Append(log, b) = 1 .. Len(log) + 1 /\ Append(log, b) # <<>>
  BY <1>1, <1>2
<1>4. \A i \in DOMAIN log : i \in DOMAIN Append(log, b) /\ Append(log, b)[i] = log[i]
  BY <1>1, <1>3
<1>5. Append(log, b)[Len(log) + 1] = b
  BY <1>1
<1> QED  BY <1>2, <1>3, <1>4, <1>5

\* The actions of the threads that append leave the reports alone, and what they found
\* of the log.
LEMMA WritersSpareReaders ==
    ASSUME LogAssumption, IInv, UNCHANGED readVars, appended \subseteq appended',
           log # <<>> => log' # <<>>, faults' = faults \/ faults' = faults + 1
    PROVE  ReadersOnTrack' /\ ReportIsComplete' /\ UnparsableIsExplained' /\ CheckedHasRows'
<1>i. TypeOK /\ ReadersOnTrack /\ ReportIsComplete /\ UnparsableIsExplained /\ CheckedHasRows
  BY DEF IInv
<1>1. ReadersOnTrack'
  BY <1>i DEF ReadersOnTrack, readVars
<1>2. ReportIsComplete' /\ CheckedHasRows'
  BY <1>i DEF ReportIsComplete, CheckedHasRows, readVars
<1>3. faults > 0 => faults' > 0
  BY <1>i DEF TypeOK, LogAssumption
<1>4. UnparsableIsExplained'
  BY <1>i, <1>3 DEF UnparsableIsExplained, readVars
<1> QED  BY <1>1, <1>2, <1>4

LEMMA OpenStep == ASSUME LogAssumption, IInv, NEW r \in Requests, Open(r) PROVE IInv'
<1>i. TypeOK /\ WritesOnTrack /\ (faults = 0 => WholeLines)
  BY DEF IInv
<1> USE DEF Open
<1>1. TypeOK'
  BY <1>i DEF TypeOK, readVars
<1>2. request' = [request EXCEPT ![r] = "writing"] /\ request[r] = "scored"
      /\ UNCHANGED <<log, sent, writer, appended, faults>>
  BY DEF Open
<1>3. WritesOnTrack'
  <2>1. sent[r] < Newline
    BY <1>i, <1>2 DEF WritesOnTrack, Newline
  <2>2. \A q \in Requests : request'[q] = IF q = r THEN "writing" ELSE request[q]
    BY <1>i, <1>2 DEF TypeOK
  <2> QED  BY <1>i, <1>2, <2>1, <2>2 DEF WritesOnTrack
<1>4. faults' = 0 => WholeLines'
  BY <1>i, <1>2 DEF WholeLines, TypeOK
<1>5. ReadersOnTrack' /\ ReportIsComplete' /\ UnparsableIsExplained' /\ CheckedHasRows'
  BY WritersSpareReaders
<1> QED  BY <1>1, <1>3, <1>4, <1>5 DEF IInv

LEMMA OpenFailsStep == ASSUME LogAssumption, IInv, NEW r \in Requests, OpenFails(r) PROVE IInv'
<1>i. TypeOK /\ WritesOnTrack
  BY DEF IInv
<1>1. /\ request' = [request EXCEPT ![r] = "answered"] /\ request[r] = "scored"
      /\ UNCHANGED <<log, sent, failed, writer, appended, readVars>>
      /\ faults < MaxFaults /\ faults' = faults + 1
  BY DEF OpenFails
<1>2. TypeOK'
  BY <1>i, <1>1 DEF TypeOK, LogAssumption, readVars
<1>3. WritesOnTrack'
  <2>1. \A q \in Requests : request'[q] = IF q = r THEN "answered" ELSE request[q]
    BY <1>i, <1>1 DEF TypeOK
  <2>2. writer # NoOne => writer # r
    BY <1>i, <1>1 DEF WritesOnTrack
  <2> QED  BY <1>i, <1>1, <2>1, <2>2 DEF WritesOnTrack, TypeOK
<1>4. faults' # 0
  BY <1>i, <1>1 DEF TypeOK, LogAssumption
<1>5. ReadersOnTrack' /\ ReportIsComplete' /\ UnparsableIsExplained' /\ CheckedHasRows'
  BY <1>1, WritersSpareReaders
<1> QED  BY <1>2, <1>3, <1>4, <1>5 DEF IInv

LEMMA WriteFailsStep == ASSUME LogAssumption, IInv, NEW r \in Requests, WriteFails(r) PROVE IInv'
<1>i. TypeOK /\ WritesOnTrack
  BY DEF IInv
<1>1. /\ request' = [request EXCEPT ![r] = IF failed[r] THEN "answered" ELSE "writing"]
      /\ request[r] = "writing" /\ writer' = NoOne
      /\ failed' = [failed EXCEPT ![r] = TRUE]
      /\ UNCHANGED <<log, sent, appended, readVars>>
      /\ faults < MaxFaults /\ faults' = faults + 1
  BY DEF WriteFails
<1>2. TypeOK'
  BY <1>i, <1>1 DEF TypeOK, LogAssumption, readVars
<1>3. WritesOnTrack'
  <2>1. \A q \in Requests : request'[q] = "writing" => request[q] = "writing"
    BY <1>i, <1>1 DEF TypeOK
  <2>2. \A q \in Requests : request'[q] = "scored" => request[q] = "scored"
    BY <1>i, <1>1 DEF TypeOK
  <2> QED  BY <1>i, <1>1, <2>1, <2>2 DEF WritesOnTrack
<1>4. faults' # 0
  BY <1>i, <1>1 DEF TypeOK, LogAssumption
<1>5. ReadersOnTrack' /\ ReportIsComplete' /\ UnparsableIsExplained' /\ CheckedHasRows'
  BY <1>1, WritersSpareReaders
<1> QED  BY <1>2, <1>3, <1>4, <1>5 DEF IInv

LEMMA KillStep == ASSUME LogAssumption, IInv, Kill PROVE IInv'
<1>i. TypeOK /\ WritesOnTrack
  BY DEF IInv
<1>1. /\ request' = [r \in Requests |-> IF request[r] = "writing" THEN "lost" ELSE request[r]]
      /\ writer' = NoOne /\ UNCHANGED <<log, sent, failed, appended, readVars>>
      /\ faults < MaxFaults /\ faults' = faults + 1
  BY DEF Kill
<1>2. TypeOK'
  BY <1>i, <1>1 DEF TypeOK, LogAssumption, readVars
<1>3. WritesOnTrack'
  <2>1. \A q \in Requests : request'[q] # "writing" /\ (request'[q] = "scored" => request[q] = "scored")
    BY <1>i, <1>1 DEF TypeOK
  <2> QED  BY <1>i, <1>1, <2>1 DEF WritesOnTrack
<1>4. faults' # 0
  BY <1>i, <1>1 DEF TypeOK, LogAssumption
<1>5. ReadersOnTrack' /\ ReportIsComplete' /\ UnparsableIsExplained' /\ CheckedHasRows'
  BY <1>1, WritersSpareReaders
<1> QED  BY <1>2, <1>3, <1>4, <1>5 DEF IInv

LEMMA WriteByteStep == ASSUME LogAssumption, IInv, NEW r \in Requests, WriteByte(r) PROVE IInv'
<1> DEFINE b == [by |-> r, byte |-> sent[r] + 1]
<1>i. TypeOK /\ WritesOnTrack /\ (faults = 0 => WholeLines)
  BY DEF IInv
<1>0. writer \in {NoOne, r} /\ request[r] = "writing" /\ sent[r] \in {0, 1, 2}
  BY <1>i DEF WriteByte, WritesOnTrack, TypeOK, Newline
<1>1. /\ log' = Append(log, b)
      /\ sent' = [sent EXCEPT ![r] = @ + 1]
      /\ IF sent[r] + 1 < Newline
            THEN writer' = r /\ UNCHANGED <<request, appended>>
            ELSE /\ writer' = NoOne
                 /\ request' = [request EXCEPT ![r] = "answered"]
                 /\ appended' = IF failed[r] THEN appended ELSE appended \union {r}
      /\ UNCHANGED <<failed, faults, readVars>>
  BY DEF WriteByte
<1>2. b \in Byte /\ b.by = r /\ b.byte = sent[r] + 1
  BY <1>0 DEF Byte, Newline
<1>3. /\ log' \in Seq(Byte) /\ Len(log') = Len(log) + 1 /\ log' # <<>>
      /\ DOMAIN log' = 1 .. Len(log) + 1
      /\ \A i \in DOMAIN log : i \in DOMAIN log' /\ log'[i] = log[i]
      /\ log'[Len(log) + 1] = b
  BY <1>i, <1>1, <1>2, AppendKeeps
<1>4. /\ sent' \in [Requests -> 0..Newline] /\ sent'[r] = sent[r] + 1
      /\ \A q \in Requests \ {r} : sent'[q] = sent[q]
  BY <1>i, <1>0, <1>1 DEF TypeOK, Newline
<1>5. /\ request' \in [Requests -> {"scored", "writing", "answered", "lost"}]
      /\ \A q \in Requests \ {r} : request'[q] = request[q]
      /\ request'[r] = IF sent[r] < 2 THEN "writing" ELSE "answered"
  <2>1. CASE sent[r] < 2
    <3>1. request' = request
      BY <1>0, <1>1, <2>1 DEF Newline
    <3> QED  BY <1>i, <1>0, <2>1, <3>1 DEF TypeOK
  <2>2. CASE ~(sent[r] < 2)
    <3>1. request' = [request EXCEPT ![r] = "answered"]
      BY <1>0, <1>1, <2>2 DEF Newline
    <3> QED  BY <1>i, <2>2, <3>1 DEF TypeOK
  <2> QED  BY <2>1, <2>2
<1>6. /\ writer' = IF sent[r] < 2 THEN r ELSE NoOne
      /\ appended \subseteq appended' /\ appended' \subseteq appended \union {r}
  BY <1>0, <1>1 DEF Newline
<1> HIDE DEF b
<1>7. TypeOK'
  <2>1. appended' \subseteq Requests /\ writer' \in Requests \union {NoOne}
    BY <1>i, <1>6 DEF TypeOK
  <2> QED  BY <1>i, <1>1, <1>3, <1>4, <1>5, <2>1 DEF TypeOK, readVars
<1>l. Len(log) \in Nat /\ DOMAIN log = 1 .. Len(log)
  BY <1>i, LogBytes
<1>8. WritesOnTrack'
  <2>1. \A q \in Requests : request'[q] = "scored" => sent'[q] = 0
    BY <1>i, <1>4, <1>5 DEF WritesOnTrack
  <2>2. \A q \in Requests : request'[q] = "writing" => sent'[q] < Newline
    BY <1>i, <1>0, <1>4, <1>5 DEF WritesOnTrack, Newline
  <2>3. ASSUME NEW q \in Requests, sent'[q] > 0
        PROVE  \E i \in DOMAIN log' : log'[i] = [by |-> q, byte |-> 1]
    <3>1. CASE sent[q] > 0
      <4>1. PICK i \in DOMAIN log : log[i] = [by |-> q, byte |-> 1]
        BY <1>i, <3>1 DEF WritesOnTrack
      <4> QED  BY <1>3, <4>1
    <3>2. CASE ~(sent[q] > 0)
      <4>1. q = r
        BY <1>4, <2>3, <3>2
      <4>2. b = [by |-> q, byte |-> 1]
        BY <1>0, <3>2, <4>1 DEF b
      <4> QED  BY <1>3, <1>l, <4>2
    <3> QED  BY <3>1, <3>2
  <2>4. \A q \in appended' : sent'[q] > 0
    BY <1>i, <1>0, <1>4, <1>6 DEF WritesOnTrack, TypeOK
  <2>5. log'[1].byte = 1
    <3>1. CASE log # <<>>
      <4>1. 1 \in DOMAIN log
        BY <1>i, <1>l, <3>1 DEF TypeOK
      <4> QED  BY <1>i, <1>3, <3>1, <4>1 DEF WritesOnTrack
    <3>2. CASE log = <<>>
      <4>1. sent[r] = 0
        <5>1. DOMAIN log = {}
          BY <3>2
        <5> QED  BY <1>i, <1>0, <5>1 DEF WritesOnTrack
      <4>2. Len(log) = 0
        BY <3>2
      <4> QED  BY <1>2, <1>3, <4>1, <4>2
    <3> QED  BY <3>1, <3>2
  <2>6. writer' # NoOne => request'[writer'] = "writing"
    BY <1>5, <1>6
  <2> QED  BY <2>1, <2>2, <2>3, <2>4, <2>5, <2>6 DEF WritesOnTrack
<1>9. ASSUME faults' = 0 PROVE WholeLines'
  <2>w. WholeLines
    BY <1>i, <1>1, <1>9
  <2> DEFINE n == Len(log)
  <2>0. n \in Nat /\ n + 1 - 1 = n /\ (n \in DOMAIN log <=> log # <<>>)
    BY <1>i, <1>l DEF TypeOK
  \* What comes before the new byte.
  <2>1. sent[r] = 0 => n + 1 = 1 \/ (n \in DOMAIN log /\ log[n].byte = Newline)
    <3>1. sent[r] = 0 => writer = NoOne
      BY <1>0, <2>w DEF WholeLines, LogAssumption
    <3>2. log = <<>> => n + 1 = 1
      OBVIOUS
    <3> QED  BY <2>0, <2>w, <3>1, <3>2 DEF WholeLines
  <2>2. sent[r] # 0 => n \in DOMAIN log /\ log[n] = [by |-> r, byte |-> sent[r]]
    <3>1. sent[r] # 0 => writer = r
      BY <1>0, <2>w DEF WholeLines
    <3>2. NoOne # r
      BY DEF LogAssumption
    <3> QED  BY <2>0, <2>w, <3>1, <3>2 DEF WholeLines
  <2>3. ASSUME NEW i \in DOMAIN log'
        PROVE  /\ log'[i].byte = 1 => i = 1 \/ (i - 1 \in DOMAIN log' /\ log'[i - 1].byte = Newline)
               /\ log'[i].byte = 2 =>
                     i - 1 \in DOMAIN log' /\ log'[i - 1] = [by |-> log'[i].by, byte |-> 1]
               /\ log'[i].byte = Newline =>
                     i - 1 \in DOMAIN log' /\ log'[i - 1] = [by |-> log'[i].by, byte |-> 2]
    <3>1. CASE i \in DOMAIN log
      <4>1. log'[i] = log[i]
        BY <1>3, <3>1
      <4>2. i - 1 \in DOMAIN log => i - 1 \in DOMAIN log' /\ log'[i - 1] = log[i - 1]
        BY <1>3
      <4>3. /\ log[i].byte = 1 => i = 1 \/ (i - 1 \in DOMAIN log /\ log[i - 1].byte = Newline)
            /\ log[i].byte = 2 =>
                  i - 1 \in DOMAIN log /\ log[i - 1] = [by |-> log[i].by, byte |-> 1]
            /\ log[i].byte = Newline =>
                  i - 1 \in DOMAIN log /\ log[i - 1] = [by |-> log[i].by, byte |-> 2]
        BY <2>w, <3>1 DEF WholeLines
      <4> QED  BY <4>1, <4>2, <4>3
    <3>2. CASE i = n + 1
      <4>1. log'[i] = b /\ log'[i].by = r /\ log'[i].byte = sent[r] + 1 /\ i - 1 = n
        BY <1>2, <1>3, <2>0, <3>2
      <4>2. n \in DOMAIN log => n \in DOMAIN log' /\ log'[n] = log[n]
        BY <1>3
      <4>3. CASE sent[r] = 0
        BY <2>1, <3>2, <4>1, <4>2, <4>3 DEF Newline
      <4>4. CASE sent[r] = 1
        BY <2>2, <4>1, <4>2, <4>4 DEF Newline
      <4>5. CASE sent[r] = 2
        BY <2>2, <4>1, <4>2, <4>5 DEF Newline
      <4> QED  BY <1>0, <4>3, <4>4, <4>5
    <3>3. i \in DOMAIN log \/ i = n + 1
      BY <1>3, <1>l
    <3> QED  BY <3>1, <3>2, <3>3
  <2>4. log'[Len(log')] = b /\ b = [by |-> r, byte |-> sent'[r]]
    BY <1>3, <1>4 DEF b
  <2>5. writer' = NoOne => log'[Len(log')].byte = Newline
    BY <1>0, <1>2, <1>6, <2>4 DEF Newline, LogAssumption
  <2>6. writer' # NoOne =>
           /\ log' # <<>> /\ sent'[writer'] \in {1, 2}
           /\ log'[Len(log')] = [by |-> writer', byte |-> sent'[writer']]
    BY <1>0, <1>3, <1>4, <1>6, <2>4
  <2>7. ASSUME NEW q \in Requests, request'[q] \in {"scored", "writing"}, q # writer'
        PROVE  sent'[q] = 0
    <3>1. q # r
      BY <1>0, <1>5, <1>6, <2>7
    <3>2. q # writer
      BY <1>0, <3>1 DEF LogAssumption
    <3> QED  BY <1>4, <1>5, <2>w, <2>7, <3>1, <3>2 DEF WholeLines
  <2> QED  BY <2>3, <2>5, <2>6, <2>7 DEF WholeLines
<1>10. ReadersOnTrack' /\ ReportIsComplete' /\ UnparsableIsExplained' /\ CheckedHasRows'
  BY <1>1, <1>3, <1>6, WritersSpareReaders
<1> QED  BY <1>7, <1>8, <1>9, <1>10 DEF IInv

LEMMA ReportsSpareTheLog ==
    ASSUME IInv, UNCHANGED writeVars
    PROVE  WritesOnTrack' /\ (faults' = 0 => WholeLines')
<1>1. WritesOnTrack /\ (faults = 0 => WholeLines)
  BY DEF IInv
<1> QED  BY <1>1 DEF WritesOnTrack, WholeLines, writeVars

\* Ending a report, however it went.
LEMMA EndKeeps ==
    ASSUME TypeOK, ReadersOnTrack, ReportIsComplete, NEW d \in Readers, NEW how, End(d, how),
           how \in {"0", "unchecked", "noReference", "noRows", "unparsable", "noSummary"},
           UNCHANGED writeVars
    PROVE  /\ reader' \in [Readers -> {"idle", "reference", "read", "render"}]
           /\ outcome' \in [Readers -> {"none", "0", "unchecked", "noReference",
                                        "noRows", "unparsable", "noSummary"}]
           /\ rows' \in [Readers -> SUBSET Requests] /\ due' \in [Readers -> SUBSET Requests]
           /\ ReadersOnTrack' /\ ReportIsComplete'
           /\ outcome'[d] = how /\ \A e \in Readers \ {d} : outcome'[e] = outcome[e]
<1>1. /\ reader' = [reader EXCEPT ![d] = "idle"] /\ outcome' = [outcome EXCEPT ![d] = how]
      /\ rows' = [rows EXCEPT ![d] = {}] /\ due' = [due EXCEPT ![d] = {}]
      /\ UNCHANGED <<log, appended>>
  BY DEF End, writeVars
<1>2. /\ reader' \in [Readers -> {"idle", "reference", "read", "render"}]
      /\ reader'[d] = "idle" /\ \A e \in Readers \ {d} : reader'[e] = reader[e]
  BY <1>1 DEF TypeOK
<1>3. /\ rows' \in [Readers -> SUBSET Requests] /\ due' \in [Readers -> SUBSET Requests]
      /\ due'[d] = {} /\ \A e \in Readers \ {d} : rows'[e] = rows[e] /\ due'[e] = due[e]
  BY <1>1 DEF TypeOK
<1>4. /\ outcome' \in [Readers -> {"none", "0", "unchecked", "noReference",
                                   "noRows", "unparsable", "noSummary"}]
      /\ outcome'[d] = how /\ \A e \in Readers \ {d} : outcome'[e] = outcome[e]
  BY <1>1 DEF TypeOK
<1>5. ReadersOnTrack'
  <2>1. ASSUME NEW e \in Readers PROVE due'[e] \subseteq appended'
    BY <1>1, <1>3 DEF ReadersOnTrack
  <2>2. ASSUME NEW e \in Checked, reader'[e] # "idle", e \in Readers PROVE log' # <<>>
    BY <1>1, <1>2, <2>2 DEF ReadersOnTrack
  <2>3. Checked \subseteq Readers
    BY LogAssumption DEF LogAssumption
  <2> QED  BY <2>1, <2>2, <2>3 DEF ReadersOnTrack
<1>6. ReportIsComplete'
  BY <1>2, <1>3 DEF ReportIsComplete
<1> QED  BY <1>2, <1>3, <1>4, <1>5, <1>6

LEMMA BeginStep == ASSUME LogAssumption, IInv, NEW d \in Readers, Begin(d) PROVE IInv'
<1>i. /\ TypeOK /\ ReadersOnTrack
      /\ ReportIsComplete /\ UnparsableIsExplained /\ CheckedHasRows
  BY DEF IInv
<1>w. UNCHANGED writeVars
  BY DEF Begin
<1>1. WritesOnTrack' /\ (faults' = 0 => WholeLines')
  BY <1>w, ReportsSpareTheLog
<1>2. CASE /\ d \in Checked => log # <<>>
           /\ reader' = [reader EXCEPT ![d] = "reference"]
           /\ due' = [due EXCEPT ![d] = appended]
           /\ outcome' = [outcome EXCEPT ![d] = "none"]
           /\ broken' = broken \ {d}
           /\ UNCHANGED rows
  <2>1. TypeOK'
    BY <1>i, <1>w, <1>2 DEF TypeOK, writeVars
  <2>2. reader'[d] = "reference" /\ \A e \in Readers \ {d} : reader'[e] = reader[e]
    BY <1>i, <1>2 DEF TypeOK
  <2>3. due'[d] = appended /\ \A e \in Readers \ {d} : due'[e] = due[e]
    BY <1>i, <1>2 DEF TypeOK
  <2>4. outcome'[d] = "none" /\ \A e \in Readers \ {d} : outcome'[e] = outcome[e]
    BY <1>i, <1>2 DEF TypeOK
  <2>5. ReadersOnTrack'
    BY <1>i, <1>w, <1>2, <2>2, <2>3 DEF ReadersOnTrack, writeVars, LogAssumption
  <2>6. ReportIsComplete'
    BY <1>i, <1>2, <2>2, <2>3 DEF ReportIsComplete
  <2>7. UnparsableIsExplained'
    BY <1>i, <1>w, <1>2, <2>4 DEF UnparsableIsExplained, writeVars
  <2>8. CheckedHasRows'
    BY <1>i, <2>4 DEF CheckedHasRows, LogAssumption
  <2> QED  BY <1>1, <2>1, <2>5, <2>6, <2>7, <2>8 DEF IInv
<1>3. CASE d \in Checked /\ log = <<>> /\ End(d, "unchecked") /\ UNCHANGED broken
  <2>1. /\ reader' \in [Readers -> {"idle", "reference", "read", "render"}]
        /\ outcome' \in [Readers -> {"none", "0", "unchecked", "noReference",
                                     "noRows", "unparsable", "noSummary"}]
        /\ rows' \in [Readers -> SUBSET Requests] /\ due' \in [Readers -> SUBSET Requests]
        /\ ReadersOnTrack' /\ ReportIsComplete'
        /\ outcome'[d] = "unchecked" /\ \A e \in Readers \ {d} : outcome'[e] = outcome[e]
    BY <1>i, <1>w, <1>3, EndKeeps
  <2>2. TypeOK'
    BY <1>i, <1>w, <1>3, <2>1 DEF TypeOK, writeVars
  <2>3. UnparsableIsExplained'
    BY <1>i, <1>w, <1>3, <2>1 DEF UnparsableIsExplained, writeVars
  <2>4. CheckedHasRows'
    BY <1>i, <2>1 DEF CheckedHasRows, LogAssumption
  <2> QED  BY <1>1, <2>1, <2>2, <2>3, <2>4 DEF IInv
<1> QED  BY <1>2, <1>3 DEF Begin

\* A report that ends without having met a line that is not JSON.
LEMMA QuietEnd ==
    ASSUME LogAssumption, IInv, NEW d \in Readers, NEW how, End(d, how),
           how \in {"0", "noReference", "noSummary"}, broken' = broken, UNCHANGED writeVars
    PROVE  IInv'
<1>i. /\ TypeOK /\ ReadersOnTrack
      /\ ReportIsComplete /\ UnparsableIsExplained /\ CheckedHasRows
  BY DEF IInv
<1>1. /\ reader' \in [Readers -> {"idle", "reference", "read", "render"}]
      /\ outcome' \in [Readers -> {"none", "0", "unchecked", "noReference",
                                   "noRows", "unparsable", "noSummary"}]
      /\ rows' \in [Readers -> SUBSET Requests] /\ due' \in [Readers -> SUBSET Requests]
      /\ ReadersOnTrack' /\ ReportIsComplete'
      /\ outcome'[d] = how /\ \A e \in Readers \ {d} : outcome'[e] = outcome[e]
  BY <1>i, EndKeeps
<1>2. TypeOK'
  BY <1>i, <1>1 DEF TypeOK, writeVars
<1>3. UnparsableIsExplained'
  BY <1>i, <1>1 DEF UnparsableIsExplained, writeVars
<1>4. CheckedHasRows'
  BY <1>i, <1>1 DEF CheckedHasRows, LogAssumption
<1>5. WritesOnTrack' /\ (faults' = 0 => WholeLines')
  BY ReportsSpareTheLog
<1> QED  BY <1>1, <1>2, <1>3, <1>4, <1>5 DEF IInv

LEMMA LoadReferenceStep ==
    ASSUME LogAssumption, IInv, NEW d \in Readers, LoadReference(d) PROVE IInv'
<1>i. /\ TypeOK /\ ReadersOnTrack
      /\ ReportIsComplete /\ UnparsableIsExplained /\ CheckedHasRows
  BY DEF IInv
<1>w. UNCHANGED writeVars /\ broken' = broken /\ reader[d] = "reference"
  BY DEF LoadReference
<1>1. CASE reader' = [reader EXCEPT ![d] = "read"] /\ UNCHANGED <<outcome, rows, due>>
  <2>1. TypeOK'
    BY <1>i, <1>w, <1>1 DEF TypeOK, writeVars
  <2>2. reader'[d] = "read" /\ \A e \in Readers \ {d} : reader'[e] = reader[e]
    BY <1>i, <1>1 DEF TypeOK
  <2>3. \A e \in Readers : reader'[e] # "idle" => reader[e] # "idle"
    BY <1>w, <2>2
  <2>4. ReadersOnTrack'
    BY <1>i, <1>w, <1>1, <2>3 DEF ReadersOnTrack, writeVars, LogAssumption
  <2>5. ReportIsComplete' /\ UnparsableIsExplained' /\ CheckedHasRows'
    BY <1>i, <1>w, <1>1, <2>2
       DEF ReportIsComplete, UnparsableIsExplained, CheckedHasRows, writeVars
  <2>6. WritesOnTrack' /\ (faults' = 0 => WholeLines')
    BY <1>w, ReportsSpareTheLog
  <2> QED  BY <2>1, <2>4, <2>5, <2>6 DEF IInv
<1>2. CASE End(d, "noReference")
  BY <1>w, <1>2, QuietEnd
<1> QED  BY <1>1, <1>2 DEF LoadReference

LEMMA GenerateStep ==
    ASSUME LogAssumption, IInv, NEW d \in Readers, Generate(d) PROVE IInv'
<1>1. PICK how \in {"0", "noSummary"} : End(d, how)
  BY DEF Generate
<1>2. UNCHANGED writeVars /\ broken' = broken
  BY DEF Generate
<1> QED  BY <1>1, <1>2, QuietEnd

LEMMA LoadPredictionsStep ==
    ASSUME LogAssumption, IInv, NEW d \in Readers, LoadPredictions(d) PROVE IInv'
<1>i. /\ TypeOK /\ WritesOnTrack /\ ReadersOnTrack /\ (faults = 0 => WholeLines)
      /\ ReportIsComplete /\ UnparsableIsExplained /\ CheckedHasRows
  BY DEF IInv
<1>w. /\ UNCHANGED writeVars /\ reader[d] = "read"
      /\ broken' = IF writer # NoOne THEN broken \union {d} ELSE broken
  BY DEF LoadPredictions
<1>b. broken' \subseteq Readers /\ broken \subseteq broken'
  BY <1>i, <1>w DEF TypeOK
<1>t. WritesOnTrack' /\ (faults' = 0 => WholeLines')
  BY <1>w, ReportsSpareTheLog
<1>1. CASE /\ Parses /\ LoggedRows # {}
           /\ rows' = [rows EXCEPT ![d] = LoggedRows]
           /\ reader' = [reader EXCEPT ![d] = "render"]
           /\ UNCHANGED <<outcome, due>>
  <2>1. LoggedRows \subseteq Requests
    BY <1>i, LogBytes DEF LoggedRows
  <2>2. TypeOK'
    BY <1>i, <1>w, <1>b, <1>1, <2>1 DEF TypeOK, writeVars
  <2>3. /\ rows'[d] = LoggedRows
        /\ \A e \in Readers \ {d} : rows'[e] = rows[e] /\ reader'[e] = reader[e]
    BY <1>i, <1>1 DEF TypeOK
  <2>4. \A e \in Readers : reader'[e] # "idle" => reader[e] # "idle"
    BY <1>w, <2>3
  <2>5. ReadersOnTrack'
    BY <1>i, <1>w, <1>1, <2>4 DEF ReadersOnTrack, writeVars, LogAssumption
  <2>6. due'[d] \subseteq rows'[d]
    BY <1>i, <1>1, <2>3, AppendedAreRows DEF ReadersOnTrack
  <2>7. ReportIsComplete'
    BY <1>i, <1>1, <2>3, <2>6 DEF ReportIsComplete
  <2>8. UnparsableIsExplained' /\ CheckedHasRows'
    BY <1>i, <1>w, <1>b, <1>1 DEF UnparsableIsExplained, CheckedHasRows, writeVars
  <2> QED  BY <1>t, <2>2, <2>5, <2>7, <2>8 DEF IInv
<1>2. ASSUME NEW how \in {"noRows", "unparsable"}, End(d, how),
             how = "noRows" => Parses /\ LoggedRows = {},
             how = "unparsable" => ~Parses
      PROVE  IInv'
  <2>1. /\ reader' \in [Readers -> {"idle", "reference", "read", "render"}]
        /\ outcome' \in [Readers -> {"none", "0", "unchecked", "noReference",
                                     "noRows", "unparsable", "noSummary"}]
        /\ rows' \in [Readers -> SUBSET Requests] /\ due' \in [Readers -> SUBSET Requests]
        /\ ReadersOnTrack' /\ ReportIsComplete'
        /\ outcome'[d] = how /\ \A e \in Readers \ {d} : outcome'[e] = outcome[e]
    BY <1>i, <1>w, <1>2, EndKeeps
  <2>2. TypeOK'
    BY <1>i, <1>w, <1>b, <2>1 DEF TypeOK, writeVars
  \* No fault, and no write under way: the lines are whole.
  <2>3. how = "unparsable" => faults' > 0 \/ d \in broken'
    <3> SUFFICES ASSUME how = "unparsable", d \notin broken' PROVE faults' > 0
      OBVIOUS
    <3>1. writer = NoOne
      BY <1>w
    <3>2. faults # 0
      BY <1>i, <1>2, <3>1, WholeLinesParse
    <3> QED  BY <1>i, <1>w, <3>2 DEF TypeOK, writeVars, LogAssumption
  <2>4. UnparsableIsExplained'
    BY <1>i, <1>w, <1>b, <2>1, <2>3 DEF UnparsableIsExplained, writeVars
  \* A checked report found a log, and a log that parses has a prediction.
  <2>5. d \in Checked => how # "noRows"
    BY <1>i, <1>w, <1>2, LogHasRows DEF ReadersOnTrack
  <2>6. CheckedHasRows'
    BY <1>i, <2>1, <2>5 DEF CheckedHasRows, LogAssumption
  <2> QED  BY <1>t, <2>1, <2>2, <2>4, <2>6 DEF IInv
<1>3. CASE Parses /\ LoggedRows = {} /\ End(d, "noRows")
  BY <1>2, <1>3
<1>4. CASE ~Parses /\ End(d, "unparsable")
  BY <1>2, <1>4
<1> QED  BY <1>1, <1>3, <1>4 DEF LoadPredictions

LEMMA NextKeepsIInv == ASSUME LogAssumption, IInv, [Next]_vars PROVE IInv'
<1>1. ASSUME NEW r \in Requests, Serve(r) PROVE IInv'
  BY <1>1, OpenStep, OpenFailsStep, WriteByteStep, WriteFailsStep DEF Serve
<1>2. ASSUME NEW d \in Readers, Report(d) PROVE IInv'
  BY <1>2, LoadReferenceStep, LoadPredictionsStep, GenerateStep DEF Report
<1>3. CASE UNCHANGED vars
  <2>1. UNCHANGED writeVars /\ UNCHANGED readVars
    BY <1>3 DEF vars
  <2> QED
    BY <2>1 DEF IInv, TypeOK, WritesOnTrack, ReadersOnTrack, WholeLines, ReportIsComplete,
                UnparsableIsExplained, CheckedHasRows, writeVars, readVars
<1> QED  BY <1>1, <1>2, <1>3, KillStep, BeginStep DEF Next

LEMMA LogIInv == Spec => []IInv
<1>1. Init => IInv
  BY LogAssumption, InitIInv
<1>2. IInv /\ [Next]_vars => IInv'
  BY LogAssumption, NextKeepsIInv
<1> QED  BY <1>1, <1>2, PTL DEF Spec
-----------------------------------------------------------------------------
\* Every variable stays within its type, however many requests share the log.
THEOREM LogTypeCorrect == Spec => []TypeOK
<1>1. IInv => TypeOK
  BY DEF IInv
<1> QED  BY <1>1, LogIInv, PTL

\* A drift report that gets as far as rendering has read every prediction that
\* append_prediction had written when it started.
THEOREM ReportsAreComplete == Spec => []ReportIsComplete
<1>1. IInv => ReportIsComplete
  BY DEF IInv
<1> QED  BY <1>1, LogIInv, PTL

\* Threads that append to one file without a lock do not mix their lines: a line that
\* is not JSON is a failed, a killed or an unfinished write.
THEOREM UnparsableExplained == Spec => []UnparsableIsExplained
<1>1. IInv => UnparsableIsExplained
  BY DEF IInv
<1> QED  BY <1>1, LogIInv, PTL

\* After the monthly DAG's `test -s` passed, drift-report finds at least one row or a
\* line it cannot parse, never an empty log.
THEOREM CheckedFindsRows == Spec => []CheckedHasRows
<1>1. IInv => CheckedHasRows
  BY DEF IInv
<1> QED  BY <1>1, LogIInv, PTL

-----------------------------------------------------------------------------
\* The lines of the log, whatever fails.

\* A byte is written once, and after those before it in its line: close() does not repeat
\* what a failed flush has handed over.
BytesInOrder ==
    /\ \A i \in DOMAIN log : log[i].byte <= sent[log[i].by]
    /\ \A i, j \in DOMAIN log : i < j /\ log[i].by = log[j].by => log[i].byte < log[j].byte

\* A line that no write has failed for ends the log as far as it has got.
OpenLineIsLast ==
    /\ writer # NoOne /\ ~failed[writer] =>
          LET n == Len(log)
          IN  \/ sent[writer] = 1 /\ At(log, n, writer, 1)
              \/ sent[writer] = 2 /\ At(log, n - 1, writer, 1) /\ At(log, n, writer, 2)
    /\ \A r \in Requests : request[r] = "writing" /\ ~failed[r] /\ r # writer => sent[r] = 0

\* Every prediction in a report was served, and its JSON is in the log.
RowsWereServed ==
    \A d \in Readers : \A r \in rows[d] : request[r] # "scored" /\ sent[r] >= 2

LEMMA LogSteps ==
    ASSUME [Next]_vars
    PROVE  (\E r \in Requests : WriteByte(r)) \/ UNCHANGED <<log, sent, appended>>
BY DEF Next, Serve, Report, Open, OpenFails, WriteFails, Kill, Begin, LoadReference,
       LoadPredictions, Generate, vars, writeVars, readVars

\* What a byte changes.
LEMMA ByteWritten ==
    ASSUME IInv, NEW r \in Requests, WriteByte(r)
    PROVE  /\ sent[r] \in {0, 1, 2}
           /\ \A q \in Requests : sent'[q] = IF q = r THEN sent[q] + 1 ELSE sent[q]
           /\ Len(log) \in Nat /\ Len(log') = Len(log) + 1 /\ DOMAIN log = 1 .. Len(log)
           /\ DOMAIN log' = 1 .. Len(log) + 1
           /\ \A i \in DOMAIN log : i \in DOMAIN log' /\ log'[i] = log[i]
           /\ log'[Len(log) + 1] = [by |-> r, byte |-> sent[r] + 1]
           /\ \A i \in 1 .. Len(log) + 1 : i \in DOMAIN log \/ i = Len(log) + 1
           /\ \A i \in DOMAIN log : i < Len(log) + 1 /\ ~(Len(log) + 1 < i)
<1> DEFINE b == [by |-> r, byte |-> sent[r] + 1]
<1>1. TypeOK /\ WritesOnTrack /\ request[r] = "writing" /\ log' = Append(log, b)
  BY DEF IInv, WriteByte
<1>2. sent[r] \in {0, 1, 2}
  BY <1>1 DEF TypeOK, WritesOnTrack, Newline
<1>3. sent[r] + 1 \in 1..Newline
  BY <1>2 DEF Newline
<1>4. b \in Byte
  BY <1>3 DEF Byte
<1>5. Len(log) \in Nat /\ DOMAIN log = 1 .. Len(log)
  BY <1>1, LogBytes
<1>6. \A q \in Requests : sent'[q] = IF q = r THEN sent[q] + 1 ELSE sent[q]
  BY <1>1 DEF WriteByte, TypeOK
<1> HIDE DEF b
<1>7. /\ Len(log') = Len(log) + 1 /\ DOMAIN log' = 1 .. Len(log) + 1
      /\ \A i \in DOMAIN log : i \in DOMAIN log' /\ log'[i] = log[i]
      /\ log'[Len(log) + 1] = b
  BY <1>1, <1>4, AppendKeeps
<1> QED  BY <1>2, <1>5, <1>6, <1>7 DEF b

\* Two threads and a retried flush write no byte twice and none before its turn.
THEOREM BytesStayInOrder == Spec => []BytesInOrder
<1>1. Init => BytesInOrder
  BY DEF Init, BytesInOrder
<1>2. IInv /\ BytesInOrder /\ [Next]_vars => BytesInOrder'
  <2> SUFFICES ASSUME IInv, BytesInOrder, [Next]_vars PROVE BytesInOrder'
    OBVIOUS
  <2>1. ASSUME NEW r \in Requests, WriteByte(r) PROVE BytesInOrder'
    <3> DEFINE n == Len(log) + 1
    <3>0. /\ sent[r] \in {0, 1, 2}
          /\ \A q \in Requests : sent'[q] = IF q = r THEN sent[q] + 1 ELSE sent[q]
          /\ DOMAIN log' = 1 .. n /\ log'[n] = [by |-> r, byte |-> sent[r] + 1]
          /\ \A i \in DOMAIN log : log'[i] = log[i] /\ i < n /\ ~(n < i)
          /\ \A i \in 1 .. n : i \in DOMAIN log \/ i = n
          /\ n \in Nat
      BY <2>1, ByteWritten
    <3> HIDE DEF n
    <3>1. /\ sent[r] \in {0, 1, 2}
          /\ \A q \in Requests : sent'[q] = IF q = r THEN sent[q] + 1 ELSE sent[q]
          /\ log'[n].by = r /\ log'[n].byte = sent[r] + 1
          /\ \A i \in DOMAIN log : log'[i] = log[i] /\ i < n /\ ~(n < i)
          /\ \A i \in DOMAIN log' : i \in DOMAIN log \/ i = n
          /\ ~(n < n)
      BY <3>0
    <3>2. \A i \in DOMAIN log : /\ log[i].by \in Requests /\ log[i].byte \in {1, 2, 3}
                                /\ sent[log[i].by] \in Nat
      BY LogBytes DEF IInv, TypeOK
    <3>3. ASSUME NEW i \in DOMAIN log' PROVE log'[i].byte <= sent'[log'[i].by]
      <4>1. CASE i = n
        BY <3>1, <4>1
      <4>2. CASE i \in DOMAIN log
        <5>1. log[i].byte <= sent[log[i].by]
          BY <4>2 DEF BytesInOrder
        <5> QED  BY <3>1, <3>2, <4>2, <5>1
      <4> QED  BY <3>1, <4>1, <4>2
    <3>4. ASSUME NEW i \in DOMAIN log', NEW j \in DOMAIN log', i < j, log'[i].by = log'[j].by
          PROVE  log'[i].byte < log'[j].byte
      <4>1. i \in DOMAIN log
        BY <3>1, <3>4
      <4>2. CASE j \in DOMAIN log
        BY <3>1, <3>4, <4>1, <4>2 DEF BytesInOrder
      <4>3. CASE j = n
        <5>1. log[i].byte <= sent[r]
          BY <3>1, <3>4, <4>1, <4>3 DEF BytesInOrder
        <5> QED  BY <3>1, <3>2, <4>1, <4>3, <5>1
      <4> QED  BY <3>1, <4>2, <4>3
    <3> QED  BY <3>3, <3>4 DEF BytesInOrder
  <2>2. CASE UNCHANGED <<log, sent, appended>>
    BY <2>2 DEF BytesInOrder
  <2> QED  BY <2>1, <2>2, LogSteps
<1> QED  BY LogIInv, <1>1, <1>2, PTL DEF Spec

\* The threads' steps but for a byte, as they matter to the line under way.
LEMMA WriterSteps ==
    ASSUME IInv, [Next]_vars
    PROVE  \/ \E r \in Requests : WriteByte(r)
           \/ /\ UNCHANGED <<log, sent, appended>>
              /\ writer' # NoOne => writer' = writer /\ failed' = failed
              /\ \A q \in Requests :
                    request'[q] = "writing" /\ ~failed'[q] /\ q # writer' =>
                        ~failed[q] /\ q # writer /\ request[q] \in {"scored", "writing"}
<1>t. TypeOK /\ WritesOnTrack
  BY DEF IInv
<1>1. ASSUME NEW r \in Requests, Open(r)
      PROVE  /\ UNCHANGED <<log, sent, appended, writer, failed>>
             /\ \A q \in Requests : request'[q] = IF q = r THEN "writing" ELSE request[q]
             /\ request[r] = "scored" /\ writer # r
  BY <1>t, <1>1, LogAssumption DEF Open, TypeOK, WritesOnTrack, LogAssumption
<1>2. ASSUME NEW r \in Requests, OpenFails(r)
      PROVE  /\ UNCHANGED <<log, sent, appended, writer, failed>>
             /\ \A q \in Requests : request'[q] = "writing" => request[q] = "writing"
  BY <1>t, <1>2 DEF OpenFails, TypeOK
<1>3. ASSUME NEW r \in Requests, WriteFails(r)
      PROVE  /\ UNCHANGED <<log, sent, appended>> /\ writer' = NoOne /\ writer \in {NoOne, r}
             /\ failed'[r] = TRUE
             /\ \A q \in Requests \ {r} : request'[q] = request[q] /\ failed'[q] = failed[q]
  BY <1>t, <1>3 DEF WriteFails, TypeOK
<1>4. ASSUME Kill
      PROVE  /\ UNCHANGED <<log, sent, appended>> /\ writer' = NoOne
             /\ \A q \in Requests : request'[q] # "writing"
  BY <1>t, <1>4 DEF Kill, TypeOK
<1>5. \/ \E r \in Requests : Open(r) \/ OpenFails(r) \/ WriteByte(r) \/ WriteFails(r)
      \/ Kill
      \/ UNCHANGED <<log, sent, appended, request, failed, writer>>
  BY DEF Next, Serve, Report, Begin, LoadReference, LoadPredictions, Generate, vars, writeVars
<1>6. ASSUME NEW q \in Requests PROVE q # NoOne
  BY LogAssumption DEF LogAssumption
<1> QED  BY <1>1, <1>2, <1>3, <1>4, <1>5, <1>6

\* Nothing that append_prediction returned from without an error is torn by another
\* thread, a failing disk or a killed process.
THEOREM AppendedStaysWhole == Spec => []AppendedLinesAreWhole
<1>1. Init => AppendedLinesAreWhole /\ OpenLineIsLast
  BY DEF Init, AppendedLinesAreWhole, OpenLineIsLast
<1>2. IInv /\ AppendedLinesAreWhole /\ OpenLineIsLast /\ [Next]_vars
          => AppendedLinesAreWhole' /\ OpenLineIsLast'
  <2> SUFFICES ASSUME IInv, AppendedLinesAreWhole, OpenLineIsLast, [Next]_vars
               PROVE  AppendedLinesAreWhole' /\ OpenLineIsLast'
    OBVIOUS
  <2>t. TypeOK /\ WritesOnTrack
    BY DEF IInv
  <2>1. ASSUME NEW r \in Requests, WriteByte(r)
        PROVE  AppendedLinesAreWhole' /\ OpenLineIsLast'
    <3> DEFINE n == Len(log) + 1
    <3>1. /\ sent[r] \in {0, 1, 2} /\ sent'[r] = sent[r] + 1
          /\ \A q \in Requests \ {r} : sent'[q] = sent[q]
          /\ n \in Nat /\ n - 1 = Len(log) /\ n - 2 = Len(log) - 1 /\ Len(log') = n
          /\ n \in DOMAIN log' /\ log'[n] = [by |-> r, byte |-> sent[r] + 1]
          /\ \A i \in DOMAIN log : i \in DOMAIN log' /\ log'[i] = log[i]
      <4>1. n \in 1 .. n
        BY <2>1, ByteWritten
      <4> QED  BY <2>1, <4>1, ByteWritten
    <3> HIDE DEF n
    <3>2. At(log', n, r, sent'[r])
      BY <3>1 DEF At
    <3>3. \A i, q, b : At(log, i, q, b) => At(log', i, q, b)
      BY <3>1 DEF At
    <3>4. ~failed[r] =>
             \/ sent[r] = 0
             \/ sent[r] = 1 /\ At(log, n - 1, r, 1)
             \/ sent[r] = 2 /\ At(log, n - 2, r, 1) /\ At(log, n - 1, r, 2)
      BY <2>1, <3>1, LogAssumption DEF OpenLineIsLast, WriteByte, LogAssumption
    <3>5. OpenLineIsLast'
      <4>1. ASSUME writer' # NoOne, ~failed'[writer']
            PROVE  \/ sent'[writer'] = 1 /\ At(log', Len(log'), writer', 1)
                   \/ /\ sent'[writer'] = 2
                      /\ At(log', Len(log') - 1, writer', 1) /\ At(log', Len(log'), writer', 2)
        <5>1. writer' = r /\ failed'[r] = failed[r] /\ sent[r] \in {0, 1}
          BY <2>1, <3>1, <4>1 DEF WriteByte, Newline
        <5>2. \/ sent'[r] = 1
              \/ sent'[r] = 2 /\ At(log, n - 1, r, 1)
          BY <3>1, <3>4, <4>1, <5>1
        <5> QED  BY <3>1, <3>2, <3>3, <5>1, <5>2
      <4>2. ASSUME NEW q \in Requests, request'[q] = "writing", ~failed'[q], q # writer'
            PROVE  sent'[q] = 0
        <5>1. failed' = failed /\ (request'[r] = "writing" => writer' = r)
          BY <2>t, <2>1 DEF WriteByte, TypeOK
        <5>2. q # r /\ request'[q] = request[q]
          BY <2>t, <2>1, <4>2, <5>1 DEF WriteByte, TypeOK
        <5>3. q # writer
          BY <2>1, <5>2, LogAssumption DEF WriteByte, LogAssumption
        <5> QED  BY <3>1, <4>2, <5>1, <5>2, <5>3 DEF OpenLineIsLast
      <4> QED  BY <4>1, <4>2 DEF OpenLineIsLast
    <3>6. AppendedLinesAreWhole'
      <4>1. ASSUME NEW q \in appended
            PROVE  \E i \in DOMAIN log' :
                       At(log', i, q, 1) /\ At(log', i + 1, q, 2) /\ At(log', i + 2, q, 3)
        BY <3>1, <3>3 DEF AppendedLinesAreWhole
      <4>2. ASSUME r \in appended', r \notin appended
            PROVE  \E i \in DOMAIN log' :
                       At(log', i, r, 1) /\ At(log', i + 1, r, 2) /\ At(log', i + 2, r, 3)
        <5>1. sent[r] = 2 /\ ~failed[r]
          BY <2>1, <3>1, <4>2 DEF WriteByte, Newline
        <5>2. sent'[r] = 3 /\ At(log, n - 2, r, 1) /\ At(log, n - 1, r, 2)
          BY <3>1, <3>4, <5>1
        <5>3. (n - 2) + 1 = n - 1 /\ (n - 2) + 2 = n
          BY <3>1
        <5>4. n - 2 \in DOMAIN log'
          BY <3>1, <5>2 DEF At
        <5> QED  BY <3>2, <3>3, <5>2, <5>3, <5>4
      <4>3. appended' \subseteq appended \union {r}
        BY <2>1 DEF WriteByte
      <4> QED  BY <4>1, <4>2, <4>3 DEF AppendedLinesAreWhole
    <3> QED  BY <3>5, <3>6
  <2>2. CASE /\ UNCHANGED <<log, sent, appended>>
             /\ writer' # NoOne => writer' = writer /\ failed' = failed
             /\ \A q \in Requests :
                   request'[q] = "writing" /\ ~failed'[q] /\ q # writer' =>
                       ~failed[q] /\ q # writer /\ request[q] \in {"scored", "writing"}
    <3>1. \A q \in Requests : request[q] = "scored" => sent[q] = 0
      BY <2>t DEF WritesOnTrack
    <3>2. \A i, q, b : At(log', i, q, b) <=> At(log, i, q, b)
      BY <2>2 DEF At
    <3>3. AppendedLinesAreWhole'
      BY <2>2, <3>2 DEF AppendedLinesAreWhole
    <3>4. OpenLineIsLast'
      BY <2>2, <3>1, <3>2 DEF OpenLineIsLast
    <3> QED  BY <3>3, <3>4
  <2> QED  BY <2>1, <2>2, WriterSteps
<1>3. Spec => [](AppendedLinesAreWhole /\ OpenLineIsLast)
  BY LogIInv, <1>1, <1>2, PTL DEF Spec
<1> QED  BY <1>3, PTL

\* A report moves in its own steps only.
LEMMA ReaderSteps ==
    ASSUME IInv, [Next]_vars, NEW d \in Readers
    PROVE  Begin(d) \/ Report(d) \/ UNCHANGED <<reader[d], rows[d]>>
<1>t. /\ reader \in [Readers -> {"idle", "reference", "read", "render"}]
      /\ rows \in [Readers -> SUBSET Requests]
  BY DEF IInv, TypeOK
<1>1. ASSUME NEW e \in Readers, e # d, Begin(e) \/ Report(e)
      PROVE  UNCHANGED <<reader[d], rows[d]>>
  <2>1. CASE Begin(e)
    BY <1>t, <1>1, <2>1 DEF Begin, End
  <2>2. CASE LoadReference(e)
    BY <1>t, <1>1, <2>2 DEF LoadReference, End
  <2>3. CASE LoadPredictions(e)
    BY <1>t, <1>1, <2>3 DEF LoadPredictions, End
  <2>4. CASE Generate(e)
    BY <1>t, <1>1, <2>4 DEF Generate, End
  <2> QED  BY <1>1, <2>1, <2>2, <2>3, <2>4 DEF Report
<1>2. CASE UNCHANGED readVars
  BY <1>2 DEF readVars
<1> QED
  BY <1>1, <1>2 DEF Next, Serve, Open, OpenFails, WriteByte, WriteFails, Kill, vars

\* A drift report shows no prediction that the API has not made, nor one whose JSON never
\* reached the log: broken lines do not make rows.
THEOREM ReportsShowServedRows == Spec => []RowsWereServed
<1>1. Init => RowsWereServed
  BY DEF Init, RowsWereServed
<1>2. ASSUME IInv, BytesInOrder, RowsWereServed, [Next]_vars PROVE RowsWereServed'
  <2>t. TypeOK /\ WritesOnTrack
    BY <1>2 DEF IInv
  <2>1. ASSUME NEW r \in Requests
        PROVE  /\ sent'[r] \in Nat /\ sent[r] \in Nat /\ sent[r] <= sent'[r]
               /\ request[r] # "scored" => request'[r] # "scored"
    <3>0. sent[r] \in Nat
      BY <2>t DEF TypeOK, Newline
    <3>1. ASSUME NEW q \in Requests, WriteByte(q) PROVE sent'[r] \in Nat /\ sent[r] <= sent'[r]
      <4>0. \A s \in Requests : sent'[s] = IF s = q THEN sent[s] + 1 ELSE sent[s]
        BY <1>2, <3>1, ByteWritten
      <4>1. sent'[r] = IF r = q THEN sent[r] + 1 ELSE sent[r]
        BY <4>0
      <4> QED  BY <3>0, <4>1
    <3>2. ASSUME sent' = sent PROVE sent'[r] \in Nat /\ sent[r] <= sent'[r]
      BY <3>0, <3>2
    <3>3. request[r] # "scored" => request'[r] # "scored"
      BY <1>2, <2>t
      DEF Next, Serve, Report, Open, OpenFails, WriteByte, WriteFails, Kill, Begin,
          LoadReference, LoadPredictions, Generate, vars, writeVars, TypeOK
    <3> QED  BY <1>2, <3>0, <3>1, <3>2, <3>3, LogSteps
  <2>2. ASSUME NEW d \in Readers, NEW r \in rows'[d], r \notin rows[d]
        PROVE  r \in Requests /\ request[r] # "scored" /\ sent[r] >= 2
    <3>0. rows \in [Readers -> SUBSET Requests]
      BY <2>t DEF TypeOK
    <3>1. r \in LoggedRows
      <4>1. CASE Begin(d)
        BY <2>2, <3>0, <4>1 DEF Begin, End
      <4>2. CASE LoadReference(d)
        BY <2>2, <3>0, <4>2 DEF LoadReference, End
      <4>3. CASE LoadPredictions(d)
        BY <2>2, <3>0, <4>3 DEF LoadPredictions, End
      <4>4. CASE Generate(d)
        BY <2>2, <3>0, <4>4 DEF Generate, End
      <4> QED  BY <1>2, <2>2, <4>1, <4>2, <4>3, <4>4, ReaderSteps DEF Report
    <3>2. PICK i \in DOMAIN log : log[i].by = r /\ IsRow(i)
      BY <3>1 DEF LoggedRows
    <3>3. i + 1 \in DOMAIN log /\ log[i + 1] = [by |-> r, byte |-> 2]
      BY <3>2 DEF IsRow
    <3>4. log[i + 1].by = r /\ log[i + 1].byte = 2 /\ r \in Requests
      BY <2>t, <3>3, LogBytes
    <3>5. 2 <= sent[r] /\ sent[r] \in Nat
      BY <1>2, <2>t, <3>3, <3>4 DEF BytesInOrder, TypeOK
    <3>6. request[r] # "scored"
      BY <2>t, <3>4, <3>5 DEF WritesOnTrack
    <3> QED  BY <3>4, <3>5, <3>6
  <2>3. \A d \in Readers : \A r \in rows[d] : r \in Requests /\ request[r] # "scored" /\ sent[r] >= 2
    BY <1>2, <2>t DEF RowsWereServed, TypeOK
  <2>4. ASSUME NEW d \in Readers, NEW r \in rows'[d] PROVE request'[r] # "scored" /\ sent'[r] >= 2
    <3>1. r \in Requests /\ request[r] # "scored" /\ sent[r] >= 2
      BY <2>2, <2>3
    <3> QED  BY <2>1, <3>1
  <2> QED  BY <2>4 DEF RowsWereServed
<1> QED  BY LogIInv, BytesStayInOrder, <1>1, <1>2, PTL DEF Spec
-----------------------------------------------------------------------------
\* The halves of AppendsEnd and ReportsEnd that need no fairness.

\* Whenever threads want to append, one of them is not kept waiting.
SomebodyCanWrite ==
    (\E r \in Requests : request[r] = "writing") =>
        \E r \in Requests : request[r] = "writing" /\ writer \in {NoOne, r}

\* The steps an append has left at most.
AppendLeft(r) ==
    IF request[r] = "scored" THEN Newline + 2
    ELSE IF request[r] = "writing" THEN Newline - sent[r] + (IF failed[r] THEN 0 ELSE 1)
    ELSE 0

\* The steps a report has left.
ReportLeft(d) ==
    IF reader[d] = "reference" THEN 3
    ELSE IF reader[d] = "read" THEN 2
    ELSE IF reader[d] = "render" THEN 1 ELSE 0

\* Each of its own steps takes an append closer to its end, failed writes included, and
\* nobody else's takes it back.
AppendGetsCloser ==
    [][\A r \in Requests : /\ AppendLeft(r)' <= AppendLeft(r)
                           /\ Serve(r) => AppendLeft(r)' < AppendLeft(r)]_vars

\* The same for a report that has begun.
ReportGetsCloser ==
    [][\A d \in Readers : reader[d] # "idle" =>
           /\ ReportLeft(d)' <= ReportLeft(d)
           /\ Report(d) => ReportLeft(d)' < ReportLeft(d)]_vars

\* A failed or a killed write does not leave the file's lock with a thread that is gone.
THEOREM TheLockIsHeldByAWriter == Spec => []SomebodyCanWrite
<1>1. IInv => SomebodyCanWrite
  <2> SUFFICES ASSUME IInv, NEW r \in Requests, request[r] = "writing"
               PROVE  \E q \in Requests : request[q] = "writing" /\ writer \in {NoOne, q}
    BY DEF SomebodyCanWrite
  <2>1. CASE writer = NoOne
    BY <2>1
  <2>2. CASE writer # NoOne
    BY <2>2 DEF IInv, WritesOnTrack, TypeOK
  <2> QED  BY <2>1, <2>2
<1> QED  BY <1>1, LogIInv, PTL

\* What is left of AppendsEnd for the fairness of the threads is that each takes its turns:
\* no append can be kept going forever by failures, its own or another's.
THEOREM AppendsGetCloser == Spec => AppendGetsCloser
<1>1. ASSUME IInv, [Next]_vars, NEW r \in Requests
      PROVE  /\ AppendLeft(r)' <= AppendLeft(r)
             /\ Serve(r) => AppendLeft(r)' < AppendLeft(r)
  <2>t. TypeOK /\ WritesOnTrack
    BY <1>1 DEF IInv
  <2>0. /\ AppendLeft(r) \in Nat /\ (request[r] = "writing" => AppendLeft(r) \in 1..4)
        /\ (request[r] = "scored" => AppendLeft(r) = 5 /\ sent[r] = 0)
    <3>1. sent[r] \in {0, 1, 2, 3} /\ (request[r] = "writing" => sent[r] \in {0, 1, 2})
      BY <2>t DEF TypeOK, WritesOnTrack, Newline
    <3>2. request[r] = "scored" => sent[r] = 0
      BY <2>t DEF WritesOnTrack
    <3>3. failed[r] \in BOOLEAN
      BY <2>t DEF TypeOK
    <3> QED  BY <3>1, <3>2, <3>3 DEF AppendLeft, Newline
  <2>1. CASE Open(r) \/ OpenFails(r)
    <3>1. request[r] = "scored" /\ request'[r] \in {"writing", "answered"}
          /\ sent'[r] = 0 /\ failed'[r] \in BOOLEAN
      BY <2>t, <2>0, <2>1 DEF Open, OpenFails, TypeOK
    <3>2. AppendLeft(r)' \in {0, 3, 4}
      BY <3>1 DEF AppendLeft, Newline
    <3> QED  BY <2>0, <3>1, <3>2
  <2>2. CASE WriteByte(r)
    <3>1. /\ request[r] = "writing" /\ sent[r] \in {0, 1, 2} /\ sent'[r] = sent[r] + 1
          /\ failed'[r] = failed[r] /\ failed[r] \in BOOLEAN
          /\ request'[r] = IF sent[r] + 1 < Newline THEN "writing" ELSE "answered"
      BY <1>1, <2>t, <2>2, ByteWritten DEF WriteByte, TypeOK
    <3>2. CASE request'[r] = "writing"
      BY <3>1, <3>2 DEF AppendLeft, Newline
    <3>3. CASE request'[r] = "answered"
      <4>1. AppendLeft(r)' = 0
        BY <3>3 DEF AppendLeft
      <4> QED  BY <2>0, <3>1, <4>1
    <3> QED  BY <3>1, <3>2, <3>3
  <2>3. CASE WriteFails(r)
    <3>1. /\ request[r] = "writing" /\ sent[r] \in {0, 1, 2} /\ sent'[r] = sent[r]
          /\ failed'[r] = TRUE /\ failed[r] \in BOOLEAN
          /\ request'[r] = IF failed[r] THEN "answered" ELSE "writing"
      BY <2>t, <2>3 DEF WriteFails, TypeOK, WritesOnTrack, Newline
    <3>2. CASE failed[r]
      <4>1. AppendLeft(r)' = 0
        BY <3>1, <3>2 DEF AppendLeft
      <4> QED  BY <2>0, <3>1, <4>1
    <3>3. CASE ~failed[r]
      BY <3>1, <3>3 DEF AppendLeft, Newline
    <3> QED  BY <3>2, <3>3
  <2>4. ASSUME ~Serve(r) PROVE AppendLeft(r)' <= AppendLeft(r)
    <3>1. CASE UNCHANGED <<request[r], sent[r], failed[r]>>
      <4>1. AppendLeft(r)' = AppendLeft(r)
        BY <3>1 DEF AppendLeft
      <4> QED  BY <2>0, <4>1
    <3>2. CASE Kill
      <4>1. CASE request[r] = "writing"
        <5>1. request'[r] = "lost"
          BY <2>t, <3>2, <4>1 DEF Kill, TypeOK
        <5>2. AppendLeft(r)' = 0
          BY <5>1 DEF AppendLeft
        <5> QED  BY <2>0, <5>2
      <4>2. CASE request[r] # "writing"
        BY <2>t, <3>1, <3>2, <4>2 DEF Kill, TypeOK
      <4> QED  BY <4>1, <4>2
    <3>3. ASSUME NEW q \in Requests, Serve(q) PROVE UNCHANGED <<request[r], sent[r], failed[r]>>
      <4>1. q # r
        BY <2>4, <3>3
      <4> QED  BY <2>t, <3>3, <4>1 DEF Serve, Open, OpenFails, WriteByte, WriteFails, TypeOK
    <3>4. CASE UNCHANGED writeVars
      BY <3>1, <3>4 DEF writeVars
    <3> QED  BY <1>1, <3>1, <3>2, <3>3, <3>4
         DEF Next, Report, Begin, LoadReference, LoadPredictions, Generate, vars
  <2> QED  BY <2>0, <2>1, <2>2, <2>3, <2>4 DEF Serve
<1>2. IInv /\ [Next]_vars
         => [\A r \in Requests : /\ AppendLeft(r)' <= AppendLeft(r)
                                 /\ Serve(r) => AppendLeft(r)' < AppendLeft(r)]_vars
  BY <1>1
<1> QED  BY <1>2, LogIInv, PTL DEF Spec, AppendGetsCloser

\* Each report is over after three of its own steps, whatever is in the log by then.
THEOREM ReportsGetCloser == Spec => ReportGetsCloser
<1>1. ASSUME IInv, [Next]_vars, NEW d \in Readers, reader[d] # "idle"
      PROVE  /\ ReportLeft(d)' <= ReportLeft(d)
             /\ Report(d) => ReportLeft(d)' < ReportLeft(d)
  <2>t. reader \in [Readers -> {"idle", "reference", "read", "render"}]
    BY <1>1 DEF IInv, TypeOK
  <2>1. CASE Report(d)
    <3>1. \/ reader[d] = "reference" /\ reader'[d] \in {"read", "idle"}
          \/ reader[d] = "read" /\ reader'[d] \in {"render", "idle"}
          \/ reader[d] = "render" /\ reader'[d] = "idle"
      BY <2>t, <2>1 DEF Report, LoadReference, LoadPredictions, Generate, End
    <3> QED  BY <3>1 DEF ReportLeft
  <2>2. ASSUME reader'[d] = reader[d] PROVE ReportLeft(d)' <= ReportLeft(d)
    <3>1. ReportLeft(d)' = ReportLeft(d) /\ ReportLeft(d) \in 0..3
      BY <2>2 DEF ReportLeft
    <3> QED  BY <3>1
  <2>3. ASSUME ~Report(d) PROVE reader'[d] = reader[d]
    BY <1>1, <2>3, ReaderSteps DEF Begin
  <2> QED  BY <2>1, <2>2, <2>3
<1>2. IInv /\ [Next]_vars
         => [\A d \in Readers : reader[d] # "idle" =>
                /\ ReportLeft(d)' <= ReportLeft(d)
                /\ Report(d) => ReportLeft(d)' < ReportLeft(d)]_vars
  BY <1>1
<1> QED  BY <1>2, LogIInv, PTL DEF Spec, ReportGetsCloser

=============================================================================

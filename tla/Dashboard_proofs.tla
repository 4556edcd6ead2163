-------------------------- MODULE Dashboard_proofs --------------------------
(***************************************************************************)
(* Proofs about the dashboard's session, for any CSV, batch, limit and     *)
(* number of clicks.                                                       *)
(***************************************************************************)
EXTENDS Dashboard, TLAPS

InHand == phase \in {"connect", "label", "produce", "flush", "post", "append"}
Hand == IF InHand THEN 1 ELSE 0

\* A row in hand is the last one taken, and later than the history.
HandIsLatest ==
    InHand => /\ row_index = taken + 1
              /\ \A i \in 1 .. Len(history) : history[i].pos < taken

\* From each entry on, the rows taken are in the history, in hand or cut off.
RowsAccountedFor ==
    \A i \in 1 .. Len(history) :
        row_index - history[i].pos <= Len(history) - i + 1 + cuts + Hand

LoopOnTrack ==
    /\ phase \in {"clear", "rewind"} => done = 0
    /\ phase = "take" \/ InHand => done < Batch
    /\ phase = "rewind" => history = <<>>

\* The label is the producer's unless it still has to be written.
LabelIsTrue ==
    /\ phase = "label" => producer = shown.servers
    /\ ~halfMade /\ phase # "label" => producer = producer_bootstrap
    /\ ~halfMade /\ phase \in {"produce", "flush"} => producer = shown.servers

IInv ==
    /\ TypeOK /\ HistoryInOrder /\ HandIsLatest /\ RowsAccountedFor
    /\ LoopOnTrack /\ HistoryBounded /\ LabelIsTrue

LEMMA CutsInProportion ==
    ASSUME NEW n \in Nat PROVE Batch * n \in Nat /\ Batch * (n + 1) = Batch * n + Batch
  BY DashboardAssumption

LEMMA Typed ==
    ASSUME TypeOK
    PROVE  /\ row_index \in Nat /\ taken \in Nat /\ cuts \in Nat /\ done \in Nat
           /\ Len(history) \in Nat /\ Hand \in {0, 1}
           /\ \A i \in 1 .. Len(history) : history[i] \in Entry /\ history[i].pos \in Nat
<1>1. \A i \in 1 .. Len(history) : history[i] \in Entry
  BY DEF TypeOK
<1>2. \A i \in 1 .. Len(history) : history[i].pos \in Nat
  BY <1>1 DEF Entry
<1> QED  BY <1>1, <1>2, DashboardAssumption DEF TypeOK, Hand

\* The steps that leave the history and row_index alone.
LEMMA BreakOffKeepsIInv ==
    ASSUME IInv, BreakOff, phase # "idle", phase \notin {"flush", "post"},
           UNCHANGED <<session, shown, widgets, clicks, done, taken>>, pending' \in BOOLEAN
    PROVE  IInv'
<1>i. /\ TypeOK /\ HistoryInOrder /\ HandIsLatest /\ RowsAccountedFor
      /\ LoopOnTrack /\ HistoryBounded /\ LabelIsTrue
  BY DEF IInv
<1>u. history' = history /\ row_index' = row_index /\ done' = done
  BY DEF session
<1>0. /\ phase' = "idle" /\ cuts \in Nat /\ (cuts' = cuts \/ cuts' = cuts + 1) /\ cuts' \in Nat
      /\ (phase \in InLoop => cuts' = cuts + 1) /\ (phase \notin InLoop => cuts' = cuts)
      /\ Hand' = 0 /\ (Hand = 0 \/ Hand = 1) /\ (Hand = 1 => cuts' = cuts + 1)
  BY <1>i DEF BreakOff, TypeOK, Hand, InHand, InLoop
<1>1. TypeOK'
  BY <1>i, <1>0 DEF BreakOff, TypeOK, session
<1>2. HistoryInOrder' /\ HandIsLatest' /\ LoopOnTrack'
  BY <1>i, <1>u, <1>0 DEF HistoryInOrder, HandIsLatest, LoopOnTrack, InHand
<1>3. RowsAccountedFor'
  <2> SUFFICES ASSUME NEW i \in 1 .. Len(history)
               PROVE  row_index - history[i].pos <= Len(history) - i + 1 + cuts' + Hand'
    BY <1>u DEF RowsAccountedFor
  <2>1. row_index - history[i].pos <= Len(history) - i + 1 + cuts + Hand
    BY <1>i DEF RowsAccountedFor
  <2>2. row_index \in Nat /\ history[i].pos \in Nat /\ Len(history) \in Nat
    BY <1>i, Typed
  <2>3. CASE Hand = 1
    BY <1>0, <2>1, <2>2, <2>3
  <2>4. CASE Hand = 0
    BY <1>0, <2>1, <2>2, <2>4
  <2> QED  BY <1>0, <2>3, <2>4
<1>4. HistoryBounded'
  <2>1. Len(history) \in Nat /\ done \in 0 .. Batch /\ HistoryLimit \in Nat /\ Batch \in Nat
    BY <1>i, DashboardAssumption DEF TypeOK
  <2>2. Batch * cuts \in Nat /\ Batch * (cuts + 1) = Batch * cuts + Batch
    BY <1>0, CutsInProportion
  <2>3. Len(history) <= HistoryLimit + Batch * cuts + (IF phase \in InLoop THEN done ELSE 0)
    BY <1>i DEF HistoryBounded
  <2>4. Len(history) <= HistoryLimit + Batch * cuts'
    <3>1. CASE phase \in InLoop
      BY <1>0, <2>1, <2>2, <2>3, <3>1
    <3>2. CASE phase \notin InLoop
      BY <1>0, <2>1, <2>2, <2>3, <3>2
    <3> QED  BY <3>1, <3>2
  <2>5. Batch * cuts' \in Nat
    BY <1>0, CutsInProportion
  <2> QED  BY <1>0, <1>u, <2>1, <2>4, <2>5 DEF HistoryBounded, InLoop
<1>5. LabelIsTrue'
  BY <1>i, <1>0 DEF LabelIsTrue, BreakOff, session
<1> QED  BY <1>1, <1>2, <1>3, <1>4, <1>5 DEF IInv

LEMMA InitIInv == Init => IInv
<1> SUFFICES ASSUME Init PROVE IInv
  OBVIOUS
<1>1. Len(history) = 0 /\ 1 .. Len(history) = {}
  BY DEF Init
<1>2. TypeOK
  <2>1. widgets \in Widgets /\ shown \in Widgets
    BY DashboardAssumption DEF Init, Widgets
  <2>2. history \in Seq(Entry)
    BY DEF Init
  <2>3. pending \in BOOLEAN /\ halfMade \in BOOLEAN
    BY DEF Init
  <2>4. /\ clicks \in 0 .. MaxClicks /\ done \in 0 .. Batch /\ cuts \in Nat
        /\ row_index \in 0 .. MaxRows /\ taken \in 0 .. MaxRows
    BY DashboardAssumption DEF Init
  <2>5. /\ phase \in {"idle", "clear", "rewind", "render"} \union InLoop
        /\ producer \in Servers \union {NoServers}
        /\ producer_bootstrap \in Servers \union {NoServers}
    BY DEF Init
  <2> QED  BY <2>1, <2>2, <2>3, <2>4, <2>5 DEF TypeOK
<1>3. HistoryInOrder /\ HandIsLatest /\ RowsAccountedFor /\ LoopOnTrack /\ LabelIsTrue
  BY <1>1 DEF Init, HistoryInOrder, HandIsLatest, RowsAccountedFor, LoopOnTrack,
              LabelIsTrue, InHand
<1>4. Batch * cuts = 0
  BY DashboardAssumption DEF Init
<1>5. HistoryBounded
  BY <1>1, <1>4, DashboardAssumption DEF Init, HistoryBounded, InLoop
<1> QED  BY <1>2, <1>3, <1>5 DEF IInv

\* Steps that change neither the history, row_index, the counters nor the session's
\* producer: they only have to fit the phase they lead to.
LEMMA MoveKeepsIInv ==
    ASSUME IInv, TypeOK', UNCHANGED <<row_index, history, cuts, halfMade, taken, done>>,
           InHand' = InHand, phase \in InLoop <=> phase' \in InLoop,
           phase' \notin {"clear", "rewind"}, phase' = "take" => phase = "take",
           LabelIsTrue'
    PROVE  IInv'
<1>i. /\ TypeOK /\ HistoryInOrder /\ HandIsLatest /\ RowsAccountedFor
      /\ LoopOnTrack /\ HistoryBounded /\ LabelIsTrue
  BY DEF IInv
<1>1. HistoryInOrder'
  BY <1>i DEF HistoryInOrder
<1>2. HandIsLatest'
  BY <1>i DEF HandIsLatest
<1>3. Hand' = Hand
  BY DEF Hand
<1>4. RowsAccountedFor'
  BY <1>i, <1>3 DEF RowsAccountedFor
<1>5. LoopOnTrack'
  BY <1>i DEF LoopOnTrack
<1>6. HistoryBounded'
  BY <1>i DEF HistoryBounded, InLoop
<1> QED  BY <1>1, <1>2, <1>4, <1>5, <1>6 DEF IInv

LEMMA ClickKeepsIInv ==
    ASSUME IInv, NEW w \in Widgets, Click(w) PROVE IInv'
<1>i. TypeOK /\ LoopOnTrack /\ HistoryInOrder /\ HandIsLatest /\ RowsAccountedFor
      /\ HistoryBounded /\ LabelIsTrue
  BY DEF IInv
<1>1. TypeOK'
  BY <1>i, DashboardAssumption DEF Click, TypeOK, run, session, ghosts
<1>2. LabelIsTrue'
  BY <1>i DEF Click, LabelIsTrue, run, session, ghosts
<1>3. LoopOnTrack' /\ HandIsLatest' /\ HistoryInOrder'
  BY <1>i DEF Click, LoopOnTrack, HandIsLatest, HistoryInOrder, InHand, run, session, ghosts
<1>4. RowsAccountedFor'
  BY <1>i DEF Click, RowsAccountedFor, Hand, InHand, run, session, ghosts
<1>5. HistoryBounded'
  BY <1>i DEF Click, HistoryBounded, InLoop, run, session, ghosts
<1> QED  BY <1>1, <1>2, <1>3, <1>4, <1>5 DEF IInv

LEMMA RunScriptKeepsIInv == ASSUME IInv, RunScript PROVE IInv'
<1>i. TypeOK /\ HistoryInOrder /\ HandIsLatest /\ RowsAccountedFor
      /\ LoopOnTrack /\ HistoryBounded /\ LabelIsTrue
  BY DEF IInv
<1>0. /\ UNCHANGED <<clicks, taken, row_index, history, producer, producer_bootstrap,
                      cuts, halfMade>>
      /\ phase = "idle" /\ phase' \in {"clear", "take", "render"} /\ done' = 0
  BY DEF RunScript, AfterSidebar, session, ghosts
<1>1. TypeOK'
  <2>1. widgets' \in Widgets /\ shown' \in Widgets /\ pending' \in BOOLEAN
    BY <1>i DEF RunScript, TypeOK, Widgets
  <2> QED  BY <1>i, <1>0, <2>1, DashboardAssumption DEF TypeOK, InLoop
<1>2. LabelIsTrue'
  BY <1>i, <1>0 DEF LabelIsTrue
<1>3. HandIsLatest' /\ HistoryInOrder'
  BY <1>i, <1>0 DEF HandIsLatest, HistoryInOrder, InHand
<1>4. LoopOnTrack'
  BY <1>i, <1>0, DashboardAssumption DEF LoopOnTrack, InHand
<1>5. RowsAccountedFor'
  <2>1. Hand' = Hand
    BY <1>0 DEF Hand, InHand
  <2> QED  BY <1>i, <1>0, <2>1 DEF RowsAccountedFor
<1>6. HistoryBounded'
  <2>1. Len(history) <= HistoryLimit + Batch * cuts + 0
    BY <1>i, <1>0 DEF HistoryBounded, InLoop
  <2>2. (IF phase' \in InLoop THEN done' ELSE 0) = 0
    BY <1>0
  <2> QED  BY <1>0, <2>1, <2>2 DEF HistoryBounded, InLoop
<1> QED  BY <1>1, <1>2, <1>3, <1>4, <1>5, <1>6 DEF IInv

LEMMA ClearKeepsIInv == ASSUME IInv, Clear \/ Rewind PROVE IInv'
<1>i. TypeOK /\ LoopOnTrack /\ LabelIsTrue
  BY DEF IInv
<1>0. /\ UNCHANGED <<widgets, shown, pending, clicks, taken, done, producer,
                      producer_bootstrap, halfMade>>
      /\ phase \in {"clear", "rewind"} /\ phase' \in {"rewind", "take", "render"}
      /\ done = 0 /\ history' = <<>> /\ row_index' \in 0 .. MaxRows /\ cuts' \in Nat
  BY <1>i, DashboardAssumption
  DEF Clear, Rewind, LoopOnTrack, TypeOK, AfterSidebar, run, ghosts
<1>1. Len(history') = 0 /\ 1 .. Len(history') = {}
  BY <1>0
<1>2. TypeOK'
  BY <1>i, <1>0 DEF TypeOK, InLoop
<1>3. HistoryInOrder' /\ HandIsLatest' /\ RowsAccountedFor'
  BY <1>0, <1>1 DEF HistoryInOrder, HandIsLatest, RowsAccountedFor, InHand
<1>4. LoopOnTrack'
  BY <1>0, DashboardAssumption DEF LoopOnTrack, InHand
<1>5. LabelIsTrue'
  BY <1>i, <1>0 DEF LabelIsTrue
<1>6. HistoryBounded'
  <2>1. Batch * cuts' \in Nat
    BY <1>0, CutsInProportion
  <2>2. (IF phase' \in InLoop THEN done' ELSE 0) = 0
    BY <1>0
  <2> QED  BY <1>1, <2>1, <2>2, DashboardAssumption DEF HistoryBounded, InLoop
<1> QED  BY <1>2, <1>3, <1>4, <1>5, <1>6 DEF IInv

LEMMA TakeKeepsIInv == ASSUME IInv, Take PROVE IInv'
<1>i. TypeOK /\ HistoryInOrder /\ HandIsLatest /\ RowsAccountedFor
      /\ LoopOnTrack /\ HistoryBounded /\ LabelIsTrue
  BY DEF IInv
<1>0. /\ UNCHANGED <<widgets, shown, pending, clicks, done, history, producer,
                      producer_bootstrap>>
      /\ phase = "take" /\ taken' = row_index /\ row_index' = row_index + 1
      /\ row_index < MaxRows /\ Hand = 0
      /\ \/ phase' = "connect" /\ UNCHANGED ghosts /\ Hand' = 1
         \/ BreakOff /\ phase' = "idle" /\ cuts' = cuts + 1 /\ Hand' = 0
  BY DEF Take, BreakOff, InLoop, Hand, InHand
<1>t. row_index \in Nat /\ cuts \in Nat /\ done \in Nat /\ Len(history) \in Nat
      /\ \A i \in 1 .. Len(history) : history[i].pos \in Nat
  BY <1>i, Typed
<1>1. TypeOK'
  BY <1>i, <1>0, DashboardAssumption DEF TypeOK, BreakOff, InLoop, ghosts
<1>2. HistoryInOrder'
  <2>1. \A i \in 1 .. Len(history) : history[i].pos < row_index + 1
    BY <1>i, <1>t DEF HistoryInOrder
  <2> QED  BY <1>i, <1>0, <2>1 DEF HistoryInOrder
<1>3. HandIsLatest'
  BY <1>i, <1>0 DEF HandIsLatest, HistoryInOrder
<1>4. RowsAccountedFor'
  <2> SUFFICES ASSUME NEW i \in 1 .. Len(history)
               PROVE  row_index' - history[i].pos <= Len(history) - i + 1 + cuts' + Hand'
    BY <1>0 DEF RowsAccountedFor
  <2>1. row_index - history[i].pos <= Len(history) - i + 1 + cuts + Hand
    BY <1>i DEF RowsAccountedFor
  <2>2. history[i].pos \in Nat
    BY <1>t
  <2>3. CASE cuts' = cuts /\ Hand' = 1
    BY <1>0, <1>t, <2>1, <2>2, <2>3
  <2>4. CASE cuts' = cuts + 1 /\ Hand' = 0
    BY <1>0, <1>t, <2>1, <2>2, <2>4
  <2> QED  BY <1>0, <2>3, <2>4 DEF ghosts
<1>5. LoopOnTrack'
  BY <1>i, <1>0 DEF LoopOnTrack, InHand
<1>6. HistoryBounded'
  <2>1. Len(history) <= HistoryLimit + Batch * cuts + done
    BY <1>i, <1>0 DEF HistoryBounded, InLoop
  <2>2. CASE phase' = "connect" /\ cuts' = cuts
    BY <1>0, <2>1, <2>2 DEF HistoryBounded, InLoop
  <2>3. CASE phase' = "idle" /\ cuts' = cuts + 1
    <3>1. Batch * cuts \in Nat /\ Batch * (cuts + 1) = Batch * cuts + Batch
      BY <1>t, CutsInProportion
    <3>2. done <= Batch
      BY <1>i, DashboardAssumption DEF TypeOK
    <3>3. Len(history) <= HistoryLimit + Batch * (cuts + 1) + 0
      BY <1>t, <2>1, <3>1, <3>2, DashboardAssumption
    <3> QED  BY <1>0, <2>3, <3>3 DEF HistoryBounded, InLoop
  <2> QED  BY <1>0, <2>2, <2>3 DEF ghosts
<1>7. LabelIsTrue'
  <2>1. halfMade => halfMade'
    <3>1. CASE UNCHANGED ghosts
      BY <3>1 DEF ghosts
    <3>2. CASE BreakOff
      BY <3>2 DEF BreakOff
    <3> QED  BY <1>0, <3>1, <3>2
  <2>2. phase' \in {"connect", "idle"}
    BY <1>0
  <2> QED  BY <1>i, <1>0, <2>1, <2>2 DEF LabelIsTrue
<1> QED  BY <1>1, <1>2, <1>3, <1>4, <1>5, <1>6, <1>7 DEF IInv

LEMMA AppendKeepsIInv == ASSUME IInv, AppendResult PROVE IInv'
<1>i. TypeOK /\ HistoryInOrder /\ HandIsLatest /\ RowsAccountedFor
      /\ LoopOnTrack /\ HistoryBounded /\ LabelIsTrue
  BY DEF IInv
<1>0. /\ UNCHANGED <<widgets, shown, pending, clicks, taken, row_index, producer,
                      producer_bootstrap, cuts, halfMade>>
      /\ phase = "append" /\ done' = done + 1 /\ done < Batch
      /\ phase' = IF done + 1 < Batch THEN "take" ELSE "trim"
      /\ Hand = 1 /\ Hand' = 0 /\ ~InHand' /\ InHand
      /\ phase' \in InLoop /\ phase \in InLoop
  BY <1>i DEF AppendResult, LoopOnTrack, Hand, InHand, InLoop, ghosts
<1>t. row_index \in Nat /\ cuts \in Nat /\ done \in Nat /\ Len(history) \in Nat
      /\ taken \in Nat /\ \A i \in 1 .. Len(history) : history[i].pos \in Nat
  BY <1>i, Typed
<1>e. PICK e \in Entry : history' = Append(history, e) /\ e.pos = taken
  <2>1. PICK prediction \in {"scored", "none"} :
            history' = Append(history, [pos |-> taken, prediction |-> prediction])
    BY DEF AppendResult
  <2> QED  BY <1>t, <2>1 DEF Entry
<1>h. /\ history \in Seq(Entry) /\ history' \in Seq(Entry)
      /\ Len(history') = Len(history) + 1 /\ history'[Len(history) + 1].pos = taken
      /\ \A i \in 1 .. Len(history) : history'[i] = history[i]
  BY <1>i, <1>e DEF TypeOK
<1>l. row_index = taken + 1 /\ \A i \in 1 .. Len(history) : history[i].pos < taken
  BY <1>i, <1>0 DEF HandIsLatest
<1>1. TypeOK'
  BY <1>i, <1>0, <1>h, DashboardAssumption DEF TypeOK, InLoop
<1>2. HistoryInOrder'
  <2>1. ASSUME NEW i \in 1 .. Len(history'), NEW j \in 1 .. Len(history'), i < j
        PROVE  history'[i].pos < history'[j].pos
    <3>1. CASE j \in 1 .. Len(history)
      <4>1. i \in 1 .. Len(history)
        BY <1>t, <1>h, <2>1, <3>1
      <4>2. history[i].pos < history[j].pos
        BY <1>i, <2>1, <3>1, <4>1 DEF HistoryInOrder
      <4> QED  BY <1>h, <3>1, <4>1, <4>2
    <3>2. CASE j = Len(history) + 1
      BY <1>t, <1>h, <1>l, <2>1, <3>2
    <3> QED  BY <1>t, <1>h, <3>1, <3>2
  <2>2. ASSUME NEW i \in 1 .. Len(history') PROVE history'[i].pos < row_index
    <3>1. CASE i \in 1 .. Len(history)
      BY <1>i, <1>h, <3>1 DEF HistoryInOrder
    <3>2. CASE i = Len(history) + 1
      BY <1>t, <1>h, <1>l, <3>2
    <3> QED  BY <1>t, <1>h, <3>1, <3>2
  <2> QED  BY <1>0, <2>1, <2>2 DEF HistoryInOrder
<1>3. HandIsLatest'
  BY <1>0 DEF HandIsLatest
<1>4. RowsAccountedFor'
  <2> SUFFICES ASSUME NEW i \in 1 .. Len(history')
               PROVE  row_index - history'[i].pos <= Len(history') - i + 1 + cuts + 0
    BY <1>0 DEF RowsAccountedFor
  <2>1. CASE i \in 1 .. Len(history)
    <3>1. row_index - history[i].pos <= Len(history) - i + 1 + cuts + 1
      BY <1>i, <1>0, <2>1 DEF RowsAccountedFor
    <3>2. history'[i].pos = history[i].pos /\ history[i].pos \in Nat
      BY <1>t, <1>h, <2>1
    <3> QED  BY <1>t, <1>h, <3>1, <3>2
  <2>2. CASE i = Len(history) + 1
    BY <1>t, <1>h, <1>l, <2>2
  <2> QED  BY <1>t, <1>h, <2>1, <2>2
<1>5. LoopOnTrack'
  BY <1>0, <1>t, DashboardAssumption DEF LoopOnTrack
<1>6. HistoryBounded'
  <2>1. Len(history) <= HistoryLimit + Batch * cuts + done
    BY <1>i, <1>0 DEF HistoryBounded
  <2>2. Batch * cuts \in Nat
    BY <1>t, CutsInProportion
  <2>3. Len(history') <= HistoryLimit + Batch * cuts + (done + 1)
    BY <1>t, <1>h, <2>1, <2>2, DashboardAssumption
  <2>4. (IF phase' \in InLoop THEN done' ELSE 0) = done + 1
    BY <1>0
  <2> QED  BY <1>0, <2>3, <2>4 DEF HistoryBounded, InLoop
<1>7. LabelIsTrue'
  BY <1>i, <1>0 DEF LabelIsTrue
<1> QED  BY <1>1, <1>2, <1>3, <1>4, <1>5, <1>6, <1>7 DEF IInv

LEMMA TrimKeepsIInv == ASSUME IInv, Trim PROVE IInv'
<1>i. TypeOK /\ HistoryInOrder /\ HandIsLatest /\ RowsAccountedFor
      /\ LoopOnTrack /\ HistoryBounded /\ LabelIsTrue
  BY DEF IInv
<1>0. /\ UNCHANGED <<widgets, shown, pending, clicks, taken, done, row_index, producer,
                      producer_bootstrap, cuts, halfMade>>
      /\ phase = "trim" /\ phase' = "render"
      /\ Hand = 0 /\ Hand' = 0 /\ ~InHand' /\ phase' \notin InLoop
  BY DEF Trim, Hand, InHand, InLoop, run, ghosts
<1>t. row_index \in Nat /\ cuts \in Nat /\ done \in Nat /\ Len(history) \in Nat
      /\ \A i \in 1 .. Len(history) : history[i].pos \in Nat
  BY <1>i, Typed
\* What is left is the end of the history, d entries on.
<1>d. \E d \in 0 .. Len(history) :
          /\ history' \in Seq(Entry) /\ Len(history') = Len(history) - d
          /\ Len(history') <= HistoryLimit
          /\ \A i \in 1 .. Len(history') : i + d \in 1 .. Len(history)
                                         /\ history'[i] = history[i + d]
  <2>h. history \in Seq(Entry) /\ HistoryLimit \in Nat
    BY <1>i, DashboardAssumption DEF TypeOK
  <2>1. CASE Len(history) <= HistoryLimit
    <3>1. history' = history
      BY <2>1 DEF Trim
    <3>2. /\ 0 \in 0 .. Len(history) /\ Len(history') = Len(history) - 0
          /\ \A i \in 1 .. Len(history') : i + 0 \in 1 .. Len(history)
                                         /\ history'[i] = history[i + 0]
      BY <1>t, <3>1
    <3> QED  BY <2>h, <2>1, <3>1, <3>2
  <2>2. CASE ~(Len(history) <= HistoryLimit)
    <3> DEFINE d == Len(history) - HistoryLimit
    <3>1. history' = SubSeq(history, d + 1, Len(history))
      BY <2>2 DEF Trim
    <3>2. d \in 0 .. Len(history) /\ d + 1 \in 1 .. Len(history) /\ d \in Nat
      BY <1>t, <2>h, <2>2, DashboardAssumption
    <3>3. history' \in Seq(Entry)
      BY <1>t, <2>h, <3>1, <3>2
    <3>4. Len(history') = HistoryLimit
      BY <1>t, <2>h, <3>1, <3>2
    <3>5. \A i \in 1 .. HistoryLimit : i + d \in 1 .. Len(history)
                                    /\ history'[i] = history[i + d]
      BY <1>t, <2>h, <3>1, <3>2
    <3>6. HistoryLimit = Len(history) - d
      BY <1>t, <2>h
    <3> HIDE DEF d
    <3> QED  BY <2>h, <3>2, <3>3, <3>4, <3>5, <3>6
  <2> QED  BY <2>1, <2>2
<1>p. PICK d \in 0 .. Len(history) :
          /\ history' \in Seq(Entry) /\ Len(history') = Len(history) - d
          /\ Len(history') <= HistoryLimit
          /\ \A i \in 1 .. Len(history') : i + d \in 1 .. Len(history)
                                         /\ history'[i] = history[i + d]
  BY <1>d
<1>1. TypeOK'
  BY <1>i, <1>0, <1>p DEF TypeOK
<1>2. HistoryInOrder'
  <2>1. ASSUME NEW i \in 1 .. Len(history'), NEW j \in 1 .. Len(history'), i < j
        PROVE  history'[i].pos < history'[j].pos
    <3>1. i + d < j + d
      BY <1>t, <1>p, <2>1
    <3> QED  BY <1>i, <1>p, <3>1 DEF HistoryInOrder
  <2>2. ASSUME NEW i \in 1 .. Len(history') PROVE history'[i].pos < row_index
    BY <1>i, <1>p DEF HistoryInOrder
  <2> QED  BY <1>0, <2>1, <2>2 DEF HistoryInOrder
<1>3. HandIsLatest' /\ LoopOnTrack'
  BY <1>0 DEF HandIsLatest, LoopOnTrack
<1>4. RowsAccountedFor'
  <2> SUFFICES ASSUME NEW i \in 1 .. Len(history')
               PROVE  row_index - history'[i].pos <= Len(history') - i + 1 + cuts + 0
    BY <1>0 DEF RowsAccountedFor
  <2>1. i + d \in 1 .. Len(history) /\ history'[i] = history[i + d]
    BY <1>p
  <2>2. row_index - history[i + d].pos <= Len(history) - (i + d) + 1 + cuts + 0
    BY <1>i, <1>0, <2>1 DEF RowsAccountedFor
  <2> QED  BY <1>t, <1>p, <2>1, <2>2
<1>5. HistoryBounded'
  <2>1. Batch * cuts \in Nat
    BY <1>t, CutsInProportion
  <2>2. Len(history') \in Nat /\ HistoryLimit \in Nat
    BY <1>t, <1>p, DashboardAssumption
  <2>3. Len(history') <= HistoryLimit + Batch * cuts + 0
    BY <1>p, <2>1, <2>2
  <2>4. (IF phase' \in InLoop THEN done' ELSE 0) = 0
    BY <1>0
  <2> QED  BY <1>0, <2>3, <2>4 DEF HistoryBounded, InLoop
<1>6. LabelIsTrue'
  BY <1>i, <1>0 DEF LabelIsTrue
<1> QED  BY <1>1, <1>2, <1>3, <1>4, <1>5, <1>6 DEF IInv

LEMMA MovesKeepIInv ==
    ASSUME IInv, Connect \/ Label \/ Produce \/ Flush \/ Post \/ Render PROVE IInv'
<1>i. TypeOK /\ LabelIsTrue
  BY DEF IInv
<1>1. CASE Connect
  <2>1. /\ UNCHANGED <<row_index, history, cuts, halfMade, taken, done>>
        /\ phase = "connect" /\ phase' \in {"label", "produce"}
    BY <1>1 DEF Connect, run, ghosts
  <2>2. TypeOK'
    BY <1>i, <1>1, <2>1 DEF Connect, TypeOK, Widgets, InLoop, run, ghosts
  <2>3. LabelIsTrue'
    BY <1>i, <1>1 DEF Connect, LabelIsTrue, run, ghosts
  <2> QED  BY <2>1, <2>2, <2>3, MoveKeepsIInv DEF InHand, InLoop
<1>2. CASE Label
  <2>1. /\ UNCHANGED <<row_index, history, cuts, halfMade, taken, done>>
        /\ phase = "label" /\ phase' = "produce"
    BY <1>2 DEF Label, run, ghosts
  <2>2. TypeOK'
    BY <1>i, <1>2, <2>1 DEF Label, TypeOK, Widgets, InLoop, run, ghosts
  <2>3. LabelIsTrue'
    BY <1>i, <1>2 DEF Label, LabelIsTrue, run, ghosts
  <2> QED  BY <2>1, <2>2, <2>3, MoveKeepsIInv DEF InHand, InLoop
<1>3. CASE Produce \/ Flush \/ Post
  <2>1. /\ UNCHANGED <<row_index, history, cuts, halfMade, taken, done>>
        /\ phase \in {"produce", "flush", "post"} /\ phase' \in {"flush", "post", "append"}
        /\ phase' = "flush" => phase = "produce"
    BY <1>3 DEF Produce, Flush, Post, session, run, ghosts
  <2>2. TypeOK'
    BY <1>i, <1>3, <2>1 DEF Produce, Flush, Post, TypeOK, InLoop, session, run, ghosts
  <2>3. LabelIsTrue'
    BY <1>i, <1>3, <2>1 DEF Produce, Flush, Post, LabelIsTrue, session, run, ghosts
  <2> QED  BY <2>1, <2>2, <2>3, MoveKeepsIInv DEF InHand, InLoop
<1>4. CASE Render
  <2>1. /\ UNCHANGED <<row_index, history, cuts, halfMade, taken, done>>
        /\ phase = "render" /\ phase' = "idle"
    BY <1>4 DEF Render, session, run, ghosts
  <2>2. TypeOK'
    <3>1. pending' \in BOOLEAN
      BY <1>i, <1>4 DEF Render, TypeOK, Widgets
    <3> QED  BY <1>i, <1>4, <2>1, <3>1 DEF Render, TypeOK, session, run, ghosts
  <2>3. LabelIsTrue'
    BY <1>i, <1>4 DEF Render, LabelIsTrue, session, run, ghosts
  <2> QED  BY <2>1, <2>2, <2>3, MoveKeepsIInv DEF InHand, InLoop
<1> QED  BY <1>1, <1>2, <1>3, <1>4

LEMMA InductiveInvariant == Spec => []IInv
<1>1. Init => IInv
  BY InitIInv
<1>2. IInv /\ [Next]_vars => IInv'
  <2> SUFFICES ASSUME IInv, [Next]_vars PROVE IInv'
    OBVIOUS
  <2>1. ASSUME NEW w \in Widgets, Click(w) PROVE IInv'
    BY <2>1, ClickKeepsIInv
  <2>2. CASE Interrupt
    <3>1. pending' \in BOOLEAN
      BY <2>2 DEF Interrupt, IInv, TypeOK
    <3> QED  BY <2>2, <3>1, BreakOffKeepsIInv DEF Interrupt, run
  <2>3. CASE Script
    BY <2>3, RunScriptKeepsIInv, ClearKeepsIInv, TakeKeepsIInv, AppendKeepsIInv,
       TrimKeepsIInv, MovesKeepIInv DEF Script, stream_one
  <2>4. CASE UNCHANGED vars
    BY <2>4 DEF vars, run, session, ghosts, IInv, TypeOK, HistoryInOrder, HandIsLatest,
                RowsAccountedFor, LoopOnTrack, HistoryBounded, LabelIsTrue, Hand, InHand
  <2> QED  BY <2>1, <2>2, <2>3, <2>4 DEF Next
<1> QED  BY <1>1, <1>2, PTL DEF Spec
-----------------------------------------------------------------------------
\* Type correctness.
THEOREM DashboardTypeCorrect == Spec => []TypeOK
<1>1. IInv => TypeOK
  BY DEF IInv
<1> QED  BY <1>1, InductiveInvariant, PTL

\* Resets and loops that a click stops leave the history in the order of the stream.
THEOREM HistoryKeepsOrder == Spec => []HistoryInOrder
<1>1. IInv => HistoryInOrder
  BY DEF IInv
<1> QED  BY <1>1, InductiveInvariant, PTL

\* Only loops that were broken off take rows out of the middle of the history.
THEOREM RowsAreCutOnly == Spec => []MissingRowsWereCut
<1>1. IInv => MissingRowsWereCut
  <2> SUFFICES ASSUME IInv, history # <<>> PROVE
          history[Len(history)].pos - history[1].pos + 1 <= Len(history) + cuts
    BY DEF MissingRowsWereCut
  <2>1. TypeOK /\ HistoryInOrder /\ HandIsLatest /\ RowsAccountedFor
    BY DEF IInv
  <2>2. Len(history) \in Nat /\ 1 \in 1 .. Len(history) /\ Len(history) \in 1 .. Len(history)
    BY <2>1 DEF TypeOK
  <2> DEFINE first == history[1].pos
             last == history[Len(history)].pos
  <2>3. first \in Nat /\ last \in Nat /\ row_index \in Nat /\ cuts \in Nat /\ taken \in Nat
    BY <2>1, <2>2, Typed
  <2>4. row_index - first <= Len(history) - 1 + 1 + cuts + Hand
    BY <2>1, <2>2 DEF RowsAccountedFor
  <2>5. last < row_index /\ (InHand => row_index = taken + 1 /\ last < taken)
    BY <2>1, <2>2 DEF HistoryInOrder, HandIsLatest
  <2> HIDE DEF first, last
  <2>6. last - first + 1 <= Len(history) + cuts
    <3>1. CASE InHand
      BY <2>2, <2>3, <2>4, <2>5, <3>1 DEF Hand
    <3>2. CASE ~InHand
      BY <2>2, <2>3, <2>4, <2>5, <3>2 DEF Hand
    <3> QED  BY <3>1, <3>2
  <2> QED  BY <2>6 DEF first, last
<1> QED  BY <1>1, InductiveInvariant, PTL

\* HISTORY_LIMIT, and what each broken loop can add to it.
THEOREM HistoryStaysBounded == Spec => []HistoryBounded
<1>1. IInv => HistoryBounded
  BY DEF IInv
<1> QED  BY <1>1, InductiveInvariant, PTL

\* Messages go to the servers shown, but after a half-made change of the producer.
THEOREM SendsWhereShown == Spec => []SentWhereShown
<1>1. IInv => SentWhereShown
  BY DEF IInv, LabelIsTrue, SentWhereShown
<1> QED  BY <1>1, InductiveInvariant, PTL

\* The steps a run of the script has left: the loop's rows, at most eight each, and what
\* comes before and after them.
ScriptLeft ==
    IF phase = "idle" THEN 0
    ELSE IF phase = "render" THEN 1
    ELSE IF phase = "trim" THEN 2
    ELSE IF phase = "clear" THEN 4 + 8 * Batch
    ELSE IF phase = "rewind" THEN 3 + 8 * Batch
    ELSE 8 * (Batch - done) + 2 - (IF phase = "connect" THEN 1
                                   ELSE IF phase = "label" THEN 2
                                   ELSE IF phase = "produce" THEN 3
                                   ELSE IF phase = "flush" THEN 4
                                   ELSE IF phase = "post" THEN 5
                                   ELSE IF phase = "append" THEN 6 ELSE 0)

LEMMA ScriptLeftBounds ==
    ASSUME IInv PROVE ScriptLeft \in Nat /\ (phase # "idle" => ScriptLeft > 0)
<1>1. /\ Batch \in Nat /\ done \in 0 .. Batch
      /\ phase \in {"idle", "clear", "rewind", "render"} \union InLoop
  BY DashboardAssumption DEF IInv, TypeOK
<1>2. phase = "take" \/ InHand => done < Batch
  BY DEF IInv, LoopOnTrack
<1>3. CASE phase \in {"idle", "render", "trim", "clear", "rewind"}
  BY <1>1, <1>3 DEF ScriptLeft
<1>4. CASE phase \in {"take", "connect", "label", "produce", "flush", "post", "append"}
  BY <1>1, <1>2, <1>4 DEF ScriptLeft, InHand
<1> QED  BY <1>1, <1>3, <1>4 DEF InLoop

\* More than the half of RowEnds that a proof can reach: each step of a run of the script
\* brings it closer to its end, past unreachable servers and an API that does not answer,
\* for any batch, and a click may stop it but never makes it longer.
THEOREM ScriptGetsCloser ==
    Spec => [][phase # "idle" => IF Script \/ Interrupt THEN ScriptLeft' < ScriptLeft
                                 ELSE ScriptLeft' = ScriptLeft]_vars
<1>1. IInv /\ [Next]_vars
        => [phase # "idle" => IF Script \/ Interrupt THEN ScriptLeft' < ScriptLeft
                              ELSE ScriptLeft' = ScriptLeft]_vars
  <2> SUFFICES ASSUME IInv, Next, phase # "idle"
               PROVE  IF Script \/ Interrupt THEN ScriptLeft' < ScriptLeft
                      ELSE ScriptLeft' = ScriptLeft
    BY DEF vars
  <2>0. /\ Batch \in Nat \ {0} /\ done \in 0 .. Batch /\ ScriptLeft \in Nat /\ ScriptLeft > 0
        /\ (phase = "rewind" => done = 0) /\ (phase = "take" \/ InHand => done < Batch)
    BY ScriptLeftBounds, DashboardAssumption DEF IInv, TypeOK, LoopOnTrack
  <2>1. CASE phase' = "idle"
    <3>1. ScriptLeft' = 0
      BY <2>1 DEF ScriptLeft
    <3>2. Script \/ Interrupt
      BY <2>1 DEF Next, Click
    <3> QED  BY <2>0, <3>1, <3>2
  <2>2. CASE Script /\ phase' # "idle"
    <3> SUFFICES ScriptLeft' < ScriptLeft
      BY <2>2
    <3>1. CASE Clear
      <4>1. ScriptLeft = 4 + 8 * Batch /\ ScriptLeft' = 3 + 8 * Batch
        BY <3>1 DEF Clear, ScriptLeft
      <4> QED  BY <2>0, <4>1
    <3>2. CASE Rewind
      <4>1. phase = "rewind" /\ phase' \in {"take", "render"} /\ done' = 0 /\ done = 0
        BY <2>0, <3>2 DEF Rewind, AfterSidebar, run
      <4>2. ScriptLeft = 3 + 8 * Batch /\ ScriptLeft' \in {1, 2 + 8 * Batch}
        BY <2>0, <4>1 DEF ScriptLeft
      <4> QED  BY <2>0, <4>2
    <3>3. CASE Take
      <4>1. phase = "take" /\ phase' = "connect" /\ done' = done
        BY <2>2, <3>3 DEF Take, BreakOff
      <4> QED  BY <2>0, <2>2, <4>1 DEF ScriptLeft
    <3>4. CASE Connect \/ Label
      <4>1. /\ done' = done
            /\ \/ phase = "connect" /\ phase' \in {"label", "produce"}
               \/ phase = "label" /\ phase' = "produce"
        BY <3>4 DEF Connect, Label, run
      <4> QED  BY <2>0, <2>2, <4>1 DEF ScriptLeft
    <3>5. CASE Produce \/ Flush \/ Post
      <4>1. /\ done' = done
            /\ \/ phase = "produce" /\ phase' = "flush"
               \/ phase = "flush" /\ phase' = "post"
               \/ phase = "post" /\ phase' = "append"
        BY <3>5 DEF Produce, Flush, Post, run
      <4> QED  BY <2>0, <2>2, <4>1 DEF ScriptLeft
    <3>6. CASE AppendResult
      <4>1. /\ phase = "append" /\ done' = done + 1 /\ done < Batch
            /\ phase' = IF done + 1 < Batch THEN "take" ELSE "trim"
        BY <2>0, <3>6 DEF AppendResult, InHand
      <4> QED  BY <2>0, <2>2, <4>1 DEF ScriptLeft
    <3>7. CASE Trim
      <4>1. phase = "trim" /\ phase' = "render"
        BY <3>7 DEF Trim
      <4> QED  BY <2>2, <4>1 DEF ScriptLeft
    <3> QED  BY <2>2, <3>1, <3>2, <3>3, <3>4, <3>5, <3>6, <3>7
             DEF Script, stream_one, RunScript, Render
  <2>3. CASE ~Script /\ ~Interrupt
    <3>1. phase' = phase /\ done' = done
      BY <2>3 DEF Next, Click, run
    <3> QED  BY <2>3, <3>1 DEF ScriptLeft
  <2>4. Interrupt => phase' = "idle"
    BY DEF Interrupt, BreakOff
  <2> QED  BY <2>1, <2>2, <2>3, <2>4
<1> QED  BY <1>1, InductiveInvariant, PTL DEF Spec

=============================================================================

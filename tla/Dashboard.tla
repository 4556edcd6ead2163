------------------------------ MODULE Dashboard ------------------------------
(***************************************************************************)
(* One session of the Streamlit demo: a script that is run again and       *)
(* again, its session state, and the widgets a person changes meanwhile.   *)
(* A change makes Streamlit stop the script at its next access of the      *)
(* session state or next st call, and run it from the top.                 *)
(***************************************************************************)
EXTENDS Integers, Sequences

CONSTANTS
    NumRows,        \* rows of the sample CSV
    Invalid,        \* ... those transaction_from_dict rejects
    Servers,        \* values typed in as Kafka bootstrap servers
    FirstServers,   \* DEFAULT_BOOTSTRAP
    Unreachable,    \* ... those where no broker answers
    NoServers,      \* None
    Batch,          \* BATCH_PER_RERUN
    HistoryLimit,   \* HISTORY_LIMIT
    MaxClicks,      \* bound: changes of the widgets
    MaxRows         \* bound: row_index

ASSUME DashboardAssumption ==
    /\ NumRows \in Nat \ {0} /\ Invalid \subseteq 0 .. NumRows - 1
    /\ FirstServers \in Servers /\ Unreachable \subseteq Servers
    /\ NoServers \notin Servers
    /\ Batch \in Nat \ {0} /\ HistoryLimit \in Nat \ {0}
    /\ MaxClicks \in Nat /\ MaxRows \in Nat

VARIABLES
    widgets,        \* what the browser shows: servers, running, the reset button
    pending,        \* Streamlit was asked to run the script
    clicks,         \* changes of the widgets so far
    phase,          \* the script's next step, "idle" without one
    shown,          \* the widgets' values in this run of the script
    done,           \* iterations of its loop that are over
    row_index, history, producer, producer_bootstrap,   \* st.session_state
    taken,          \* the value of row_index stream_one started from
    cuts,           \* history: loops broken off since the history was cleared
    halfMade        \* history: a run ended between get_producer's two assignments

session == <<row_index, history, producer, producer_bootstrap>>
run == <<shown, done, taken>>
ghosts == <<cuts, halfMade>>
vars == <<widgets, pending, clicks, phase, run, session, ghosts>>

\* `pos` is the row's place in the stream; df.iloc wraps it around.
Entry == [pos : Nat, prediction : {"scored", "none"}]

Widgets == [servers : Servers, running : BOOLEAN, reset : BOOLEAN]
InLoop == {"take", "connect", "label", "produce", "flush", "post", "append", "trim"}

TypeOK ==
    /\ widgets \in Widgets /\ shown \in Widgets
    /\ pending \in BOOLEAN /\ clicks \in 0 .. MaxClicks
    /\ phase \in {"idle", "clear", "rewind", "render"} \union InLoop
    /\ done \in 0 .. Batch
    /\ row_index \in 0 .. MaxRows /\ taken \in 0 .. MaxRows
    /\ history \in Seq(Entry)
    /\ producer \in Servers \union {NoServers}
    /\ producer_bootstrap \in Servers \union {NoServers}
    /\ cuts \in Nat /\ halfMade \in BOOLEAN

\* init_state, on the first run.
Init ==
    /\ widgets = [servers |-> FirstServers, running |-> FALSE, reset |-> FALSE]
    /\ shown = widgets /\ pending = TRUE /\ clicks = 0
    /\ phase = "idle" /\ done = 0 /\ taken = 0
    /\ row_index = 0 /\ history = <<>>
    /\ producer = NoServers /\ producer_bootstrap = NoServers
    /\ cuts = 0 /\ halfMade = FALSE
-----------------------------------------------------------------------------
\* The person in front of it, and Streamlit.

Click(w) ==
    /\ clicks < MaxClicks /\ w # widgets
    /\ widgets' = w /\ pending' = TRUE /\ clicks' = clicks + 1
    /\ UNCHANGED <<phase, run, session, ghosts>>

AfterSidebar(w) == IF w.running THEN "take" ELSE "render"

\* A run of the script; a button is down for one run only.
RunScript ==
    /\ pending /\ phase = "idle"
    /\ pending' = FALSE
    /\ shown' = widgets /\ widgets' = [widgets EXCEPT !.reset = FALSE]
    /\ done' = 0
    /\ phase' = IF widgets.reset THEN "clear" ELSE AfterSidebar(widgets)
    /\ UNCHANGED <<clicks, taken, session, ghosts>>

\* The script ends early.
BreakOff ==
    /\ phase' = "idle"
    /\ cuts' = IF phase \in InLoop THEN cuts + 1 ELSE cuts
    /\ halfMade' = (halfMade \/ phase = "label")

\* RerunException; there is no such point from produce() to the answer of /predict.
Interrupt ==
    /\ pending /\ phase \notin {"idle", "flush", "post"}
    /\ BreakOff
    /\ UNCHANGED <<widgets, pending, clicks, run, session>>
-----------------------------------------------------------------------------
\* Reset history

\* Mutant: the history is kept.
RewindOnly ==
    /\ phase = "clear"
    /\ row_index' = 0 /\ phase' = "rewind"
    /\ UNCHANGED <<widgets, pending, clicks, run, history, producer, producer_bootstrap,
                   ghosts>>

Clear ==
    /\ phase = "clear"
    /\ history' = <<>> /\ phase' = "rewind" /\ cuts' = 0
    /\ UNCHANGED <<widgets, pending, clicks, run, row_index, producer,
                   producer_bootstrap, halfMade>>

Rewind ==
    /\ phase = "rewind"
    /\ row_index' = 0 /\ phase' = AfterSidebar(shown)
    /\ UNCHANGED <<widgets, pending, clicks, run, history, producer, producer_bootstrap,
                   ghosts>>
-----------------------------------------------------------------------------
\* stream_one

\* Mutant: row_index runs on after the session's last row.
TakeBeyond ==
    /\ phase = "take"
    /\ taken' = row_index /\ row_index' = row_index + 1
    /\ phase' = "connect"
    /\ UNCHANGED <<widgets, pending, clicks, shown, done, history, producer,
                   producer_bootstrap, ghosts>>

\* row_index goes on before the row is looked at.  InvalidTransactionError is nobody's:
\* the page shows the traceback and does not run again by itself.
Take ==
    /\ phase = "take" /\ row_index < MaxRows
    /\ taken' = row_index /\ row_index' = row_index + 1
    /\ IF row_index % NumRows \in Invalid
          THEN BreakOff
          ELSE phase' = "connect" /\ UNCHANGED ghosts
    /\ UNCHANGED <<widgets, pending, clicks, shown, done, history, producer,
                   producer_bootstrap>>

\* Mutant: a producer once made is kept.
KeepProducer ==
    /\ phase = "connect"
    /\ \/ /\ producer = NoServers
          /\ producer' = shown.servers /\ phase' = "label"
       \/ /\ producer # NoServers
          /\ phase' = "produce" /\ UNCHANGED producer
    /\ UNCHANGED <<widgets, pending, clicks, run, row_index, history, producer_bootstrap,
                   ghosts>>

\* get_producer
Connect ==
    /\ phase = "connect"
    /\ \/ /\ producer = NoServers \/ producer_bootstrap # shown.servers
          /\ producer' = shown.servers /\ phase' = "label"
       \/ /\ producer # NoServers /\ producer_bootstrap = shown.servers
          /\ phase' = "produce" /\ UNCHANGED producer
    /\ UNCHANGED <<widgets, pending, clicks, run, row_index, history, producer_bootstrap,
                   ghosts>>

Label ==
    /\ phase = "label"
    /\ producer_bootstrap' = shown.servers /\ phase' = "produce"
    /\ UNCHANGED <<widgets, pending, clicks, run, row_index, history, producer, ghosts>>

Produce ==
    /\ phase = "produce" /\ phase' = "flush"
    /\ UNCHANGED <<widgets, pending, clicks, run, session, ghosts>>

\* Mutant: flush() without a timeout.
FlushForever ==
    /\ phase = "flush" /\ producer \notin Unreachable /\ phase' = "post"
    /\ UNCHANGED <<widgets, pending, clicks, run, session, ghosts>>

\* flush(5) returns, whether or not anything was delivered, and so does sleep().
Flush ==
    /\ phase = "flush" /\ phase' = "post"
    /\ UNCHANGED <<widgets, pending, clicks, run, session, ghosts>>

\* The answer of /predict, or the timeout of 5 seconds.
Post ==
    /\ phase = "post" /\ phase' = "append"
    /\ UNCHANGED <<widgets, pending, clicks, run, session, ghosts>>

\* Mutant: what has no prediction is left out.
AppendScored ==
    /\ phase = "append"
    /\ \E prediction \in {"scored", "none"} :
          history' = IF prediction = "none" THEN history
                     ELSE Append(history, [pos |-> taken, prediction |-> prediction])
    /\ done' = done + 1
    /\ phase' = IF done + 1 < Batch THEN "take" ELSE "trim"
    /\ UNCHANGED <<widgets, pending, clicks, shown, taken, row_index, producer,
                   producer_bootstrap, ghosts>>

\* What came back: a score, or an error in its place.
AppendResult ==
    /\ phase = "append"
    /\ \E prediction \in {"scored", "none"} :
          history' = Append(history, [pos |-> taken, prediction |-> prediction])
    /\ done' = done + 1
    /\ phase' = IF done + 1 < Batch THEN "take" ELSE "trim"
    /\ UNCHANGED <<widgets, pending, clicks, shown, taken, row_index, producer,
                   producer_bootstrap, ghosts>>

\* Mutant: one of the entries beyond the limit is dropped.
TrimOne ==
    /\ phase = "trim"
    /\ history' = IF Len(history) <= HistoryLimit THEN history ELSE Tail(history)
    /\ phase' = "render"
    /\ UNCHANGED <<widgets, pending, clicks, run, row_index, producer,
                   producer_bootstrap, ghosts>>

Trim ==
    /\ phase = "trim"
    /\ history' = IF Len(history) <= HistoryLimit THEN history
                  ELSE SubSeq(history, Len(history) - HistoryLimit + 1, Len(history))
    /\ phase' = "render"
    /\ UNCHANGED <<widgets, pending, clicks, run, row_index, producer,
                   producer_bootstrap, ghosts>>

\* The metrics and the table; st.rerun() while the box is checked.
Render ==
    /\ phase = "render"
    /\ phase' = "idle" /\ pending' = (pending \/ shown.running)
    /\ UNCHANGED <<widgets, clicks, run, session, ghosts>>
-----------------------------------------------------------------------------
stream_one == Take \/ Connect \/ Label \/ Produce \/ Flush \/ Post
Script == RunScript \/ Clear \/ Rewind \/ stream_one \/ AppendResult \/ Trim \/ Render

Next ==
    \/ \E w \in Widgets : Click(w)
    \/ Script
    \/ Interrupt

\* The script's thread runs; nobody has to click, and Streamlit may be late.
Spec == Init /\ [][Next]_vars /\ WF_vars(Script)
-----------------------------------------------------------------------------
\* Properties.

\* The rows of the history are in the order of the stream, each at most once, and the
\* stream has not come to them yet again: whenever a click stops a reset or a loop.
HistoryInOrder ==
    /\ \A i, j \in 1 .. Len(history) : i < j => history[i].pos < history[j].pos
    /\ \A i \in 1 .. Len(history) : history[i].pos < row_index

\* Between the first and the last row of the history one is missing only for a loop that
\* was broken off: rows that could not be scored are in it too.
MissingRowsWereCut ==
    history # <<>> =>
        history[Len(history)].pos - history[1].pos + 1 <= Len(history) + cuts

\* HISTORY_LIMIT holds but for what loops that did not get to their end have added.
HistoryBounded ==
    Len(history) <= HistoryLimit + Batch * cuts + (IF phase \in InLoop THEN done ELSE 0)

\* What is published goes where the field says: get_producer "Recreates the cached
\* Producer if `bootstrap_servers` changed".  It may not after a click stopped the script
\* between its two assignments.
SentWhereShown == phase \in {"produce", "flush"} => producer = shown.servers \/ halfMade

\* No broker and no API makes a row take forever.
RowEnds == phase \in {"connect", "label", "produce", "flush", "post"}
               ~> phase \in {"append", "idle"}
=============================================================================

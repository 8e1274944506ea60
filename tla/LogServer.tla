------------------------------ MODULE LogServer ------------------------------
(***************************************************************************)
(* The log server (tools/log_server/src/{server,storage,main}.rs).         *)
(*                                                                         *)
(* One task serves engine connections, one after the other: it reads       *)
(* batches, appends their logs to the storage and broadcasts each of them, *)
(* and writes a CSV file when the engine has gone.  Every TUI connection   *)
(* has a task of its own: it sends a snapshot of the storage, subscribes   *)
(* to the broadcast channel and forwards what it receives.                 *)
(*                                                                         *)
(* A step is what a task does between two points where another one can be  *)
(* seen to run.  add_logs holds the write lock for a whole batch, so that  *)
(* no snapshot falls inside one.  A frame is in the TCP stream or it is    *)
(* not: read_exact discards one cut short when the engine died.  One cut   *)
(* short on a connection that goes on swallows those behind it and then    *)
(* does not decode: the connection fails.  The n-th log of engine e is     *)
(* <<e, n>>.                                                               *)
(***************************************************************************)
EXTENDS Naturals, Sequences, SequencesExt

CONSTANTS Engines,    \* engine processes
          Tuis,       \* TUI clients
          Capacity,   \* how many messages the broadcast channel keeps
          LogLimit,   \* bound of the model: how many logs an engine writes
          BatchLimit  \* bound of the model: how many logs a batch has

ASSUME ServerAssumption == /\ Capacity \in Nat \ {0}
                           /\ LogLimit \in Nat
                           /\ BatchLimit \in Nat \ {0}

VARIABLES
  infinite,   \* the --infinite flag
  engine,     \* engine[e]: "off", "open", or "closed" once its process or its
              \* connection ended; what it writes after that is not counted
  wire,       \* wire[e]: the batches written and not yet read
  backlog,    \* engines whose connection waits to be accepted, in order
  server,     \* where run_engine_listener is
  serving,    \* the engine being served: a set of one, or empty
  connected,  \* engine_connected
  pending,    \* what add_logs still has to store, under the write lock
  logs,       \* LogStorage::logs; logs[n] is also the n-th message broadcast
  csv,        \* what the CSV file written last holds
  tui,        \* tui[t]: where the task of t is
  left,       \* left[t]: t has closed its end of the connection
  snapshot,   \* snapshot[t]: how many logs get_all returned
  cursor,     \* cursor[t]: the next message of t's receiver
  got,        \* history: positions in the storage of what was sent to t
  since,      \* history: how many messages were broadcast before t subscribed
  lagged,     \* history: t's receiver was told that it lagged
  written,    \* history: written[e]: how many logs e wrote
  broken,     \* history: engines whose connection failed with batches unread
  unsaved     \* history: save_csv failed

engineVars == <<engine, wire, written, broken>>
listenVars == <<infinite, backlog, server, serving, connected, pending, logs, csv,
                unsaved>>
tuiVars == <<tui, left, snapshot, cursor, got, since, lagged>>
vars == <<engineVars, listenVars, tuiVars>>

ServerStates == {"accept", "read", "store", "save", "exited"}
TuiStates == {"off", "snapshot", "send", "subscribe", "receive", "over"}

Running == server # "exited"

Init == /\ infinite \in BOOLEAN
        /\ engine = [e \in Engines |-> "off"]
        /\ wire = [e \in Engines |-> <<>>]
        /\ backlog = <<>>
        /\ server = "accept"
        /\ serving = {}
        /\ connected = FALSE
        /\ pending = <<>>
        /\ logs = <<>>
        /\ csv = <<>>
        /\ tui = [t \in Tuis |-> "off"]
        /\ left = [t \in Tuis |-> FALSE]
        /\ snapshot = [t \in Tuis |-> 0]
        /\ cursor = [t \in Tuis |-> 1]
        /\ got = [t \in Tuis |-> <<>>]
        /\ since = [t \in Tuis |-> 0]
        /\ lagged = [t \in Tuis |-> FALSE]
        /\ written = [e \in Engines |-> 0]
        /\ broken = {}
        /\ unsaved = FALSE

-----------------------------------------------------------------------------
(* The engines, as the server sees them *)

EngineConnects(e) == /\ engine[e] = "off"
                     /\ Running
                     /\ engine' = [engine EXCEPT ![e] = "open"]
                     /\ backlog' = Append(backlog, e)
                     /\ UNCHANGED <<wire, written, broken, infinite, server, serving,
                                    connected, pending, logs, csv, unsaved, tuiVars>>

\* Batches fit in the buffers of the connection, also before it is accepted.
EngineWrites(e) ==
  /\ engine[e] = "open"
  /\ Running
  /\ \E size \in 1..BatchLimit :
       /\ written[e] + size <= LogLimit
       /\ wire' = [wire EXCEPT ![e] =
                     Append(@, [i \in 1..size |-> <<e, written[e] + i>>])]
       /\ written' = [written EXCEPT ![e] = @ + size]
  /\ UNCHANGED <<engine, broken, listenVars, tuiVars>>

\* Logger::stop, or the death of the process; what was written still arrives.
EngineCloses(e) == /\ engine[e] = "open"
                   /\ engine' = [engine EXCEPT ![e] = "closed"]
                   /\ UNCHANGED <<wire, written, broken, listenVars, tuiVars>>

-----------------------------------------------------------------------------
(* run_engine_listener, handle_engine_connection and the storage *)

\* A connection accepted while engine_connected holds is dropped.
Accept == /\ server = "accept"
          /\ backlog # <<>>
          /\ backlog' = Tail(backlog)
          /\ connected' = TRUE
          /\ serving' = IF connected THEN {} ELSE {Head(backlog)}
          /\ server' = IF connected THEN "accept" ELSE "read"
          /\ UNCHANGED <<engineVars, infinite, pending, logs, csv, unsaved, tuiVars>>

ReadBatch == /\ server = "read"
             /\ \E e \in serving :
                  /\ wire[e] # <<>>
                  /\ pending' = Head(wire[e])
                  /\ wire' = [wire EXCEPT ![e] = Tail(@)]
             /\ server' = "store"
             /\ UNCHANGED <<engine, written, broken, infinite, backlog, serving,
                            connected, logs, csv, unsaved, tuiVars>>

\* Slip: the last log of a batch is not reached.
StoreLogShort == /\ server = "store"
                 /\ logs' = IF Len(pending) = 1 THEN logs
                            ELSE Append(logs, Head(pending))
                 /\ pending' = Tail(pending)
                 /\ server' = IF Tail(pending) = <<>> THEN "read" ELSE "store"
                 /\ UNCHANGED <<engineVars, infinite, backlog, serving, connected,
                                csv, unsaved, tuiVars>>

\* One turn of the loop of add_logs: broadcast, then push.
StoreLog == /\ server = "store"
            /\ logs' = Append(logs, Head(pending))
            /\ pending' = Tail(pending)
            /\ server' = IF Tail(pending) = <<>> THEN "read" ELSE "store"
            /\ UNCHANGED <<engineVars, infinite, backlog, serving, connected, csv,
                           unsaved, tuiVars>>

\* Slips: what the engine wrote last is not read; the flag stays set.
EngineGoneEarly == /\ server = "read"
                   /\ \E e \in serving : engine[e] = "closed"
                   /\ server' = "save"
                   /\ serving' = {}
                   /\ connected' = FALSE
                   /\ UNCHANGED <<engineVars, infinite, backlog, pending, logs, csv,
                                  unsaved, tuiVars>>

EngineGoneKeepingFlag ==
  /\ server = "read"
  /\ \E e \in serving : engine[e] = "closed" /\ wire[e] = <<>>
  /\ server' = "save"
  /\ serving' = {}
  /\ UNCHANGED <<engineVars, infinite, backlog, connected, pending, logs, csv,
                 unsaved, tuiVars>>

\* read_u32 or read_exact meets the end of the stream, or an error with nothing
\* left to lose.
EngineGone == /\ server = "read"
              /\ \E e \in serving : engine[e] = "closed" /\ wire[e] = <<>>
              /\ server' = "save"
              /\ serving' = {}
              /\ connected' = FALSE
              /\ UNCHANGED <<engineVars, infinite, backlog, pending, logs, csv,
                             unsaved, tuiVars>>

\* read_u32 or read_exact returns another error (a reset), or the next frame does
\* not decode: handle_engine_connection returns, and what is on the wire is lost.
ConnectionFails == /\ server = "read"
                   /\ \E e \in serving :
                        /\ wire[e] # <<>>
                        /\ wire' = [wire EXCEPT ![e] = <<>>]
                        /\ engine' = [engine EXCEPT ![e] = "closed"]
                        /\ broken' = broken \cup {e}
                   /\ server' = "save"
                   /\ serving' = {}
                   /\ connected' = FALSE
                   /\ UNCHANGED <<written, infinite, backlog, pending, logs, csv,
                                  unsaved, tuiVars>>

\* save_csv may fail; without --infinite the process exits either way.
SaveCsv == /\ server = "save"
           /\ \/ csv' = logs /\ unsaved' = FALSE
              \/ unsaved' = TRUE /\ UNCHANGED csv
           /\ server' = IF infinite THEN "accept" ELSE "exited"
           /\ UNCHANGED <<engineVars, infinite, backlog, serving, connected, pending,
                          logs, tuiVars>>

-----------------------------------------------------------------------------
(* handle_tui_connection, one task per TUI *)

TuiGoes(t, from, to) == /\ tui[t] = from
                        /\ Running
                        /\ tui' = [tui EXCEPT ![t] = to]
                        /\ UNCHANGED <<engineVars, listenVars, left>>

TuiConnects(t) == /\ TuiGoes(t, "off", "snapshot")
                  /\ UNCHANGED <<snapshot, cursor, got, since, lagged>>

TuiLeaves(t) == /\ tui[t] # "off"
                /\ ~left[t]
                /\ left' = [left EXCEPT ![t] = TRUE]
                /\ UNCHANGED <<engineVars, listenVars, tui, snapshot, cursor, got,
                               since, lagged>>

\* get_all takes the read lock: not while a batch is being stored.
TakeSnapshot(t) == /\ TuiGoes(t, "snapshot", "send")
                   /\ server # "store"
                   /\ snapshot' = [snapshot EXCEPT ![t] = Len(logs)]
                   /\ UNCHANGED <<cursor, got, since, lagged>>

SendSnapshot(t) == /\ TuiGoes(t, "send", "subscribe")
                   /\ got' = [got EXCEPT ![t] = [i \in 1..snapshot[t] |-> i]]
                   /\ UNCHANGED <<snapshot, cursor, since, lagged>>

\* A write to a peer that has left fails sooner or later, and ends the task.
SendFails(t) == /\ \/ TuiGoes(t, "send", "over")
                   \/ cursor[t] <= Len(logs) /\ TuiGoes(t, "receive", "over")
                /\ left[t]
                /\ UNCHANGED <<snapshot, cursor, got, since, lagged>>

\* Slip: the receiver starts with the oldest message of the channel.
SubscribeToOldest(t) == /\ TuiGoes(t, "subscribe", "receive")
                        /\ cursor' = [cursor EXCEPT ![t] = 1]
                        /\ since' = [since EXCEPT ![t] = Len(logs)]
                        /\ UNCHANGED <<snapshot, got, lagged>>

\* A receiver gets what is broadcast after it was made.
Subscribe(t) == /\ TuiGoes(t, "subscribe", "receive")
                /\ cursor' = [cursor EXCEPT ![t] = Len(logs) + 1]
                /\ since' = [since EXCEPT ![t] = Len(logs)]
                /\ UNCHANGED <<snapshot, got, lagged>>

Oldest == IF Len(logs) > Capacity THEN Len(logs) - Capacity + 1 ELSE 1

Forward(t) == /\ TuiGoes(t, "receive", "receive")
              /\ cursor[t] \in Oldest..Len(logs)
              /\ got' = [got EXCEPT ![t] = Append(@, cursor[t])]
              /\ cursor' = [cursor EXCEPT ![t] = @ + 1]
              /\ UNCHANGED <<snapshot, since, lagged>>

\* Slip: the task ends as if the channel were closed.
LagEndsTask(t) == /\ TuiGoes(t, "receive", "over")
                  /\ cursor[t] < Oldest
                  /\ UNCHANGED <<snapshot, got, since, cursor, lagged>>

\* Slip: the receiver goes on with the next message to come.
LagToEnd(t) == /\ TuiGoes(t, "receive", "receive")
               /\ cursor[t] < Oldest
               /\ cursor' = [cursor EXCEPT ![t] = Len(logs) + 1]
               /\ lagged' = [lagged EXCEPT ![t] = TRUE]
               /\ UNCHANGED <<snapshot, got, since>>

\* RecvError::Lagged: the receiver goes on with the oldest message kept.
Lag(t) == /\ TuiGoes(t, "receive", "receive")
          /\ cursor[t] < Oldest
          /\ cursor' = [cursor EXCEPT ![t] = Oldest]
          /\ lagged' = [lagged EXCEPT ![t] = TRUE]
          /\ UNCHANGED <<snapshot, got, since>>

-----------------------------------------------------------------------------

ListenerStep == \/ Accept \/ ReadBatch \/ StoreLog
                \/ EngineGone \/ ConnectionFails \/ SaveCsv

TuiStep(t) == \/ TakeSnapshot(t) \/ SendSnapshot(t) \/ SendFails(t)
              \/ Subscribe(t) \/ Forward(t) \/ Lag(t)

Next == \/ \E e \in Engines : EngineConnects(e) \/ EngineWrites(e) \/ EngineCloses(e)
        \/ ListenerStep
        \/ \E t \in Tuis : TuiConnects(t) \/ TuiLeaves(t) \/ TuiStep(t)

Spec == Init /\ [][Next]_vars

(***************************************************************************)
(* Fairness: the runtime polls every task that can go on.  No engine has   *)
(* to connect, write or close, and no TUI has to connect or leave; one     *)
(* that stays reads what it is sent, so that write_all does not block for  *)
(* ever.                                                                   *)
(***************************************************************************)
Fairness == WF_vars(ListenerStep) /\ \A t \in Tuis : WF_vars(TuiStep(t))

FairSpec == Spec /\ Fairness
-----------------------------------------------------------------------------
(* Properties *)

Batch == Seq(Engines \X (Nat \ {0}))

TypeOK == /\ infinite \in BOOLEAN /\ connected \in BOOLEAN /\ unsaved \in BOOLEAN
          /\ engine \in [Engines -> {"off", "open", "closed"}]
          /\ wire \in [Engines -> Seq(Batch \ {<<>>})]
          /\ backlog \in Seq(Engines)
          /\ server \in ServerStates
          /\ serving \subseteq Engines
          /\ serving # {} <=> server \in {"read", "store"}
          /\ serving # {} <=> connected
          /\ pending \in Batch
          /\ pending # <<>> <=> server = "store"
          /\ logs \in Batch /\ csv \in Batch
          /\ tui \in [Tuis -> TuiStates]
          /\ left \in [Tuis -> BOOLEAN]
          /\ snapshot \in [Tuis -> Nat]
          /\ cursor \in [Tuis -> Nat \ {0}]
          /\ got \in [Tuis -> Seq(Nat \ {0})]
          /\ since \in [Tuis -> Nat]
          /\ lagged \in [Tuis -> BOOLEAN]
          /\ written \in [Engines -> Nat]
          /\ broken \subseteq Engines

(***************************************************************************)
(* What is in the storage, in the batch being stored and on the wire of an *)
(* engine is what it wrote, in the order it was written, though engines    *)
(* come one after the other and may die at any time: nothing is doubled or *)
(* reordered, and nothing is lost unless the connection failed, and then   *)
(* only what was written last.                                             *)
(***************************************************************************)
From(e, s) ==
  LET own[i \in 0..Len(s)] == IF i = 0 THEN <<>>
                              ELSE IF s[i][1] = e THEN Append(own[i - 1], s[i])
                              ELSE own[i - 1]
  IN  own[Len(s)]

StoredAsWritten == \A e \in Engines :
  \E n \in 0..written[e] :
    /\ From(e, logs \o pending) \o FlattenSeq(wire[e]) = [i \in 1..n |-> <<e, i>>]
    /\ n = written[e] \/ e \in broken

(***************************************************************************)
(* A server that has exited has the whole storage in the CSV file, unless  *)
(* the file could not be written, and with it all that was written by the  *)
(* engine it served, unless its connection failed.                         *)
(***************************************************************************)
ExitSavesSession == (~Running /\ ~unsaved) =>
  /\ csv = logs
  /\ \A e \in Engines \ broken : (engine[e] = "closed" /\ ~Contains(backlog, e)) =>
       \A n \in 1..written[e] : Contains(csv, <<e, n>>)

(***************************************************************************)
(* What a TUI is sent is the storage in order, and as long as its receiver *)
(* never lagged the only logs it can have missed are those stored between  *)
(* its snapshot and its subscription.                                      *)
(***************************************************************************)
MissesOnlyTheGap == \A t \in Tuis :
  /\ \A i, j \in 1..Len(got[t]) : i < j => got[t][i] < got[t][j]
  /\ (tui[t] = "receive" /\ ~lagged[t]) =>
        ToSet(got[t]) = (1..snapshot[t]) \cup (since[t] + 1 .. cursor[t] - 1)

(***************************************************************************)
(* Batches, a storage under a lock, a channel that overwrites and a task   *)
(* per TUI are the log stream of LogStream: also of a TUI that lagged what *)
(* it was not sent had been overwritten by then.                           *)
(***************************************************************************)
Stage == [off |-> "new", snapshot |-> "new", send |-> "new", subscribe |-> "replayed",
          receive |-> "following", over |-> "gone"]

Stream == INSTANCE LogStream WITH Sources <- Engines, Readers <- Tuis, log <- logs,
            reader <- [t \in Tuis |-> Stage[tui[t]]], joined <- since, seen <- got

ImplementsStream == Stream!Spec

(***************************************************************************)
(* An engine whose connection waits is served, unless one before it stays  *)
(* connected or the server exits.                                          *)
(***************************************************************************)
WaitingEngineIsServed == \A e \in Engines : Contains(backlog, e) ~>
  \/ e \in serving
  \/ \E f \in Engines \ {e} : engine[f] = "open"
  \/ ~Running

(***************************************************************************)
(* A TUI that has subscribed and stays catches up with the storage, also   *)
(* after it lagged.                                                        *)
(***************************************************************************)
TuiCatchesUp == \A t \in Tuis :
  tui[t] = "receive" ~> (cursor[t] > Len(logs) \/ left[t] \/ ~Running)

(***************************************************************************)
(* server.rs:109: on connection the TUI gets a batch of all previous       *)
(* messages "so that the TUI isn't missing any information": a TUI whose   *)
(* receiver never lagged is sent every log before any later one.           *)
(***************************************************************************)
TuiMissesNothing == \A t \in Tuis : ~lagged[t] =>
  \A i \in 1..Len(got[t]) : got[t][i] = i
=============================================================================

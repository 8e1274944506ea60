---------------------------- MODULE KenzoSession ----------------------------
(***************************************************************************)
(* The session of Kenzo (tools/kenzo/src/app.rs): the loop of App::run,    *)
(* the connection state, and the tasks that read the log server's socket.  *)
(*                                                                         *)
(* connect and reconnect start a task with a fresh mpsc channel and a      *)
(* oneshot to stop it; disconnect fires the oneshot and drops the receiver *)
(* and leaves the task to find out.  A task that is waiting for TCP or for *)
(* room in the channel does not hear the oneshot, so tasks of several      *)
(* sessions may be alive at once.  What is shown of the logs is KenzoView's*)
(* subject; here a batch is its number on its connection, 0 the empty one  *)
(* that announces the connection.                                          *)
(***************************************************************************)
EXTENDS Naturals, Sequences, SequencesExt

CONSTANTS Conns,       \* the tasks that can be alive at once (a bound)
          None,
          Capacity,    \* of the mpsc channel, 100 in the code
          BatchLimit,  \* bound of the model: batches written on a connection
          DialLimit    \* bound of the model: how often the user connects

ASSUME SessionAssumption == /\ None \notin Conns
                            /\ Capacity \in Nat \ {0}
                            /\ BatchLimit \in Nat /\ DialLimit \in Nat

VARIABLES
  state,        \* ConnectionState
  conn,         \* the task whose channel is log_rx, None if there is none
  received,     \* history: the batches taken from that channel
  should_exit,
  phase,        \* where App::run is in its loop
  dials,        \* how often the user has connected
  wanted,       \* history: the user wants to be connected
  task,         \* task[c]: where the task is
  stopped,      \* the tasks whose oneshot has fired
  channel,      \* channel[c]: the batches waiting in the mpsc channel
  up,           \* the log server accepts connections
  open,         \* the connections whose server end is alive
  wire,         \* wire[c]: the batches written and not read yet
  wrote         \* wrote[c]: how many batches the server has written

appVars == <<state, conn, received, should_exit, phase, dials, wanted>>
taskVars == <<task, stopped, channel>>
serverVars == <<up, open, wire, wrote>>
vars == <<appVars, taskVars, serverVars>>

States == {"Disconnected", "Connecting", "Reconnecting", "Connected", "CsvMode"}
Popup == {"Disconnected", "Connecting"}  \* the states with the popup on the screen
Phases == {"start", "drain", "key", "check", "exited"}
TaskStates == {"ended", "connect", "announce", "read", "forward"}

\* With a readable --csv file the program starts in its view.
Init == /\ state \in {"Disconnected", "CsvMode"}
        /\ conn = None
        /\ received = <<>>
        /\ should_exit = FALSE
        /\ phase = "start"
        /\ dials = 0
        /\ wanted = FALSE
        /\ task = [c \in Conns |-> "ended"]
        /\ stopped = {}
        /\ channel = [c \in Conns |-> <<>>]
        /\ up \in BOOLEAN
        /\ open = {}
        /\ wire = [c \in Conns |-> <<>>]
        /\ wrote = [c \in Conns |-> 0]

-----------------------------------------------------------------------------
(* disconnect, connect and reconnect *)

Live == {conn} \ {None}

\* Slip: the receiver goes, the oneshot does not fire.
StoppingNobody == stopped

Stopping == stopped \cup Live

Disconnect == /\ stopped' = Stopping
              /\ channel' = [c \in Conns |-> IF c \in Live THEN <<>> ELSE channel[c]]
              /\ conn' = None
              /\ state' = "Disconnected"
              /\ received' = <<>>
              /\ UNCHANGED task

\* disconnect, then a task with a channel of its own.
Dial(as) == \E c \in Conns :
  /\ task[c] = "ended"
  /\ task' = [task EXCEPT ![c] = "connect"]
  /\ stopped' = Stopping \ {c}
  /\ channel' = [d \in Conns |-> IF d \in Live \cup {c} THEN <<>> ELSE channel[d]]
  /\ conn' = c
  /\ state' = as
  /\ received' = <<>>

-----------------------------------------------------------------------------
(* App::run: one pass takes what has arrived, handles a key, and looks whether
   the channel is closed. *)

GoOn(to) == phase' = to /\ UNCHANGED serverVars

Session == <<state, conn, received, taskVars>>

Start == /\ phase = "start"
         /\ IF state = "Disconnected" THEN Dial("Connecting") /\ wanted' = TRUE
            ELSE UNCHANGED <<Session, wanted>>
         /\ GoOn("drain")
         /\ UNCHANGED <<should_exit, dials>>

\* try_recv succeeds; any batch, even an empty one, means connected.
TryRecv == /\ phase = "drain" /\ ~should_exit
           /\ conn # None /\ channel[conn] # <<>>
           /\ received' = Append(received, Head(channel[conn]))
           /\ channel' = [channel EXCEPT ![conn] = Tail(@)]
           /\ state' = IF state \in {"Connecting", "Reconnecting"} THEN "Connected"
                       ELSE state
           /\ GoOn("drain")
           /\ UNCHANGED <<conn, should_exit, dials, wanted, task, stopped>>

DrainEnds == /\ phase = "drain" /\ ~should_exit
             /\ \A c \in Live : channel[c] = <<>>
             /\ GoOn("key")
             /\ UNCHANGED <<Session, should_exit, dials, wanted>>

\* A task has ended: its sender is dropped, whatever is left in the channel.
Closed == conn # None /\ task[conn] = "ended"

\* Slip: only an established session is dialled again.
CheckEstablished == /\ phase = "check"
                    /\ IF ~Closed THEN UNCHANGED Session
                       ELSE IF state = "Connected" THEN Dial("Reconnecting")
                       ELSE Disconnect
                    /\ GoOn("drain")
                    /\ UNCHANGED <<should_exit, dials, wanted>>

Check == /\ phase = "check"
         /\ IF ~Closed THEN UNCHANGED Session
            ELSE IF state \in {"Connected", "Connecting", "Reconnecting"}
            THEN Dial("Reconnecting")
            ELSE Disconnect
         /\ GoOn("drain")
         /\ UNCHANGED <<should_exit, dials, wanted>>

\* The loop breaks and the runtime takes the tasks with it.
Exit == /\ phase = "drain" /\ should_exit
        /\ phase' = "exited"
        /\ conn' = None
        /\ received' = <<>>
        /\ task' = [c \in Conns |-> "ended"]
        /\ stopped' = {}
        /\ channel' = [c \in Conns |-> <<>>]
        /\ open' = {}
        /\ wire' = [c \in Conns |-> <<>>]
        /\ UNCHANGED <<state, should_exit, dials, wanted, up, wrote>>

-----------------------------------------------------------------------------
(* Keys that concern the session *)

AtKey == phase = "key" /\ GoOn("check")

NoKey == AtKey /\ UNCHANGED <<Session, should_exit, dials, wanted>>

\* Enter on Localhost or on an address.
UserConnects == /\ AtKey
                /\ state \in Popup
                /\ dials < DialLimit
                /\ dials' = dials + 1
                /\ wanted' = TRUE
                /\ Dial("Connecting")
                /\ UNCHANGED should_exit

\* Enter on a file, readable or not: a connection under way is left as it is.
UserLoadsCsv == /\ AtKey
                /\ state \in Popup
                /\ state' \in {"CsvMode", "Disconnected"}
                /\ wanted' = FALSE
                /\ UNCHANGED <<conn, received, taskVars, should_exit, dials>>

\* q on the popup, and q on the log view outside the search.
UserExits == /\ AtKey
             /\ state \in Popup
             /\ should_exit' = TRUE
             /\ wanted' = FALSE
             /\ UNCHANGED <<Session, dials>>

UserDisconnects == /\ AtKey
                   /\ state \notin Popup
                   /\ Disconnect
                   /\ wanted' = FALSE
                   /\ UNCHANGED <<should_exit, dials>>

-----------------------------------------------------------------------------
(* The task of a connection *)

TaskEnds(c) == /\ task' = [task EXCEPT ![c] = "ended"]
               /\ open' = open \ {c}
               /\ wire' = [wire EXCEPT ![c] = <<>>]
               /\ wrote' = [wrote EXCEPT ![c] = 0]
               /\ UNCHANGED <<appVars, stopped, channel, up>>

TaskGoes(c, to) == task' = [task EXCEPT ![c] = to] /\ UNCHANGED <<appVars, stopped>>

\* tx.send of the task whose receiver is alive waits for room.
Send(c, batch) == /\ Len(channel[c]) < Capacity
                  /\ channel' = [channel EXCEPT ![c] = Append(@, batch)]

TcpConnects(c) == /\ task[c] = "connect"
                  /\ up
                  /\ open' = open \cup {c}
                  /\ TaskGoes(c, "announce")
                  /\ UNCHANGED <<channel, up, wire, wrote>>

TcpFails(c) == /\ task[c] = "connect"
               /\ ~up
               /\ TaskEnds(c)

\* The empty batch; its failure is ignored.
Announce(c) == /\ task[c] = "announce"
               /\ IF c = conn THEN Send(c, 0) ELSE UNCHANGED channel
               /\ TaskGoes(c, "read")
               /\ UNCHANGED serverVars

\* The branches of select!.
HearStop(c) == /\ task[c] = "read"
               /\ c \in stopped
               /\ TaskEnds(c)

ReadBatch(c) == /\ task[c] = "read"
                /\ wire[c] # <<>>
                /\ TaskGoes(c, "forward")
                /\ UNCHANGED <<channel, serverVars>>

\* The peer is gone, with or without what it has written last.
ReadFails(c) == /\ task[c] = "read"
                /\ c \notin open
                /\ TaskEnds(c)

\* Slips: a full channel drops the batch; the channel has no limit.
ForwardOrDrop(c) ==
  /\ task[c] = "forward" /\ c = conn
  /\ wire' = [wire EXCEPT ![c] = Tail(@)]
  /\ IF Len(channel[c]) = Capacity THEN UNCHANGED channel ELSE Send(c, Head(wire[c]))
  /\ TaskGoes(c, "read")
  /\ UNCHANGED <<up, open, wrote>>

ForwardUnbounded(c) ==
  /\ task[c] = "forward" /\ c = conn
  /\ wire' = [wire EXCEPT ![c] = Tail(@)]
  /\ channel' = [channel EXCEPT ![c] = Append(@, Head(wire[c]))]
  /\ TaskGoes(c, "read")
  /\ UNCHANGED <<up, open, wrote>>

Forward(c) == /\ task[c] = "forward" /\ c = conn
              /\ wire' = [wire EXCEPT ![c] = Tail(@)]
              /\ Send(c, Head(wire[c]))
              /\ TaskGoes(c, "read")
              /\ UNCHANGED <<up, open, wrote>>

\* The receiver was dropped while the task had a batch in its hands.
ForwardFails(c) == /\ task[c] = "forward"
                   /\ c # conn
                   /\ TaskEnds(c)

-----------------------------------------------------------------------------
(* The log server, as the socket shows it *)

ServerStarts == /\ ~up
                /\ up' = TRUE
                /\ UNCHANGED <<appVars, taskVars, open, wire, wrote>>

ServerDies == /\ up
              /\ up' = FALSE
              /\ open' = {}
              /\ UNCHANGED <<appVars, taskVars, wire, wrote>>

ServerWrites(c) == /\ c \in open
                   /\ wrote[c] < BatchLimit
                   /\ wrote' = [wrote EXCEPT ![c] = @ + 1]
                   /\ wire' = [wire EXCEPT ![c] = Append(@, wrote[c] + 1)]
                   /\ UNCHANGED <<appVars, taskVars, up, open>>

-----------------------------------------------------------------------------

AppStep == \/ Start \/ TryRecv \/ DrainEnds \/ Check \/ Exit
           \/ NoKey \/ UserConnects \/ UserLoadsCsv \/ UserExits \/ UserDisconnects

TaskStep(c) == \/ TcpConnects(c) \/ TcpFails(c) \/ Announce(c)
               \/ HearStop(c) \/ ReadBatch(c) \/ ReadFails(c)
               \/ Forward(c) \/ ForwardFails(c)

ServerStep == ServerStarts \/ ServerDies \/ \E c \in Conns : ServerWrites(c)

Next == AppStep \/ ServerStep \/ \E c \in Conns : TaskStep(c)

Spec == Init /\ [][Next]_vars

(***************************************************************************)
(* Fairness: the loop goes round (every wait in it has a timeout) and the  *)
(* runtime runs every task that can run, a TCP connect included, which     *)
(* ends one way or the other.  Nothing is asked of the user or the server, *)
(* nor of the random choice of select!.                                    *)
(***************************************************************************)
Fairness == /\ WF_vars(AppStep)
            /\ \A c \in Conns : WF_vars(TaskStep(c))

FairSpec == Spec /\ Fairness

-----------------------------------------------------------------------------
(* Properties *)

TypeOK == /\ state \in States
          /\ conn \in Conns \cup {None}
          /\ phase \in Phases
          /\ {should_exit, wanted, up} \subseteq BOOLEAN
          /\ received \in Seq(Nat)
          /\ dials \in 0..DialLimit
          /\ task \in [Conns -> TaskStates]
          /\ stopped \subseteq Conns /\ open \subseteq Conns
          /\ \A c \in Conns : /\ channel[c] \in Seq(Nat) /\ Len(channel[c]) <= Capacity
                              /\ wire[c] \in Seq(Nat) /\ wrote[c] \in Nat

(***************************************************************************)
(* A session shows what its connection brought, from the announcement on,  *)
(* without a gap, a repetition or a batch of an older connection: the      *)
(* batches taken and those in the channel are consecutive, and with those  *)
(* on the wire they are all the server has written.  Once there is a batch *)
(* the state is no longer a connecting one.                                *)
(***************************************************************************)
SessionInOrder == conn # None =>
  LET known == received \o channel[conn]
      written == known \o wire[conn]
  IN  /\ \A i \in DOMAIN known : known[i] = i - 1
      /\ task[conn] \in {"read", "forward"} =>
           written = [i \in 1..wrote[conn] + 1 |-> i - 1]
      /\ received # <<>> => state \notin {"Connecting", "Reconnecting"}

(***************************************************************************)
(* Every task that is no longer the session's ends, even if its server     *)
(* lives on and never writes again.                                        *)
(***************************************************************************)
AbandonedTasksEnd == \A c \in Conns :
  (c # conn) ~> (task[c] = "ended" \/ c = conn)

(***************************************************************************)
(* A user who wants to be connected gets connected to a server that stays  *)
(* up, however often it went away before.                                  *)
(***************************************************************************)
FindsServer == <>[]up => (wanted ~> (state = "Connected" \/ ~wanted))
=============================================================================

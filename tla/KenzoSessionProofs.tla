------------------------- MODULE KenzoSessionProofs -------------------------
(***************************************************************************)
(* Theorems about Kenzo's session, for any number of tasks alive at once,  *)
(* any capacity of the channel and any number of batches.                  *)
(***************************************************************************)
EXTENDS KenzoSession, SequenceTheorems, TLAPS

Typed == /\ TypeOK
         /\ channel \in [Conns -> Seq(Nat)]
         /\ wire \in [Conns -> Seq(Nat)]
         /\ wrote \in [Conns -> Nat]

\* The part of the types that the session's variables have.
SessionTyped == /\ state \in States
                /\ conn \in Conns \cup {None}
                /\ received \in Seq(Nat)
                /\ task \in [Conns -> TaskStates]
                /\ stopped \subseteq Conns
                /\ channel \in [Conns -> Seq(Nat)]
                /\ \A c \in Conns : Len(channel[c]) <= Capacity

LoopTyped == /\ phase \in Phases
             /\ {should_exit, wanted, up} \subseteq BOOLEAN
             /\ dials \in 0..DialLimit
             /\ open \subseteq Conns
             /\ wire \in [Conns -> Seq(Nat)]
             /\ wrote \in [Conns -> Nat]

LEMMA TypedMeans == Typed <=> SessionTyped /\ LoopTyped
BY DEF Typed, TypeOK, SessionTyped, LoopTyped

LEMMA TypedMeansNext == Typed' <=> SessionTyped' /\ LoopTyped'
BY DEF Typed, TypeOK, SessionTyped, LoopTyped

LEMMA InitTyped == Init => Typed
<1> SUFFICES ASSUME Init PROVE Typed
  OBVIOUS
<1>1. <<>> \in Seq(Nat) /\ Len(<<>>) = 0
  BY EmptySeq
<1>2. SessionTyped
  BY <1>1, SessionAssumption DEF Init, SessionTyped, States, TaskStates
<1>3. wire \in [Conns -> Seq(Nat)] /\ wrote \in [Conns -> Nat]
  BY <1>1 DEF Init
<1>4. phase \in Phases /\ dials \in 0..DialLimit /\ open \subseteq Conns
  BY SessionAssumption DEF Init, Phases
<1>5. {should_exit, wanted, up} \subseteq BOOLEAN
  BY DEF Init
<1> QED
  BY <1>2, <1>3, <1>4, <1>5, TypedMeans DEF LoopTyped

LEMMA DialTyped ==
  ASSUME SessionTyped, NEW as \in States, Dial(as)
  PROVE  SessionTyped'
<1>1. PICK c \in Conns :
        /\ task' = [task EXCEPT ![c] = "connect"]
        /\ stopped' = Stopping \ {c}
        /\ channel' = [d \in Conns |-> IF d \in Live \cup {c} THEN <<>> ELSE channel[d]]
        /\ conn' = c /\ state' = as /\ received' = <<>>
  BY DEF Dial
<1>2. <<>> \in Seq(Nat) /\ Len(<<>>) = 0
  BY EmptySeq
<1>3. channel' \in [Conns -> Seq(Nat)] /\ \A d \in Conns : Len(channel'[d]) <= Capacity
  BY <1>1, <1>2, SessionAssumption DEF SessionTyped
<1>4. stopped' \subseteq Conns
  BY <1>1 DEF SessionTyped, Stopping, Live
<1> QED
  BY <1>1, <1>2, <1>3, <1>4 DEF SessionTyped, TaskStates

LEMMA DisconnectTyped ==
  ASSUME SessionTyped, Disconnect
  PROVE  SessionTyped'
<1>1. <<>> \in Seq(Nat) /\ Len(<<>>) = 0
  BY EmptySeq
<1>2. channel' \in [Conns -> Seq(Nat)] /\ \A d \in Conns : Len(channel'[d]) <= Capacity
  BY <1>1, SessionAssumption DEF SessionTyped, Disconnect
<1>3. stopped' \subseteq Conns
  BY DEF SessionTyped, Disconnect, Stopping, Live
<1> QED
  BY <1>1, <1>2, <1>3 DEF SessionTyped, Disconnect, States

LEMMA AppTyped == ASSUME Typed, AppStep PROVE Typed'
<1>1. SessionTyped /\ LoopTyped
  BY TypedMeans
<1>2. ASSUME Session' = Session PROVE SessionTyped'
  BY <1>1, <1>2 DEF Session, taskVars, SessionTyped
<1>3. CASE Exit
  <2>1. <<>> \in Seq(Nat) /\ Len(<<>>) = 0
    BY EmptySeq
  <2>2. SessionTyped'
    BY <1>1, <1>3, <2>1, SessionAssumption DEF Exit, SessionTyped, TaskStates
  <2>3. wire' \in [Conns -> Seq(Nat)] /\ wrote' \in [Conns -> Nat]
    BY <1>1, <1>3, <2>1 DEF Exit, LoopTyped
  <2>4. LoopTyped'
    BY <1>1, <1>3, <2>3 DEF Exit, LoopTyped, Phases
  <2> QED
    BY <2>2, <2>4, TypedMeansNext
<1>4. CASE TryRecv
  <2>1. /\ conn \in Conns /\ channel[conn] # <<>>
        /\ received' = Append(received, Head(channel[conn]))
        /\ channel' = [channel EXCEPT ![conn] = Tail(@)]
        /\ state' \in {state, "Connected"}
        /\ UNCHANGED <<conn, should_exit, dials, wanted, task, stopped, serverVars>>
        /\ phase' = "drain"
    BY <1>1, <1>4 DEF TryRecv, GoOn, SessionTyped
  <2>2. channel[conn] \in Seq(Nat) /\ Len(channel[conn]) <= Capacity
    BY <1>1, <2>1 DEF SessionTyped
  <2>3. /\ Head(channel[conn]) \in Nat /\ Tail(channel[conn]) \in Seq(Nat)
        /\ Len(Tail(channel[conn])) <= Capacity
    BY <2>1, <2>2, HeadTailProperties, LenProperties, SessionAssumption
  <2>4. received' \in Seq(Nat)
    BY <1>1, <2>1, <2>3, AppendProperties DEF SessionTyped
  <2>5. SessionTyped'
    BY <1>1, <2>1, <2>3, <2>4 DEF SessionTyped, States
  <2>6. LoopTyped'
    BY <1>1, <2>1 DEF LoopTyped, Phases, serverVars
  <2> QED
    BY <2>5, <2>6, TypedMeansNext
<1>5. CASE Start
  <2>1. SessionTyped'
    BY <1>1, <1>2, <1>5, DialTyped DEF Start, States
  <2>2. LoopTyped'
    <3>1. wanted' \in {wanted, TRUE} /\ UNCHANGED <<should_exit, dials, serverVars>>
          /\ phase' = "drain"
      BY <1>5 DEF Start, GoOn
    <3>2. {should_exit', wanted', up'} \subseteq BOOLEAN
      BY <1>1, <3>1 DEF LoopTyped, serverVars
    <3> QED
      BY <1>1, <3>1, <3>2 DEF LoopTyped, Phases, serverVars
  <2> QED
    BY <2>1, <2>2, TypedMeansNext
<1>6. CASE DrainEnds \/ Check
  <2>1. SessionTyped'
    BY <1>1, <1>2, <1>6, DialTyped, DisconnectTyped DEF DrainEnds, Check, States
  <2>2. LoopTyped'
    BY <1>1, <1>6 DEF DrainEnds, Check, GoOn, LoopTyped, Phases, serverVars
  <2> QED
    BY <2>1, <2>2, TypedMeansNext
<1>7. CASE NoKey \/ UserConnects \/ UserLoadsCsv \/ UserExits \/ UserDisconnects
  <2> USE <1>7 DEF NoKey, UserConnects, UserLoadsCsv, UserExits, UserDisconnects, AtKey
  <2>1. SessionTyped'
    <3>1. CASE UserLoadsCsv
      BY <1>1, <3>1 DEF SessionTyped, taskVars, States
    <3> QED
      BY <1>1, <1>2, <3>1, DialTyped, DisconnectTyped DEF States
  <2>2. dials' \in 0..DialLimit
    BY <1>1, SessionAssumption DEF LoopTyped
  <2>3. phase' = "check" /\ UNCHANGED serverVars
    BY DEF GoOn
  <2>4. {should_exit', wanted'} \subseteq BOOLEAN
    <3>1. should_exit' \in {should_exit, TRUE} /\ wanted' \in {wanted, TRUE, FALSE}
      OBVIOUS
    <3> QED
      BY <1>1, <3>1 DEF LoopTyped
  <2>5. LoopTyped'
    BY <1>1, <2>2, <2>3, <2>4 DEF LoopTyped, Phases, serverVars
  <2> QED
    BY <2>1, <2>5, TypedMeansNext
<1> QED
  BY <1>3, <1>4, <1>5, <1>6, <1>7 DEF AppStep

LEMMA TaskTyped ==
  ASSUME Typed, NEW c \in Conns, TaskStep(c), task[c] = "forward" => wire[c] # <<>>
  PROVE  Typed'
<1>1. SessionTyped /\ LoopTyped
  BY TypedMeans
<1>2. CASE TaskEnds(c)
  <2>1. <<>> \in Seq(Nat)
    BY EmptySeq
  <2>2. SessionTyped'
    BY <1>1, <1>2 DEF TaskEnds, SessionTyped, TaskStates, appVars
  <2>3. LoopTyped'
    BY <1>1, <1>2, <2>1 DEF TaskEnds, LoopTyped, appVars
  <2> QED
    BY <2>2, <2>3, TypedMeansNext
<1>3. CASE TcpConnects(c) \/ ReadBatch(c)
  BY <1>1, <1>3, TypedMeansNext DEF TcpConnects, ReadBatch, TaskGoes, appVars, serverVars,
     SessionTyped, LoopTyped, TaskStates
<1>4. ASSUME NEW b \in Nat, Send(c, b)
      PROVE  /\ channel' \in [Conns -> Seq(Nat)]
             /\ \A d \in Conns : Len(channel'[d]) <= Capacity
  <2>1. channel[c] \in Seq(Nat) /\ Len(channel[c]) < Capacity
    BY <1>1, <1>4 DEF Send, SessionTyped
  <2>2. /\ Append(channel[c], b) \in Seq(Nat)
        /\ Len(Append(channel[c], b)) <= Capacity
    BY <2>1, AppendProperties, LenProperties, SessionAssumption
  <2> QED
    BY <1>1, <1>4, <2>2 DEF Send, SessionTyped
<1>5. CASE Announce(c)
  <2>1. /\ channel' \in [Conns -> Seq(Nat)]
        /\ \A d \in Conns : Len(channel'[d]) <= Capacity
    BY <1>1, <1>4, <1>5 DEF Announce, SessionTyped
  <2> QED
    BY <1>1, <1>5, <2>1, TypedMeansNext DEF Announce, TaskGoes, appVars, serverVars,
       SessionTyped, LoopTyped, TaskStates
<1>6. CASE Forward(c) /\ wire[c] # <<>>
  <2>1. wire[c] \in Seq(Nat) /\ Head(wire[c]) \in Nat /\ Tail(wire[c]) \in Seq(Nat)
    BY <1>1, <1>6, HeadTailProperties DEF LoopTyped
  <2>2. /\ channel' \in [Conns -> Seq(Nat)]
        /\ \A d \in Conns : Len(channel'[d]) <= Capacity
    BY <1>4, <1>6, <2>1 DEF Forward
  <2> QED
    BY <1>1, <1>6, <2>1, <2>2, TypedMeansNext DEF Forward, TaskGoes, appVars,
       SessionTyped, LoopTyped, TaskStates
<1> QED
  BY <1>2, <1>3, <1>5, <1>6 
     DEF TaskStep, TcpFails, HearStop, ReadFails, Forward, ForwardFails

LEMMA ServerTyped == ASSUME Typed, ServerStep PROVE Typed'
<1>1. SessionTyped /\ LoopTyped
  BY TypedMeans
<1>2. ASSUME NEW c \in Conns, ServerWrites(c) PROVE Typed'
  <2>1. wrote[c] + 1 \in Nat /\ Append(wire[c], wrote[c] + 1) \in Seq(Nat)
    <3>1. wrote[c] + 1 \in Nat /\ wire[c] \in Seq(Nat)
      BY <1>1 DEF LoopTyped
    <3> QED
      BY <3>1, AppendProperties
  <2> QED
    BY <1>1, <1>2, <2>1, TypedMeansNext DEF ServerWrites, appVars, taskVars, SessionTyped,
       LoopTyped
<1>3. CASE ServerStarts \/ ServerDies
  <2>1. SessionTyped'
    BY <1>1, <1>3 DEF ServerStarts, ServerDies, appVars, taskVars, SessionTyped
  <2>2. up' \in BOOLEAN /\ should_exit' = should_exit /\ wanted' = wanted
    BY <1>3 DEF ServerStarts, ServerDies, appVars
  <2>3. {should_exit', wanted', up'} \subseteq BOOLEAN
    BY <1>1, <2>2 DEF LoopTyped
  <2>4. LoopTyped'
    BY <1>1, <1>3, <2>3 DEF ServerStarts, ServerDies, appVars, taskVars, LoopTyped
  <2> QED
    BY <2>1, <2>4, TypedMeansNext
<1> QED
  BY <1>2, <1>3 DEF ServerStep

-----------------------------------------------------------------------------
(* The numbers of the batches *)

\* What is on a connection's wire are the newest batches its server wrote.
Wire(t, w, n, alive) ==
  /\ Len(w) <= n
  /\ \A i \in 1..Len(w) : w[i] = n - Len(w) + i
  /\ t \in {"ended", "connect"} => w = <<>> /\ n = 0 /\ ~alive
  /\ t = "announce" => Len(w) = n
  /\ t = "forward" => w # <<>>

Wires == phase # "exited" =>
  \A c \in Conns : Wire(task[c], wire[c], wrote[c], c \in open)

\* What was taken from the session's channel and what waits in it are numbered
\* on; the wire goes on with them.
Shown(t, r, ch, w, n) ==
  /\ \A i \in 1..Len(r) : r[i] = i - 1
  /\ \A i \in 1..Len(ch) : ch[i] = Len(r) + i - 1
  /\ t \in {"connect", "announce"} => r = <<>> /\ ch = <<>>
  /\ t \in {"read", "forward"} => Len(r) + Len(ch) + Len(w) = n + 1

Session0 == conn # None =>
  /\ Shown(task[conn], received, channel[conn], wire[conn], wrote[conn])
  /\ received # <<>> => state \notin {"Connecting", "Reconnecting"}

NoneLeft == phase = "exited" => /\ conn = None /\ open = {}
                                /\ \A c \in Conns : task[c] = "ended"

SessionInv == Wires /\ Session0 /\ NoneLeft

LEMMA DialKeeps ==
  ASSUME Typed, SessionInv, NEW as \in States, Dial(as), phase # "exited",
         phase' # "exited", UNCHANGED serverVars
  PROVE  SessionInv'
<1>1. PICK c \in Conns :
        /\ task[c] = "ended"
        /\ task' = [task EXCEPT ![c] = "connect"]
        /\ channel' = [d \in Conns |-> IF d \in Live \cup {c} THEN <<>> ELSE channel[d]]
        /\ conn' = c /\ received' = <<>>
  BY DEF Dial
<1>2. task'[c] = "connect" /\ \A d \in Conns \ {c} : task'[d] = task[d]
  BY <1>1 DEF Typed, TypeOK
<1>3. channel'[c] = <<>>
  BY <1>1
<1>4. Wires'
  BY <1>1, <1>2 DEF SessionInv, Wires, Wire, serverVars
<1>5. Shown("connect", <<>>, <<>>, wire[c], wrote[c])
  BY DEF Shown
<1>6. Session0'
  BY <1>1, <1>2, <1>3, <1>5 DEF Session0, serverVars
<1> QED
  BY <1>4, <1>6 DEF SessionInv, NoneLeft

LEMMA AppKeeps == ASSUME Typed, SessionInv, AppStep PROVE SessionInv'
<1>1. SessionTyped /\ LoopTyped
  BY TypedMeans
<1>2. phase # "exited"
  BY DEF AppStep, Start, TryRecv, DrainEnds, Check, Exit, NoKey, UserConnects,
     UserLoadsCsv, UserExits, UserDisconnects, AtKey
<1>3. CASE Exit
  <2>1. wire' = [c \in Conns |-> <<>>] /\ conn' = None /\ open' = {} /\ phase' = "exited"
        /\ task' = [c \in Conns |-> "ended"]
    BY <1>3 DEF Exit
  <2> QED
    BY <2>1 DEF SessionInv, Wires, Session0, NoneLeft
<1>4. CASE TryRecv
  <2>1. /\ conn \in Conns /\ channel[conn] # <<>> /\ conn # None
        /\ received' = Append(received, Head(channel[conn]))
        /\ channel' = [channel EXCEPT ![conn] = Tail(@)]
        /\ state' \notin {"Connecting", "Reconnecting"}
        /\ UNCHANGED <<conn, task, serverVars>>
        /\ phase' = "drain"
    BY <1>1, <1>4 DEF TryRecv, GoOn, SessionTyped
  <2> DEFINE ch == channel[conn]
             r == received
  <2>2. ch \in Seq(Nat) /\ r \in Seq(Nat) /\ ch # <<>>
    BY <1>1, <2>1 DEF SessionTyped
  <2>3. Shown(task[conn], r, ch, wire[conn], wrote[conn])
    BY <2>1 DEF SessionInv, Session0
  <2>4. wrote[conn] \in Nat /\ Len(wire[conn]) \in Nat
    BY <1>1, <2>1, LenProperties DEF LoopTyped
  <2> HIDE DEF ch, r
  <2>5. Shown(task[conn], Append(r, Head(ch)), Tail(ch), wire[conn], wrote[conn])
    <3>1. /\ Len(Append(r, Head(ch))) = Len(r) + 1 /\ Len(r) \in Nat
          /\ \A i \in 1..Len(r) : Append(r, Head(ch))[i] = r[i]
          /\ Append(r, Head(ch))[Len(r) + 1] = Head(ch)
      BY <2>2, HeadTailProperties, AppendProperties, LenProperties
    <3>2. /\ Len(Tail(ch)) = Len(ch) - 1 /\ Len(ch) \in Nat \ {0} /\ Head(ch) = ch[1]
          /\ \A i \in 1..Len(Tail(ch)) : Tail(ch)[i] = ch[i + 1]
      BY <2>2, HeadTailProperties, EmptySeq
    <3>3. Head(ch) = Len(r)
      <4>1. 1 \in 1..Len(ch)
        BY <3>2
      <4> QED
        BY <2>3, <3>1, <3>2, <4>1 DEF Shown
    <3>4. \A i \in 1..(Len(r) + 1) : Append(r, Head(ch))[i] = i - 1
      <4> SUFFICES ASSUME NEW i \in 1..(Len(r) + 1)
                   PROVE  Append(r, Head(ch))[i] = i - 1
        OBVIOUS
      <4>1. i \in 1..Len(r) \/ i = Len(r) + 1
        BY <3>1
      <4> QED
        BY <2>3, <3>1, <3>3, <4>1 DEF Shown
    <3>5. \A i \in 1..Len(Tail(ch)) : Tail(ch)[i] = (Len(r) + 1) + i - 1
      <4> SUFFICES ASSUME NEW i \in 1..Len(Tail(ch))
                   PROVE  Tail(ch)[i] = (Len(r) + 1) + i - 1
        OBVIOUS
      <4>1. i + 1 \in 1..Len(ch) /\ Tail(ch)[i] = ch[i + 1]
        BY <3>2
      <4>2. ch[i + 1] = Len(r) + (i + 1) - 1
        BY <2>3, <4>1 DEF Shown
      <4> QED
        BY <3>1, <3>2, <4>1, <4>2
    <3>6. task[conn] \notin {"connect", "announce"}
      BY <2>2, <2>3 DEF Shown
    <3>7. task[conn] \in {"read", "forward"} =>
            (Len(r) + 1) + (Len(ch) - 1) + Len(wire[conn]) = wrote[conn] + 1
      <4>1. task[conn] \in {"read", "forward"} =>
              Len(r) + Len(ch) + Len(wire[conn]) = wrote[conn] + 1
        BY <2>3 DEF Shown
      <4>2. Len(r) \in Nat /\ Len(ch) \in Nat
        BY <3>1, <3>2
      <4> SUFFICES ASSUME task[conn] \in {"read", "forward"}
                   PROVE  (Len(r) + 1) + (Len(ch) - 1) + Len(wire[conn]) = wrote[conn] + 1
        OBVIOUS
      <4>3. Len(r) + Len(ch) + Len(wire[conn]) = wrote[conn] + 1
        BY <4>1
      <4> DEFINE a == Len(r)
                 b == Len(ch)
                 l == Len(wire[conn])
                 m == wrote[conn]
      <4>4. a \in Nat /\ b \in Nat /\ l \in Nat /\ m \in Nat /\ a + b + l = m + 1
        BY <2>4, <4>2, <4>3
      <4> HIDE DEF a, b, l, m
      <4>5. (a + 1) + (b - 1) + l = m + 1
        BY <4>4
      <4> QED
        BY <4>5 DEF a, b, l, m
    <3> QED
      BY <3>1, <3>2, <3>4, <3>5, <3>6, <3>7 DEF Shown
  <2>6. channel'[conn] = Tail(ch) /\ received' = Append(r, Head(ch))
    BY <1>1, <2>1 DEF ch, r, SessionTyped
  <2>7. Session0'
    BY <2>1, <2>5, <2>6 DEF Session0, serverVars
  <2>8. Wires' /\ NoneLeft'
    BY <1>2, <2>1 DEF SessionInv, Wires, NoneLeft, serverVars
  <2> QED
    BY <2>7, <2>8 DEF SessionInv
<1>5. ASSUME Session' = Session, phase' # "exited", UNCHANGED serverVars
      PROVE  SessionInv'
  BY <1>2, <1>5 DEF Session, taskVars, serverVars, SessionInv, Wires, Session0, NoneLeft
<1>6. ASSUME Disconnect, phase' # "exited", UNCHANGED serverVars
      PROVE  SessionInv'
  BY <1>2, <1>6 DEF Disconnect, serverVars, SessionInv, Wires, Session0, NoneLeft
<1>7. CASE UserLoadsCsv
  <2>1. /\ UNCHANGED <<conn, received, taskVars, serverVars>> /\ phase' = "check"
        /\ state' \notin {"Connecting", "Reconnecting"}
    BY <1>7 DEF UserLoadsCsv, AtKey, GoOn
  <2> QED
    BY <1>2, <2>1 DEF taskVars, serverVars, SessionInv, Wires, Session0, NoneLeft
<1>8. CASE Start \/ DrainEnds \/ Check \/ NoKey \/ UserConnects \/ UserExits
           \/ UserDisconnects
  <2>1. phase' # "exited" /\ UNCHANGED serverVars
    BY <1>8 DEF Start, DrainEnds, Check, NoKey, UserConnects, UserExits, UserDisconnects,
       AtKey, GoOn
  <2>2. Dial("Connecting") \/ Dial("Reconnecting") \/ Disconnect \/ Session' = Session
    BY <1>8 DEF Start, DrainEnds, Check, NoKey, UserConnects, UserExits, UserDisconnects
  <2> QED
    BY <1>2, <1>5, <1>6, <2>1, <2>2, DialKeeps DEF States
<1> QED
  BY <1>3, <1>4, <1>7, <1>8 DEF AppStep

LEMMA ServerKeeps == ASSUME Typed, SessionInv, ServerStep PROVE SessionInv'
<1>1. SessionTyped /\ LoopTyped
  BY TypedMeans
<1>2. ASSUME NEW c \in Conns, ServerWrites(c) PROVE SessionInv'
  <2> DEFINE w == wire[c]
             n == wrote[c]
             x == Append(w, n + 1)
  <2>1. /\ c \in open /\ wrote' = [wrote EXCEPT ![c] = n + 1]
        /\ wire' = [wire EXCEPT ![c] = x]
        /\ UNCHANGED <<appVars, taskVars, open>>
    BY <1>2 DEF ServerWrites
  <2>2. w \in Seq(Nat) /\ n \in Nat
    BY <1>1 DEF LoopTyped
  <2>3. phase # "exited" /\ Wire(task[c], w, n, TRUE)
    BY <2>1 DEF SessionInv, NoneLeft, Wires
  <2>4. /\ Len(x) = Len(w) + 1 /\ Len(w) \in Nat
        /\ \A i \in 1..Len(w) : x[i] = w[i]
        /\ x[Len(w) + 1] = n + 1
    BY <2>2, AppendProperties, LenProperties
  <2>5. /\ wire'[c] = x /\ wrote'[c] = n + 1
        /\ \A d \in Conns \ {c} : wire'[d] = wire[d] /\ wrote'[d] = wrote[d]
    BY <1>1, <2>1 DEF LoopTyped
  <2> HIDE DEF w, n, x
  <2>6. Wire(task[c], x, n + 1, TRUE)
    <3>1. \A i \in 1..Len(x) : x[i] = (n + 1) - Len(x) + i
      <4> SUFFICES ASSUME NEW i \in 1..Len(x)
                   PROVE  x[i] = (n + 1) - Len(x) + i
        OBVIOUS
      <4>1. i \in 1..Len(w) \/ i = Len(w) + 1
        BY <2>4
      <4> QED
        BY <2>2, <2>3, <2>4, <4>1 DEF Wire
    <3>2. x # <<>>
      BY <2>4
    <3>3. Len(x) <= n + 1
      BY <2>2, <2>3, <2>4 DEF Wire
    <3>4. task[c] = "announce" => Len(x) = n + 1
      BY <2>3, <2>4 DEF Wire
    <3> QED
      BY <2>3, <3>1, <3>2, <3>3, <3>4 DEF Wire
  <2>7. Wires'
    BY <2>1, <2>3, <2>5, <2>6 DEF SessionInv, Wires, appVars, taskVars
  <2>8. ASSUME conn = c
        PROVE  Shown(task[c], received, channel[c], w, n) =>
                 Shown(task[c], received, channel[c], x, n + 1)
    <3>1. received \in Seq(Nat) /\ channel[c] \in Seq(Nat)
      BY <1>1 DEF SessionTyped
    <3>2. Len(received) \in Nat /\ Len(channel[c]) \in Nat
      BY <3>1, LenProperties
    <3>3. ASSUME Shown(task[c], received, channel[c], w, n), task[c] \in {"read", "forward"}
          PROVE  Len(received) + Len(channel[c]) + Len(x) = (n + 1) + 1
      <4>1. Len(received) + Len(channel[c]) + Len(w) = n + 1
        BY <3>3 DEF Shown
      <4>2. Len(w) \in Nat /\ n \in Nat
        BY <2>2, <2>4
      <4> DEFINE a == Len(received)
                 b == Len(channel[c])
                 l == Len(w)
      <4>3. a \in Nat /\ b \in Nat /\ l \in Nat /\ n \in Nat /\ a + b + l = n + 1
        BY <3>2, <4>1, <4>2
      <4> HIDE DEF a, b, l
      <4>4. a + b + (l + 1) = (n + 1) + 1
        BY <4>3
      <4> QED
        BY <2>4, <4>4 DEF a, b, l
    <3> QED
      BY <3>3 DEF Shown
  <2>9. Session0'
    BY <1>1, <2>1, <2>5, <2>8 DEF SessionInv, Session0, appVars, taskVars, SessionTyped, w, n
  <2> QED
    BY <2>1, <2>3, <2>7, <2>9 DEF SessionInv, NoneLeft, appVars
<1>3. CASE ServerStarts \/ ServerDies
  <2>1. UNCHANGED <<appVars, taskVars, wire, wrote>> /\ open' \subseteq open
    BY <1>3 DEF ServerStarts, ServerDies
  <2>2. Wires'
    BY <2>1 DEF SessionInv, Wires, Wire, appVars, taskVars
  <2> QED
    BY <2>1, <2>2 DEF SessionInv, Session0, NoneLeft, appVars, taskVars
<1> QED
  BY <1>2, <1>3 DEF ServerStep

LEMMA TaskKeeps ==
  ASSUME Typed, SessionInv, NEW c \in Conns, TaskStep(c)
  PROVE  SessionInv'
<1> DEFINE ch == channel[c]
           w == wire[c]
           n == wrote[c]
<1>1. SessionTyped /\ LoopTyped
  BY TypedMeans
<1>2. task[c] # "ended"
  BY DEF TaskStep, TcpConnects, TcpFails, Announce, HearStop, ReadBatch, ReadFails,
     Forward, ForwardFails
<1>3. phase # "exited" /\ Wire(task[c], w, n, c \in open)
  BY <1>2 DEF SessionInv, NoneLeft, Wires
<1>4. /\ ch \in Seq(Nat) /\ w \in Seq(Nat) /\ n \in Nat /\ received \in Seq(Nat)
      /\ Len(ch) \in Nat /\ Len(w) \in Nat /\ Len(received) \in Nat
  BY <1>1, LenProperties DEF SessionTyped, LoopTyped
<1>5. conn = c => Shown(task[c], received, ch, w, n)
  BY SessionAssumption DEF SessionInv, Session0
\* What is to be shown of c; the other tasks are not touched.
<1>6. ASSUME NEW t, NEW v, NEW m, NEW q,
             task' = [task EXCEPT ![c] = t], UNCHANGED appVars,
             wire'[c] = v, wrote'[c] = m, channel'[c] = q,
             \A d \in Conns \ {c} : /\ wire'[d] = wire[d] /\ wrote'[d] = wrote[d]
                                    /\ channel'[d] = channel[d]
                                    /\ d \in open' <=> d \in open,
             Wire(t, v, m, c \in open'),
             conn = c => Shown(t, received, q, v, m)
      PROVE  SessionInv'
  <2>1. task'[c] = t /\ \A d \in Conns \ {c} : task'[d] = task[d]
    BY <1>1, <1>6 DEF SessionTyped
  <2>2. Wires'
    BY <1>6, <1>3, <2>1 DEF SessionInv, Wires, appVars
  <2>3. Session0'
    BY <1>1, <1>6, <2>1 DEF SessionInv, Session0, SessionTyped, appVars
  <2> QED
    BY <1>3, <1>6, <2>2, <2>3 DEF SessionInv, NoneLeft, appVars
<1>7. CASE TaskEnds(c)
  <2>1. /\ wire'[c] = <<>> /\ wrote'[c] = 0 /\ channel'[c] = ch
        /\ task' = [task EXCEPT ![c] = "ended"] /\ UNCHANGED appVars
        /\ c \notin open'
        /\ \A d \in Conns \ {c} : /\ wire'[d] = wire[d] /\ wrote'[d] = wrote[d]
                                  /\ channel'[d] = channel[d]
                                  /\ d \in open' <=> d \in open
    BY <1>1, <1>7 DEF TaskEnds, SessionTyped, LoopTyped
  <2>2. Wire("ended", <<>>, 0, c \in open')
    BY <2>1 DEF Wire
  <2>3. conn = c => Shown("ended", received, ch, <<>>, 0)
    BY <1>5 DEF Shown
  <2> HIDE DEF ch, w, n
  <2> QED
    BY <1>6, <2>1, <2>2, <2>3
<1>8. CASE TcpConnects(c)
  <2>1. /\ wire'[c] = w /\ wrote'[c] = n /\ channel'[c] = ch /\ task[c] = "connect"
        /\ task' = [task EXCEPT ![c] = "announce"] /\ UNCHANGED appVars
        /\ \A d \in Conns \ {c} : /\ wire'[d] = wire[d] /\ wrote'[d] = wrote[d]
                                  /\ channel'[d] = channel[d]
                                  /\ d \in open' <=> d \in open
    BY <1>1, <1>8 DEF TcpConnects, TaskGoes
  <2>2. Wire("announce", w, n, c \in open')
    BY <1>3, <2>1 DEF Wire
  <2>3. conn = c => Shown("announce", received, ch, w, n)
    BY <1>5, <2>1 DEF Shown
  <2> HIDE DEF ch, w, n
  <2> QED
    BY <1>6, <2>1, <2>2, <2>3
<1>9. CASE ReadBatch(c)
  <2>1. /\ wire'[c] = w /\ wrote'[c] = n /\ channel'[c] = ch /\ task[c] = "read" /\ w # <<>>
        /\ task' = [task EXCEPT ![c] = "forward"] /\ UNCHANGED appVars
        /\ \A d \in Conns : /\ wire'[d] = wire[d] /\ wrote'[d] = wrote[d]
                            /\ channel'[d] = channel[d]
                            /\ d \in open' <=> d \in open
    BY <1>1, <1>9 DEF ReadBatch, TaskGoes, serverVars
  <2>2. Wire("forward", w, n, c \in open')
    BY <1>3, <2>1 DEF Wire
  <2>3. conn = c => Shown("forward", received, ch, w, n)
    BY <1>5, <2>1 DEF Shown
  <2> HIDE DEF ch, w, n
  <2> QED
    BY <1>6, <2>1, <2>2, <2>3
<1>10. CASE Announce(c)
  <2>1. /\ wire'[c] = w /\ wrote'[c] = n /\ task[c] = "announce"
        /\ task' = [task EXCEPT ![c] = "read"] /\ UNCHANGED appVars
        /\ \A d \in Conns \ {c} : /\ wire'[d] = wire[d] /\ wrote'[d] = wrote[d]
                                  /\ channel'[d] = channel[d]
                                  /\ d \in open' <=> d \in open
        /\ channel'[c] = IF c = conn THEN Append(ch, 0) ELSE ch
    BY <1>1, <1>10 DEF Announce, TaskGoes, Send, serverVars, SessionTyped
  <2>2. Wire("read", w, n, c \in open')
    BY <1>3, <2>1 DEF Wire
  <2>3. conn = c => Shown("read", received, Append(ch, 0), w, n)
    <3> SUFFICES ASSUME conn = c PROVE Shown("read", received, Append(ch, 0), w, n)
      OBVIOUS
    <3>1. received = <<>> /\ ch = <<>> /\ Len(w) = n
      BY <1>3, <1>5, <2>1 DEF Shown, Wire
    <3>2. Append(ch, 0) = <<0>> /\ Len(<<0>>) = 1 /\ Len(received) = 0
      BY <3>1
    <3> QED
      BY <1>4, <3>1, <3>2 DEF Shown
  <2> HIDE DEF ch, w, n
  <2> QED
    BY <1>6, <2>1, <2>2, <2>3
<1>11. CASE Forward(c)
  <2>1. /\ conn = c /\ task[c] = "forward"
        /\ wire'[c] = Tail(w) /\ wrote'[c] = n /\ channel'[c] = Append(ch, Head(w))
        /\ task' = [task EXCEPT ![c] = "read"] /\ UNCHANGED appVars
        /\ \A d \in Conns \ {c} : /\ wire'[d] = wire[d] /\ wrote'[d] = wrote[d]
                                  /\ channel'[d] = channel[d]
                                  /\ d \in open' <=> d \in open
    BY <1>1, <1>11 DEF Forward, TaskGoes, Send, SessionTyped, LoopTyped
  <2>2. w # <<>>
    BY <1>3, <2>1 DEF Wire
  <2> HIDE DEF ch, w, n
  <2>3. /\ Len(Tail(w)) = Len(w) - 1 /\ Len(w) \in Nat \ {0} /\ Head(w) = w[1]
        /\ Head(w) \in Nat
        /\ \A i \in 1..Len(Tail(w)) : Tail(w)[i] = w[i + 1]
    BY <1>4, <2>2, HeadTailProperties, EmptySeq
  <2>4. /\ Len(Append(ch, Head(w))) = Len(ch) + 1
        /\ \A i \in 1..Len(ch) : Append(ch, Head(w))[i] = ch[i]
        /\ Append(ch, Head(w))[Len(ch) + 1] = Head(w)
    BY <1>4, <2>3, AppendProperties
  <2>5. Len(w) <= n /\ \A i \in 1..Len(w) : w[i] = n - Len(w) + i
    BY <1>3 DEF Wire
  <2>6. Wire("read", Tail(w), n, c \in open')
    <3>1. \A i \in 1..Len(Tail(w)) : Tail(w)[i] = n - Len(Tail(w)) + i
      <4> SUFFICES ASSUME NEW i \in 1..Len(Tail(w))
                   PROVE  Tail(w)[i] = n - Len(Tail(w)) + i
        OBVIOUS
      <4>1. i + 1 \in 1..Len(w) /\ Tail(w)[i] = w[i + 1]
        BY <2>3
      <4>2. w[i + 1] = n - Len(w) + (i + 1)
        BY <2>5, <4>1
      <4> QED
        BY <1>4, <2>3, <4>1, <4>2
    <3>2. Len(Tail(w)) <= n
      BY <1>4, <2>3, <2>5
    <3> QED
      BY <3>1, <3>2 DEF Wire
  <2>7. Shown("read", received, Append(ch, Head(w)), Tail(w), n)
    <3>1. /\ \A i \in 1..Len(received) : received[i] = i - 1
          /\ \A i \in 1..Len(ch) : ch[i] = Len(received) + i - 1
          /\ Len(received) + Len(ch) + Len(w) = n + 1
      BY <1>5, <2>1 DEF Shown
    <3>2. Head(w) = Len(received) + Len(ch)
      <4>1. 1 \in 1..Len(w)
        BY <2>3
      <4>2. Head(w) = n - Len(w) + 1
        BY <2>3, <2>5, <4>1
      <4> DEFINE a == Len(received)
                 b == Len(ch)
                 l == Len(w)
      <4>3. a \in Nat /\ b \in Nat /\ l \in Nat /\ n \in Nat /\ a + b + l = n + 1
        BY <1>4, <3>1
      <4> HIDE DEF a, b, l
      <4>4. n - l + 1 = a + b
        BY <4>3
      <4> QED
        BY <4>2, <4>4 DEF a, b, l
    <3>3. \A i \in 1..(Len(ch) + 1) :
            Append(ch, Head(w))[i] = Len(received) + i - 1
      <4> SUFFICES ASSUME NEW i \in 1..(Len(ch) + 1)
                   PROVE  Append(ch, Head(w))[i] = Len(received) + i - 1
        OBVIOUS
      <4>1. CASE i \in 1..Len(ch)
        BY <2>4, <3>1, <4>1
      <4>2. CASE i = Len(ch) + 1
        BY <1>4, <2>4, <3>2, <4>2
      <4> QED
        BY <1>4, <4>1, <4>2
    <3>4. Len(received) + (Len(ch) + 1) + (Len(w) - 1) = n + 1
      BY <1>4, <3>1
    <3> QED
      BY <2>3, <2>4, <3>1, <3>3, <3>4 DEF Shown
  <2> QED
    BY <1>6, <2>1, <2>6, <2>7
<1> QED
  BY <1>7, <1>8, <1>9, <1>10, <1>11
     DEF TaskStep, TcpFails, HearStop, ReadFails, ForwardFails

LEMMA InitKeeps == Init => SessionInv
<1> SUFFICES ASSUME Init PROVE SessionInv
  OBVIOUS
<1>1. phase = "start" /\ conn = None
      /\ \A c \in Conns : task[c] = "ended" /\ wire[c] = <<>> /\ wrote[c] = 0 /\ c \notin open
  BY DEF Init
<1>2. ASSUME NEW c \in Conns
      PROVE  Wire(task[c], wire[c], wrote[c], c \in open)
  <2>1. Len(<<>>) = 0
    BY EmptySeq
  <2> QED
    BY <1>1, <2>1 DEF Wire
<1> QED
  BY <1>1, <1>2 DEF SessionInv, Wires, Session0, NoneLeft

-----------------------------------------------------------------------------
(* Theorems *)

LEMMA SessionSafe == Spec => [](Typed /\ SessionInv)
<1>1. Typed /\ SessionInv /\ [Next]_vars => (Typed /\ SessionInv)'
  <2> SUFFICES ASSUME Typed, SessionInv, [Next]_vars PROVE Typed' /\ SessionInv'
    OBVIOUS
  <2>1. CASE UNCHANGED vars
    <3>1. Typed'
      BY <2>1 DEF vars, appVars, taskVars, serverVars, Typed, TypeOK
    <3>2. SessionInv'
      BY <2>1 DEF vars, appVars, taskVars, serverVars, SessionInv, Wires, Session0, NoneLeft
    <3> QED
      BY <3>1, <3>2
  <2>2. ASSUME NEW c \in Conns, TaskStep(c) PROVE Typed' /\ SessionInv'
    <3>1. task[c] = "forward" => wire[c] # <<>>
      BY DEF SessionInv, NoneLeft, Wires, Wire
    <3> QED
      BY <2>2, <3>1, TaskTyped, TaskKeeps
  <2> QED
    BY <2>1, <2>2, AppTyped, AppKeeps, ServerTyped, ServerKeeps DEF Next
<1> QED
  BY <1>1, InitTyped, InitKeeps, PTL DEF Spec

(***************************************************************************)
(* The types of the session; no channel ever holds more than Capacity.     *)
(***************************************************************************)
THEOREM SessionTypes == Spec => []TypeOK
BY SessionSafe, PTL DEF Typed

(***************************************************************************)
(* Whatever the user, the server and the tasks of earlier sessions do, a   *)
(* session shows the batches of its own connection, each once and in       *)
(* order, and loses none that is not lost on the wire.                     *)
(***************************************************************************)
THEOREM SessionKeepsOrder == Spec => []SessionInOrder
<1>1. Typed /\ SessionInv => SessionInOrder
  <2> SUFFICES ASSUME Typed, SessionInv, conn # None
               PROVE  SessionInOrder
    BY DEF SessionInOrder
  <2> DEFINE r == received
             ch == channel[conn]
             w == wire[conn]
             n == wrote[conn]
             known == r \o ch
             written == known \o w
  <2>1. /\ r \in Seq(Nat) /\ ch \in Seq(Nat) /\ w \in Seq(Nat) /\ n \in Nat
        /\ Len(r) \in Nat /\ Len(ch) \in Nat /\ Len(w) \in Nat
    BY LenProperties DEF Typed, TypeOK
  <2>2. /\ Shown(task[conn], r, ch, w, n)
        /\ received # <<>> => state \notin {"Connecting", "Reconnecting"}
    BY DEF SessionInv, Session0
  <2>3. task[conn] \in {"read", "forward"} =>
          Len(w) <= n /\ \A i \in 1..Len(w) : w[i] = n - Len(w) + i
    BY DEF SessionInv, Wires, Wire, NoneLeft, Typed, TypeOK
  <2>4. /\ known \in Seq(Nat) /\ Len(known) = Len(r) + Len(ch)
        /\ \A i \in 1..(Len(r) + Len(ch)) :
             known[i] = IF i <= Len(r) THEN r[i] ELSE ch[i - Len(r)]
    BY <2>1, ConcatProperties
  <2>5. DOMAIN known = 1..(Len(r) + Len(ch))
    BY <2>4, LenProperties
  <2> HIDE DEF r, ch, w, n, known
  <2>6. \A i \in 1..(Len(r) + Len(ch)) : known[i] = i - 1
    <3> SUFFICES ASSUME NEW i \in 1..(Len(r) + Len(ch)) PROVE known[i] = i - 1
      OBVIOUS
    <3>1. CASE i <= Len(r)
      <4>1. i \in 1..Len(r) /\ known[i] = r[i]
        BY <2>1, <2>4, <3>1
      <4> QED
        BY <2>2, <4>1 DEF Shown
    <3>2. CASE ~(i <= Len(r))
      <4>1. i - Len(r) \in 1..Len(ch) /\ known[i] = ch[i - Len(r)]
        BY <2>1, <2>4, <3>2
      <4>2. ch[i - Len(r)] = Len(r) + (i - Len(r)) - 1
        BY <2>2, <4>1 DEF Shown
      <4> QED
        BY <2>1, <4>1, <4>2
    <3> QED
      BY <3>1, <3>2
  <2>7. task[conn] \in {"read", "forward"} => written = [i \in 1..n + 1 |-> i - 1]
    <3> SUFFICES ASSUME task[conn] \in {"read", "forward"}
                 PROVE  written = [i \in 1..n + 1 |-> i - 1]
      OBVIOUS
    <3> DEFINE k == Len(r) + Len(ch)
               e == [i \in 1..n + 1 |-> i - 1]
    <3>1. k + Len(w) = n + 1 /\ k \in Nat /\ Len(known) = k
      BY <2>1, <2>2, <2>4 DEF Shown
    <3>2. /\ written \in Seq(Nat) /\ Len(written) = k + Len(w)
          /\ \A i \in 1..(k + Len(w)) :
               written[i] = IF i <= k THEN known[i] ELSE w[i - k]
      <4>1. /\ known \o w \in Seq(Nat) /\ Len(known \o w) = Len(known) + Len(w)
            /\ \A i \in 1..(Len(known) + Len(w)) :
                 (known \o w)[i] = IF i <= Len(known) THEN known[i] ELSE w[i - Len(known)]
        <5>1. known \in Seq(Nat) /\ w \in Seq(Nat)
          BY <2>1, <2>4
        <5> QED
          BY <5>1, ConcatProperties
      <4> QED
        BY <3>1, <4>1
    <3>3. e \in [1..n + 1 -> Nat]
      BY <2>1
    <3>4. \A i \in 1..n + 1 : e[i] = i - 1
      OBVIOUS
    <3>5. e \in Seq(Nat) /\ Len(e) = n + 1
      <4>1. n + 1 \in Nat /\ DOMAIN e = 1..n + 1
        BY <2>1
      <4> HIDE DEF e
      <4>2. e \in Seq(Nat)
        BY <3>3, <4>1, SeqDef
      <4>3. DOMAIN e = 1..Len(e) /\ Len(e) \in Nat
        BY <4>2, LenProperties
      <4> QED
        BY <4>1, <4>2, <4>3
    <3> HIDE DEF e, k, written
    <3>6. \A i \in 1..(k + Len(w)) : written[i] = e[i]
      <4> SUFFICES ASSUME NEW i \in 1..(k + Len(w)) PROVE written[i] = i - 1
        BY <3>1, <3>4
      <4>1. CASE i <= k
        <5>1. i \in 1..(Len(r) + Len(ch))
          BY <2>1, <4>1 DEF k
        <5> QED
          BY <2>6, <3>2, <4>1, <5>1
      <4>2. CASE ~(i <= k)
        <5>1. i - k \in 1..Len(w) /\ written[i] = w[i - k]
          BY <2>1, <3>1, <3>2, <4>2
        <5>2. w[i - k] = n - Len(w) + (i - k)
          BY <2>3, <5>1
        <5>3. i \in Nat /\ k \in Nat /\ n \in Nat /\ Len(w) \in Nat /\ k + Len(w) = n + 1
          BY <2>1, <3>1
        <5>4. n - Len(w) + (i - k) = i - 1
          BY <5>3
        <5> QED
          BY <5>1, <5>2, <5>4
      <4> QED
        BY <4>1, <4>2
    <3>7. written = e
      BY <3>1, <3>2, <3>5, <3>6, SeqEqual
    <3> QED
      BY <3>7 DEF e
  <2> QED
    BY <2>2, <2>5, <2>6, <2>7 DEF SessionInOrder, r, ch, w, n, known
<1> QED
  BY <1>1, SessionSafe, PTL
=============================================================================

----------------------------- MODULE EngineLoop -----------------------------
(***************************************************************************)
(* The engine's main loop with its window and its application layer        *)
(* (engine/src/toast/engine.cpp, ffi/engine.h, window/sdl_window.cpp,      *)
(* window/window_events.hpp), composed with the event queue: its main      *)
(* thread is the Poller of EventQueue, and every send and poll below is    *)
(* one of EventQueue's steps.                                              *)
(*                                                                         *)
(* A host creates the engine and calls toast_tick until toast_should_close *)
(* says so.  A tick pumps what SDL has, as engine events; polls the event  *)
(* system; and ticks the application.  Event callbacks and applications    *)
(* may send events and push application layers, other threads may send.    *)
(* An application opens windows from its own code, not from a callback     *)
(* (EventDispatch shows what a listener destroyed there means).            *)
(* Coordinates, key codes and file names are left out.                     *)
(***************************************************************************)
EXTENDS EventQueue, Integers

CONSTANTS Apps,           \* application layers
          NoApp,          \* the null pointer
          SdlEvents,      \* SDL events that may happen: [type, windowID, data]
          AppEvents,      \* events that application code and other threads send
          DestroyMayPush, \* whether IApplication::destroy pushes layers
          NDEBUG,         \* whether the build is a release build
          SdlLimit, WindowLimit, PushLimit  \* bounds of the model

ASSUME EngineAssumption ==
  /\ NoApp \notin Apps
  /\ \A e \in SdlEvents : e.windowID \in Nat /\ e.data \in BOOLEAN
  /\ SdlLimit \in Nat /\ WindowLimit \in Nat /\ PushLimit \in Nat
  /\ DestroyMayPush \in BOOLEAN /\ NDEBUG \in BOOLEAN

VARIABLES
  at,        \* where the main thread is in the host's loop
  window,    \* SDL's id of the engine's window, NoWindow before there is one
  closing,   \* m.should_close of that window
  opened,    \* how many windows were opened
  sdl,       \* SDL's event queue
  happened,  \* history: how many SDL events there were
  payload,   \* history: payload[n] is the event numbered n
  pumped,    \* history: the newest event the window sent
  active,    \* active_application
  calls,     \* the application's functions under way, the innermost first
  live,      \* history: the layers begun and not destroyed since
  pushes     \* history: how often a layer was pushed

windowVars == <<window, closing, opened>>
sdlVars == <<sdl, happened, pumped>>
layerVars == <<active, calls, live, pushes>>
engineVars == <<vars, at, windowVars, sdlVars, payload, layerVars>>

NoWindow == -1

\* "pump", "poll" and "app" are the three parts of a tick.
Places == {"none", "host", "pump", "poll", "app", "closed", "destroyed", "crashed"}

\* The process has died, or the host ticks no more.
Halted == at \in {"closed", "destroyed", "crashed"}

EngineInit == /\ Init
              /\ at = "none"
              /\ window = NoWindow
              /\ closing = FALSE
              /\ opened = 0
              /\ sdl = <<>>
              /\ happened = 0
              /\ payload = <<>>
              /\ pumped = 0
              /\ active = NoApp
              /\ calls = <<>>
              /\ live = {}
              /\ pushes = 0

-----------------------------------------------------------------------------
(* The window *)

\* What SDLWindow::pollEvents sends for each type of SDL event.
Translation ==
  [QUIT |-> "ExitApplication", WINDOW_CLOSE_REQUESTED |-> "WindowClose",
   KEY_DOWN |-> "WindowKey", KEY_UP |-> "WindowKey", TEXT_INPUT |-> "WindowChar",
   MOUSE_MOTION |-> "WindowMousePosition", MOUSE_BUTTON_DOWN |-> "WindowMouseButton",
   MOUSE_BUTTON_UP |-> "WindowMouseButton", MOUSE_WHEEL |-> "WindowMouseScroll",
   DROP_FILE |-> "WindowDrop", DROP_TEXT |-> "WindowDrop",
   WINDOW_RESIZED |-> "WindowResize"]

\* The constructors of window_events.hpp; only WindowClose names its window.
Event(type, id) == [type |-> type, window |-> IF type = "WindowClose" THEN id ELSE 0]

\* Types that may come without data: empty text, a drop without a name.
MayBeEmpty == {"TEXT_INPUT", "DROP_FILE", "DROP_TEXT"}

\* The pump drops what is for another window and what it has no event for.
IsSent(e) == /\ e.windowID = window
             /\ e.type \in DOMAIN Translation
             /\ e.type \in MayBeEmpty => e.data

(***************************************************************************)
(* SDL puts an event in its queue.  An SDL_EVENT_QUIT has no windowID: the *)
(* bytes the pump compares are whatever they are.  0 is the id of no       *)
(* window.                                                                 *)
(***************************************************************************)
SdlEvent(e) ==
  /\ at # "none" /\ ~Halted
  /\ happened < SdlLimit
  /\ happened' = happened + 1
  /\ sdl' = Append(sdl, e)
  /\ UNCHANGED <<vars, at, windowVars, payload, pumped, layerVars>>

\* A function of the application runs, or an event's callback does.
UserCode == calls # <<>> \/ poller = "callback"

\* The new window replaces the old one.  If SDL makes none, TOAST_ASSERT is
\* not compiled (no build file defines _DEBUG) and the id is that of null.
OpenWindow(made) ==
  /\ at \in {"host", "app"}
  /\ PollerFree
  /\ opened < WindowLimit
  /\ opened' = opened + 1
  /\ window' = IF made THEN opened + 1 ELSE 0
  /\ closing' = FALSE
  /\ UNCHANGED <<vars, at, sdlVars, payload, layerVars>>

\* The callbacks of the window, unless another one has consumed the event.
AsksToClose(e) == \/ e.type = "ExitApplication"
                  \/ e.type = "WindowClose" /\ e.window = window

\* Slip: the id is not compared.
HearsAnyClose(e) ==
  closing' \in {closing, closing \/ (window # NoWindow
                                     /\ e.type \in {"ExitApplication", "WindowClose"})}

WindowHears(e) == closing' \in {closing, closing \/ (window # NoWindow /\ AsksToClose(e))}

-----------------------------------------------------------------------------
(* The application layer *)

Frame(function, app) == [function |-> function, app |-> app]

\* The rest of pushApplicationLayer, once no other layer is active.
Activate(app, frames) ==
  /\ active' = app
  /\ calls' = IF app = NoApp THEN frames ELSE <<Frame("begin", app)>> \o frames
  /\ live' = live \cup ({app} \ {NoApp})

\* Slip: the new layer is made active before the old one is destroyed.
PushWithoutDestroy(app) == Activate(app, calls)

\* pushApplicationLayer; `app' of a destroy frame is the layer to come.
PushFrom(app) ==
  IF active \in {NoApp, app} THEN Activate(app, calls)
  ELSE /\ calls' = <<Frame("destroy", app)>> \o calls
       /\ live' = live \ {active}
       /\ UNCHANGED active

PushLayer(app) ==
  /\ at = "host" \/ UserCode
  /\ PollerFree
  /\ ~Halted
  /\ ~DestroyMayPush /\ calls # <<>> => Head(calls).function # "destroy"
  /\ pushes < PushLimit
  /\ pushes' = pushes + 1
  /\ PushFrom(app)
  /\ UNCHANGED <<vars, at, windowVars, sdlVars, payload>>

\* A function of the application returns; the tick ends with its tick().
CallReturns ==
  /\ calls # <<>>
  /\ PollerFree
  /\ IF Head(calls).function = "destroy"
     THEN Activate(Head(calls).app, Tail(calls)) /\ UNCHANGED at
     ELSE /\ calls' = Tail(calls)
          /\ at' = IF at = "app" /\ Tail(calls) = <<>> THEN "host" ELSE at
          /\ UNCHANGED <<active, live>>
  /\ UNCHANGED <<vars, windowVars, sdlVars, payload, pushes>>

-----------------------------------------------------------------------------
(* The host and Engine::tick *)

\* toast_create
Create == /\ at = "none"
          /\ at' = "host"
          /\ UNCHANGED <<vars, windowVars, sdlVars, payload, layerVars>>

\* toast_should_close: nobody asks the window.
ShouldClose == FALSE

InHost == at = "host" /\ calls = <<>>

\* Slip: only a tick without a window goes on to the events by itself.
TickWithoutPump == /\ InHost
                   /\ BeginPoll
                   /\ at' = "poll"
                   /\ UNCHANGED <<windowVars, sdlVars, payload, layerVars>>

\* A tick with no window: a debug build goes on to the events, a release build
\* calls through the null pointer.
Tick == /\ InHost
        /\ IF ShouldClose THEN at' = "closed" /\ UNCHANGED vars
           ELSE IF window # NoWindow THEN at' = "pump" /\ UNCHANGED vars
           ELSE IF NDEBUG THEN at' = "crashed" /\ UNCHANGED vars
           ELSE at' = "poll" /\ BeginPoll
        /\ UNCHANGED <<windowVars, sdlVars, payload, layerVars>>

\* toast_destroy: ~Engine is defaulted and leaves what m points to alone.
HostDestroys == /\ InHost
                /\ at' = "destroyed"
                /\ UNCHANGED <<vars, windowVars, sdlVars, payload, layerVars>>

\* The loop over SDL_PollEvent.
PumpDrops == /\ at = "pump" /\ PollerFree
             /\ sdl # <<>> /\ ~IsSent(Head(sdl))
             /\ sdl' = Tail(sdl)
             /\ UNCHANGED <<vars, at, windowVars, happened, pumped, payload,
                            layerVars>>

PumpSends == /\ at = "pump"
             /\ sdl # <<>> /\ IsSent(Head(sdl))
             /\ Lock(Poller)
             /\ UNCHANGED <<at, windowVars, sdlVars, payload, layerVars>>

\* Slip: the application is ticked first.
PumpEndsInTick == /\ at = "pump" /\ PollerFree
                  /\ sdl = <<>>
                  /\ IF active = NoApp THEN at' = "host" /\ UNCHANGED calls
                     ELSE at' = "app" /\ calls' = <<Frame("tick", active)>>
                  /\ UNCHANGED <<vars, windowVars, sdlVars, payload, active, live, pushes>>

PumpEnds == /\ at = "pump"
            /\ sdl = <<>>
            /\ BeginPoll
            /\ at' = "poll"
            /\ UNCHANGED <<windowVars, sdlVars, payload, layerVars>>

\* event::pollEvents, inside which callbacks run, and then the application.
TickApplication ==
  IF active = NoApp THEN at' = "host" /\ UNCHANGED calls
  ELSE at' = "app" /\ calls' = <<Frame("tick", active)>>

Poll == /\ at = "poll"
        /\ calls = <<>>
        /\ UNCHANGED <<window, opened, sdlVars, payload, active, live, pushes>>
        /\ \/ Swap /\ UNCHANGED <<closing, at, calls>>
           \/ Notify /\ WindowHears(payload[queue[idx][pos]]) /\ UNCHANGED <<at, calls>>
           \/ Destroy /\ UNCHANGED <<closing, at, calls>>
           \/ Reset /\ TickApplication /\ UNCHANGED closing

-----------------------------------------------------------------------------
(* Sending *)

\* Code of the application sends on the main thread; other threads at any time.
\* The bound leaves room for what the window will send.
SendBegins(s) == /\ at # "none" /\ at # "crashed"
                 /\ s = Poller => UserCode
                 /\ sent + SdlLimit < EventLimit
                 /\ Lock(s)
                 /\ UNCHANGED <<at, windowVars, sdlVars, payload, layerVars>>

Pumping(s) == s = Poller /\ at = "pump"

SendGoesOn(s) ==
  \/ /\ Allocate(s)
     /\ IF Pumping(s)
        THEN /\ payload' = Append(payload, Event(Translation[Head(sdl).type],
                                                 Head(sdl).windowID))
             /\ pumped' = sent + 1
        ELSE /\ \E e \in AppEvents : payload' = Append(payload, e)
             /\ UNCHANGED pumped
     /\ UNCHANGED <<at, windowVars, sdl, happened, layerVars>>
  \/ /\ Construct(s)
     /\ sdl' = IF Pumping(s) THEN Tail(sdl) ELSE sdl
     /\ UNCHANGED <<at, windowVars, happened, payload, pumped, layerVars>>

-----------------------------------------------------------------------------

\* What the main thread does by itself once a tick or a call is under way.
MainStep == \/ Tick \/ PumpDrops \/ PumpSends \/ PumpEnds \/ Poll \/ CallReturns
            \/ SendGoesOn(Poller)

Terminated == Halted /\ UNCHANGED engineVars

EngineNext == \/ Create \/ HostDestroys \/ MainStep
              \/ \E made \in BOOLEAN : OpenWindow(made)
              \/ \E app \in Apps \cup {NoApp} : PushLayer(app)
              \/ \E e \in SdlEvents : SdlEvent(e)
              \/ \E s \in Senders : SendBegins(s)
              \/ \E s \in Senders \ {Poller} : SendGoesOn(s)
              \/ Terminated

EngineSpec == EngineInit /\ [][EngineNext]_engineVars

(***************************************************************************)
(* Fairness: the host goes on calling toast_tick, callbacks and the        *)
(* application's functions return, and a thread inside send goes on.  The  *)
(* number of sends is finite, so that pool_mutex is free in the end; a     *)
(* fair mutex is not assumed.                                              *)
(***************************************************************************)
EngineFairSpec == /\ EngineSpec
                  /\ WF_engineVars(MainStep)
                  /\ \A s \in Senders \ {Poller} : WF_engineVars(SendGoesOn(s))
-----------------------------------------------------------------------------
(* Properties *)

EngineTypeOK ==
  /\ TypeOK
  /\ at \in Places
  /\ closing \in BOOLEAN
  /\ opened \in Nat /\ happened \in Nat /\ pumped \in Nat /\ pushes \in Nat
  /\ window \in Nat \cup {NoWindow}
  /\ sdl \in Seq(SdlEvents)
  /\ Len(payload) = sent
  /\ active \in Apps \cup {NoApp}
  /\ live \subseteq Apps
  /\ calls \in Seq([function : {"begin", "tick", "destroy"}, app : Apps \cup {NoApp}])
  /\ at = "poll" <=> poller # "idle"

(***************************************************************************)
(* No input is a frame late: when the application ticks, everything the    *)
(* window has sent has been dispatched, whatever other threads send        *)
(* meanwhile.                                                              *)
(***************************************************************************)
FrameSeesItsInput == at = "app" => pumped <= Len(dispatched)

(***************************************************************************)
(* A window closes only because an exit or the closing of that very window *)
(* was asked for: a request for a window that was replaced while the       *)
(* request was in SDL's queue or in the engine's closes nothing.           *)
(***************************************************************************)
ClosedOnlyByRequest ==
  closing => \E n \in 1..(Len(dispatched) + 1) : n <= sent /\ AsksToClose(payload[n])

(***************************************************************************)
(* Layers are handed over without overlap and without a gap, although a    *)
(* push may come from a begin, a tick or a callback in the middle of       *)
(* another push: the one begun and not destroyed is the active one.        *)
(***************************************************************************)
HandingOver == \E i \in 1..Len(calls) : calls[i].function = "destroy"

LayersInStep == live = IF HandingOver THEN {} ELSE {active} \ {NoApp}

(***************************************************************************)
(* While the host ticks, nothing waits for ever: SDL's events are pumped   *)
(* once there is a window, and every event sent is dispatched.             *)
(***************************************************************************)
EverythingIsServed ==
  /\ (sdl # <<>> /\ window # NoWindow) ~> (sdl = <<>> \/ Halted)
  /\ \A n \in 1..EventLimit : (sent >= n) ~> (Len(dispatched) >= n \/ Halted)
=============================================================================

--------------------------- MODULE RosbridgeService ---------------------------
(***************************************************************************)
(* The ground station's connection to rosbridge.                           *)
(*                                                                         *)
(* Dart runs one event at a time, so what happens between two awaits is    *)
(* one action.  connect() waits for the handshake in the middle: other     *)
(* events, another connect() among them, run before it goes on.            *)
(***************************************************************************)
EXTENDS Naturals, FiniteSets

CONSTANTS
  Channels,     \* bound: websocket channels alive at a time
  NoChannel     \* _channel is null

ASSUME RosbridgeAssumption == NoChannel \notin Channels

VARIABLES
  _state,
  _channel,
  timer,     \* _reconnectTimer is armed
  phase,     \* channel |-> how far it has come
  server,    \* rosbridge answers
  asked,     \* history: "connect" or "disconnect", what the user called last
  overlap,   \* history: connect() went ahead after disconnect() while an earlier one waited
  late       \* history: a handshake has failed since disconnect()

vars == <<_state, _channel, timer, phase, server, asked, overlap, late>>

States == {"disconnected", "connecting", "connected", "error"}

\* "opening": connect() awaits the handshake; "failing": the handshake will not
\* succeed; "listened": its events reach the service; "broken": so they do, and the
\* next is its end.  A "free" channel reaches nobody.
Phases == {"free", "opening", "failing", "listened", "broken"}

Listened == {c \in Channels : phase[c] \in {"listened", "broken"}}

\* A connection that is reported as connected has a channel, and the service hears
\* of its end.
TypeOK ==
  /\ _state \in States
  /\ _channel \in Channels \cup {NoChannel}
  /\ timer \in BOOLEAN
  /\ phase \in [Channels -> Phases]
  /\ server \in BOOLEAN
  /\ asked \in {"connect", "disconnect", "never"}
  /\ overlap \in BOOLEAN
  /\ late \in BOOLEAN
  /\ _state = "connected" => _channel \in Listened

Init ==
  /\ _state = "disconnected"
  /\ _channel = NoChannel
  /\ timer = FALSE
  /\ phase = [c \in Channels |-> "free"]
  /\ server \in BOOLEAN
  /\ asked = "never"
  /\ overlap = FALSE
  /\ late = FALSE

-----------------------------------------------------------------------------
(* connect() up to the await. *)

\* Mutant: an attempt under way is no reason not to start another.
BusyIfConnected == _state = "connected"

Busy == _state \in {"connected", "connecting"}

connect ==
  \/ Busy /\ UNCHANGED <<_state, phase, overlap>>
  \/ /\ ~Busy
     /\ _state' = "connecting"
     /\ overlap' = \/ overlap
                   \/ asked = "disconnect" /\ \E c \in Channels : phase[c] \in {"opening", "failing"}
     /\ \E c \in Channels :
          /\ phase[c] = "free"
          /\ phase' = [phase EXCEPT ![c] = IF server THEN "opening" ELSE "failing"]

\* The connection dialog.
UserConnects ==
  /\ connect
  /\ asked' = "connect"
  /\ UNCHANGED <<_channel, timer, server, late>>

ReconnectTimer ==
  /\ timer
  /\ timer' = FALSE
  /\ connect
  /\ UNCHANGED <<_channel, server, asked, late>>

-----------------------------------------------------------------------------
(* connect() after the await. *)

Ready(c) ==
  /\ phase[c] = "opening"
  /\ \/ /\ _state # "connecting"
        /\ phase' = [phase EXCEPT ![c] = "free"]
        /\ UNCHANGED <<_state, _channel>>
     \/ /\ _state = "connecting"
        /\ phase' = [phase EXCEPT ![c] = "listened"]
        /\ _channel' = c
        /\ _state' = "connected"
  /\ UNCHANGED <<timer, server, asked, overlap, late>>

\* _onError
Report(c) ==
  /\ phase' = [phase EXCEPT ![c] = "free"]
  /\ _state' = "error"
  /\ timer' = TRUE

\* The handshake failed or its five seconds are over.  This branch does not ask whether
\* disconnect() was called in between.
NotReady(c) ==
  /\ phase[c] = "failing"
  /\ Report(c)
  /\ late' = (late \/ asked = "disconnect")
  /\ UNCHANGED <<_channel, server, asked, overlap>>

-----------------------------------------------------------------------------
(* The events of a channel that is listened to. *)

\* A failed stream is done at once; _onDone finds the state "error" and does nothing.
StreamFails(c) ==
  /\ phase[c] = "broken"
  /\ Report(c)
  /\ UNCHANGED <<_channel, server, asked, overlap, late>>

\* Mutant: a connection that ends is not looked for again.
_onDoneNoReconnect(c) ==
  /\ phase[c] = "broken"
  /\ phase' = [phase EXCEPT ![c] = "free"]
  /\ _state' = IF _state = "connected" THEN "disconnected" ELSE _state
  /\ UNCHANGED <<_channel, timer, server, asked, overlap, late>>

\* Mutant: the end of a connection is not noticed.
_onDoneSilent(c) ==
  /\ phase[c] = "broken"
  /\ phase' = [phase EXCEPT ![c] = "free"]
  /\ UNCHANGED <<_state, _channel, timer, server, asked, overlap, late>>

_onDone(c) ==
  /\ phase[c] = "broken"
  /\ phase' = [phase EXCEPT ![c] = "free"]
  /\ IF _state = "connected"
     THEN _state' = "disconnected" /\ timer' = TRUE
     ELSE UNCHANGED <<_state, timer>>
  /\ UNCHANGED <<_channel, server, asked, overlap, late>>

-----------------------------------------------------------------------------

\* Only the last channel is closed and only its subscription is cancelled.
disconnect ==
  /\ timer' = FALSE
  /\ phase' = [c \in Channels |->
                 IF c = _channel /\ c \in Listened THEN "free" ELSE phase[c]]
  /\ _channel' = NoChannel
  /\ _state' = "disconnected"
  /\ asked' = "disconnect"
  /\ late' = FALSE
  /\ UNCHANGED <<server, overlap>>

\* rosbridge, the car or the radio link goes, or comes back: what was open breaks.
ServerGoes ==
  /\ server
  /\ server' = FALSE
  /\ phase' = [c \in Channels |-> CASE phase[c] = "opening"  -> "failing"
                                    [] phase[c] = "listened" -> "broken"
                                    [] OTHER -> phase[c]]
  /\ UNCHANGED <<_state, _channel, timer, asked, overlap, late>>

ServerComes ==
  /\ ~server
  /\ server' = TRUE
  /\ UNCHANGED <<_state, _channel, timer, phase, asked, overlap, late>>

Next ==
  \/ UserConnects
  \/ ReconnectTimer
  \/ \E c \in Channels : Ready(c) \/ NotReady(c) \/ StreamFails(c) \/ _onDone(c)
  \/ disconnect
  \/ ServerGoes
  \/ ServerComes

\* Timers fire and events are delivered; users and servers come and go as they like.
Fairness ==
  /\ WF_vars(ReconnectTimer)
  /\ \A c \in Channels : WF_vars(Ready(c)) /\ WF_vars(NotReady(c)) /\
                         WF_vars(StreamFails(c) \/ _onDone(c))

Spec     == Init /\ [][Next]_vars
FairSpec == Spec /\ Fairness

-----------------------------------------------------------------------------
(* Properties. *)

\* Unless attempts have overlapped (a user who disconnects during a handshake and
\* connects again before it is over), the service listens to one channel at a time: no
\* message of the car is handled twice.  After disconnect() it listens to none and does
\* not try to, whatever handshake was under way, until that handshake fails: the failure
\* arms the reconnect timer of a connection nobody wants any more (late).
OneChannel ==
  ~overlap => /\ Cardinality(Listened) <= 1
              /\ asked = "disconnect" /\ ~late
                   => Listened = {} /\ _state = "disconnected" /\ ~timer

\* When rosbridge is back for good, a user who has not hung up is connected again, after
\* whatever mix of failed handshakes, ended streams and early timers.
ComesBack ==
  <>[](server /\ asked = "connect") => <>[](_state = "connected")
=============================================================================

------------------------ MODULE RosbridgeServiceProofs ------------------------
(***************************************************************************)
(* One channel at a time, for any number of channels.                      *)
(***************************************************************************)
EXTENDS RosbridgeService, FiniteSetTheorems, TLAPS

Waiting == {c \in Channels : phase[c] \in {"opening", "failing"}}

\* As long as no attempt was made beside an older one: the service waits for one
\* handshake at most, and only in "connecting" or after disconnect(); what it listens to
\* is _channel, and only in "connected".
Alone ==
  /\ \A c, d \in Waiting : c = d
  /\ Waiting # {} => _state = "connecting" \/ (_state = "disconnected" /\ asked = "disconnect")
  /\ Listened # {} => _state = "connected" /\ Listened = {_channel}

\* A service that was hung up stays down until a handshake fails that was under way.
Down == asked = "disconnect" /\ ~late => Listened = {} /\ _state = "disconnected" /\ ~timer

ServiceInv == TypeOK /\ (~overlap => Alone /\ Down)

\* The checked invariant follows.
LEMMA ServiceInvImplies ==
  ASSUME ServiceInv
  PROVE  OneChannel
<1> SUFFICES ASSUME ~overlap
             PROVE  Cardinality(Listened) <= 1 /\ Down
  BY DEF OneChannel, Down
<1>1. Alone /\ Down
  BY DEF ServiceInv
<1>2. CASE Listened = {}
  <2>1. Cardinality(Listened) = 0
    BY <1>2, FS_EmptySet
  <2> QED
    BY <1>1, <2>1
<1>3. CASE Listened # {}
  <2>1. Listened = {_channel} /\ _state = "connected"
    BY <1>1, <1>3 DEF Alone
  <2>2. Cardinality(Listened) = 1
    BY <2>1, FS_Singleton
  <2> QED
    BY <1>1, <2>2
<1> QED
  BY <1>2, <1>3

\* An attempt begins when nothing is listened to, and, unless it overlaps, when no
\* handshake is under way either.
LEMMA ConnectKeepsInv ==
  ASSUME ServiceInv, connect, UserConnects \/ ReconnectTimer
  PROVE  ServiceInv'
<1> USE RosbridgeAssumption
<1>0. UNCHANGED <<_channel, server, late>>
  BY DEF UserConnects, ReconnectTimer
<1>1. timer' \in BOOLEAN /\ asked' \in {"connect", "disconnect", "never"}
  BY DEF UserConnects, ReconnectTimer, ServiceInv, TypeOK
<1>d. ASSUME ~overlap PROVE Down'
  <2>1. CASE UserConnects
    BY <2>1 DEF UserConnects, Down
  <2>2. CASE ReconnectTimer
    <3>1. timer /\ asked' = asked
      BY <2>2 DEF ReconnectTimer
    <3>2. Down
      BY <1>d DEF ServiceInv
    <3>3. ~(asked' = "disconnect" /\ ~late')
      BY <1>0, <3>1, <3>2 DEF Down
    <3> QED
      BY <3>3 DEF Down
  <2> QED
    BY <2>1, <2>2
<1>2. CASE Busy /\ UNCHANGED <<_state, phase, overlap>>
  <2>1. Waiting' = Waiting /\ Listened' = Listened
    BY <1>2 DEF Waiting, Listened
  <2>2. TypeOK'
    BY <1>0, <1>1, <1>2, <2>1 DEF ServiceInv, TypeOK
  <2>3. ~overlap' => Alone' /\ Down'
    BY <1>0, <1>d, <1>2, <2>1 DEF ServiceInv, Alone, Busy
  <2> QED
    BY <2>2, <2>3 DEF ServiceInv
<1>3. ASSUME ~Busy, NEW c \in Channels, phase[c] = "free", _state' = "connecting",
             overlap' = (overlap \/ (asked = "disconnect" /\ Waiting # {})),
             phase' = [phase EXCEPT ![c] = IF server THEN "opening" ELSE "failing"]
      PROVE  ServiceInv'
  <2>1. \A d \in Channels : phase'[d] = IF d # c THEN phase[d] ELSE IF server THEN "opening" ELSE "failing"
    BY <1>3 DEF ServiceInv, TypeOK
  <2>2. phase' \in [Channels -> Phases]
    BY <1>3 DEF ServiceInv, TypeOK, Phases
  <2>3. Waiting' = Waiting \cup {c}
    BY <2>1 DEF Waiting
  <2>4. Listened' = Listened
    BY <1>3, <2>1 DEF Listened
  <2>5. TypeOK'
    BY <1>0, <1>1, <1>3, <2>2 DEF ServiceInv, TypeOK, States
  <2>6. ASSUME ~overlap' PROVE Alone' /\ Down'
    <3>1. ~overlap /\ ~(asked = "disconnect" /\ Waiting # {})
      BY <1>3, <2>6 DEF ServiceInv, TypeOK
    <3>2. Alone
      BY <3>1 DEF ServiceInv
    <3>3. Listened = {} /\ Waiting = {}
      BY <1>3, <3>1, <3>2 DEF Alone, Busy
    <3> QED
      BY <1>3, <1>d, <2>3, <2>4, <3>1, <3>3 DEF Alone
  <2> QED
    BY <2>5, <2>6 DEF ServiceInv
<1> QED
  BY <1>2, <1>3 DEF connect, Waiting

\* A channel that leaves the others as they are.
LEMMA ReleaseKeepsInv ==
  ASSUME ServiceInv, NEW c \in Channels, phase[c] # "free",
         Ready(c) \/ NotReady(c) \/ StreamFails(c) \/ _onDone(c)
  PROVE  ServiceInv'
<1> USE RosbridgeAssumption
<1>1. /\ phase \in [Channels -> Phases] /\ UNCHANGED <<server, asked, overlap>>
      /\ ~NotReady(c) => UNCHANGED late
  BY DEF ServiceInv, TypeOK, Ready, NotReady, StreamFails, _onDone
<1>w. phase[c] \in {"opening", "listened", "broken"} => ~NotReady(c)
  BY DEF NotReady
<1>2. ASSUME phase' = [phase EXCEPT ![c] = "free"]
      PROVE  /\ phase' \in [Channels -> Phases]
             /\ Waiting' = Waiting \ {c} /\ Listened' = Listened \ {c}
  BY <1>1, <1>2 DEF Phases, Waiting, Listened
<1>3. CASE Ready(c)
  <2>1. c \in Waiting /\ UNCHANGED <<timer, late>>
    BY <1>1, <1>w, <1>3 DEF Ready, Waiting
  <2>2. CASE /\ _state # "connecting" /\ phase' = [phase EXCEPT ![c] = "free"]
             /\ UNCHANGED <<_state, _channel>>
    <3>1. c \notin Listened
      BY <1>3 DEF Ready, Listened
    <3>2. Waiting' = Waiting \ {c} /\ Listened' = Listened
      BY <1>2, <2>2, <3>1
    <3>3. TypeOK'
      BY <1>1, <1>2, <2>1, <2>2, <3>2 DEF ServiceInv, TypeOK
    <3>4. ~overlap' => Alone' /\ Down'
      BY <1>1, <2>1, <2>2, <3>2 DEF ServiceInv, Alone, Down
    <3> QED
      BY <3>3, <3>4 DEF ServiceInv
  <2>3. CASE /\ _state = "connecting" /\ phase' = [phase EXCEPT ![c] = "listened"]
             /\ _channel' = c /\ _state' = "connected"
    <3>1. phase' \in [Channels -> Phases]
      BY <1>1, <2>3 DEF Phases
    <3>2. Waiting' = Waiting \ {c} /\ Listened' = Listened \cup {c}
      BY <1>1, <2>3 DEF Waiting, Listened
    <3>3. TypeOK'
      BY <1>1, <2>1, <2>3, <3>1, <3>2 DEF ServiceInv, TypeOK, States
    <3>4. ASSUME ~overlap' PROVE Alone' /\ Down'
      <4>1. Alone /\ Down
        BY <1>1, <3>4 DEF ServiceInv
      <4>2. Listened = {} /\ Waiting' = {}
        BY <2>1, <2>3, <3>2, <4>1 DEF Alone
      <4>3. ~(asked' = "disconnect" /\ ~late')
        BY <1>1, <2>1, <2>3, <4>1 DEF Down
      <4> QED
        BY <2>3, <3>2, <4>2, <4>3 DEF Alone, Down
    <3> QED
      BY <3>3, <3>4 DEF ServiceInv
  <2> QED
    BY <1>3, <2>2, <2>3 DEF Ready
<1>4. CASE NotReady(c)
  <2>1. /\ c \in Waiting /\ c \notin Listened /\ UNCHANGED _channel
        /\ _state' = "error" /\ timer' = TRUE /\ phase' = [phase EXCEPT ![c] = "free"]
        /\ late' = (late \/ asked = "disconnect")
    BY <1>4 DEF NotReady, Report, Waiting, Listened
  <2>2. Waiting' = Waiting \ {c} /\ Listened' = Listened
    BY <1>2, <2>1
  <2>3. TypeOK'
    BY <1>1, <1>2, <2>1 DEF ServiceInv, TypeOK, States
  <2>4. ASSUME ~overlap' PROVE Alone' /\ Down'
    <3>1. Alone
      BY <1>1, <2>4 DEF ServiceInv
    <3>2. Listened' = {} /\ Waiting' = {}
      BY <2>1, <2>2, <3>1 DEF Alone
    <3>3. ~(asked' = "disconnect" /\ ~late')
      BY <1>1, <2>1
    <3> QED
      BY <3>2, <3>3 DEF Alone, Down
  <2> QED
    BY <2>3, <2>4 DEF ServiceInv
<1>5. CASE StreamFails(c) \/ _onDone(c)
  <2>1. /\ c \in Listened /\ c \notin Waiting /\ UNCHANGED _channel
        /\ phase' = [phase EXCEPT ![c] = "free"] /\ timer' \in BOOLEAN
        /\ _state' \in {"error", "disconnected"} \/ (_state' = _state /\ _state # "connected")
    BY <1>5 DEF StreamFails, _onDone, Report, Listened, Waiting, ServiceInv, TypeOK
  <2>2. Waiting' = Waiting /\ Listened' = Listened \ {c}
    BY <1>2, <2>1
  <2>0. UNCHANGED late
    BY <1>1, <1>w, <2>1 DEF Listened
  <2>3. TypeOK'
    BY <1>1, <1>2, <2>0, <2>1 DEF ServiceInv, TypeOK, States
  <2>4. ASSUME ~overlap' PROVE Alone' /\ Down'
    <3>1. Alone /\ Down
      BY <1>1, <2>4 DEF ServiceInv
    <3>2. Listened' = {} /\ Waiting' = {}
      BY <2>1, <2>2, <3>1 DEF Alone
    <3>3. ~(asked' = "disconnect" /\ ~late')
      BY <1>1, <2>0, <2>1, <3>1 DEF Down
    <3> QED
      BY <3>2, <3>3 DEF Alone, Down
  <2> QED
    BY <2>3, <2>4 DEF ServiceInv
<1> QED
  BY <1>3, <1>4, <1>5

\* disconnect() ends the only channel that is listened to.
LEMMA DisconnectKeepsInv ==
  ASSUME ServiceInv, disconnect
  PROVE  ServiceInv'
<1> USE RosbridgeAssumption
<1>1. phase \in [Channels -> Phases]
  BY DEF ServiceInv, TypeOK
<1>2. /\ phase' \in [Channels -> Phases]
      /\ Waiting' = Waiting /\ Listened' = Listened \ {_channel}
  BY <1>1 DEF disconnect, Phases, Waiting, Listened
<1>3. TypeOK'
  BY <1>2 DEF disconnect, ServiceInv, TypeOK, States
<1>4. ~overlap' => Alone' /\ Down'
  BY <1>2 DEF disconnect, ServiceInv, Alone, Down
<1> QED
  BY <1>3, <1>4 DEF ServiceInv

\* The invariant holds at the start and every step keeps it.
THEOREM ServiceIsAlone == Spec => []ServiceInv
<1> USE RosbridgeAssumption
<1>1. Init => ServiceInv
  <2> SUFFICES ASSUME Init PROVE ServiceInv
    OBVIOUS
  <2>1. Waiting = {} /\ Listened = {}
    BY DEF Init, Waiting, Listened
  <2>2. TypeOK
    BY DEF Init, TypeOK, States, Phases
  <2> QED
    BY <2>1, <2>2 DEF Init, ServiceInv, Alone, Down
<1>2. ServiceInv /\ [Next]_vars => ServiceInv'
  <2> SUFFICES ASSUME ServiceInv, [Next]_vars PROVE ServiceInv'
    OBVIOUS
  <2>1. CASE UserConnects \/ ReconnectTimer
    BY <2>1, ConnectKeepsInv DEF UserConnects, ReconnectTimer
  <2>2. ASSUME NEW c \in Channels, Ready(c) \/ NotReady(c) \/ StreamFails(c) \/ _onDone(c)
        PROVE  ServiceInv'
    <3>1. phase[c] # "free"
      BY <2>2 DEF Ready, NotReady, StreamFails, _onDone
    <3> QED
      BY <2>2, <3>1, ReleaseKeepsInv
  <2>3. CASE disconnect
    BY <2>3, DisconnectKeepsInv
  <2>4. CASE ServerGoes \/ ServerComes
    <3>1. /\ phase \in [Channels -> Phases] /\ server' \in BOOLEAN
          /\ UNCHANGED <<_state, _channel, timer, asked, overlap, late>>
      BY <2>4 DEF ServerGoes, ServerComes, ServiceInv, TypeOK
    <3>2. phase' \in [Channels -> Phases] /\ Waiting' = Waiting /\ Listened' = Listened
      <4>1. CASE ServerGoes
        BY <3>1, <4>1 DEF ServerGoes, Phases, Waiting, Listened
      <4>2. CASE ServerComes
        BY <3>1, <4>2 DEF ServerComes, Waiting, Listened
      <4> QED
        BY <2>4, <4>1, <4>2
    <3> QED
      BY <3>1, <3>2 DEF ServiceInv, TypeOK, Alone, Down
  <2>5. CASE UNCHANGED vars
    BY <2>5 DEF vars, ServiceInv, TypeOK, Alone, Down, Waiting, Listened
  <2> QED
    BY <2>1, <2>2, <2>3, <2>4, <2>5 DEF Next
<1> QED
  BY <1>1, <1>2, PTL DEF Spec

\* RosbridgeService: a connection that is reported has a channel, and its end is heard.
THEOREM ServiceTyping == Spec => []TypeOK
<1>1. ServiceInv => TypeOK
  BY DEF ServiceInv
<1> QED
  BY <1>1, ServiceIsAlone, PTL

\* connect, disconnect: unless attempts overlapped, one channel at a time is listened to,
\* and after disconnect() none until a handshake fails that was under way then.
THEOREM ListensToOneChannel == Spec => []OneChannel
BY ServiceIsAlone, ServiceInvImplies, PTL
=============================================================================

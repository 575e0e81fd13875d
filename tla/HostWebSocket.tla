---------------------------- MODULE HostWebSocket ----------------------------
(***************************************************************************)
(* plugins/host_websocket.go: connections a plugin opens under names of its *)
(* own. Each has a goroutine that reads (readLoop) and takes the name out   *)
(* of the map when it ends; Connect looks the name up before it dials and   *)
(* stores it after.                                                         *)
(***************************************************************************)
EXTENDS PluginInstances

CONSTANT MaxConns      \* bound: connections made

VARIABLES conns,         \* the connections made, in order
          connections,   \* per instance: the connection under each name, 0 for none
          hanging        \* per instance: what its Close has still to close

webSocketVars == <<conns, connections, hanging>>

ASSUME WebSocketAssumption == MaxConns \in Nat

(* up: neither side has closed it. marked: isClosed. pc: readLoop. told: how *)
(* often a plugin was told of its end. The rest is history: dropped, the  *)
(* far side ended it; unsafe, it was stored where nothing could keep it,    *)
(* because Close had already taken the map, an earlier reader of the name   *)
(* had not ended, or another Connect stored its own over it.                *)
ConnTypes == [inst : Instances, name : Names, up : BOOLEAN, marked : BOOLEAN,
              pc : {"reading", "ended", "leaving", "done"}, told : 0..2,
              dropped : BOOLEAN, unsafe : BOOLEAN]

Conns == DOMAIN conns

WebSocketInit ==
  /\ conns = <<>>
  /\ connections = [i \in Instances |-> [n \in Names |-> 0]]
  /\ hanging = [i \in Instances |-> {}]

(* Close has not taken the map of instance i yet. *)
Reachable(i) == stage[i] \in {"loaded", "scheduler", "stopping", "websocket"}

(* Connect, up to the dialling: the name is not in use. *)
Connect(c, i, n) ==
  /\ May(i, "websocket") /\ connections[i][n] = 0
  /\ Enter(c, "dial", i, n, 0, 0)
  /\ UNCHANGED <<granted, stage, webSocketVars>>

DialFails(c) ==
  /\ call[c].pc = "dial"
  /\ Leave(c)
  /\ UNCHANGED <<granted, stage, webSocketVars>>

(* The connections of name n of instance i whose readers have not ended. *)
Readers(i, n) == {k \in Conns : conns[k].inst = i /\ conns[k].name = n /\ conns[k].pc # "done"}

New(i, n) == [inst |-> i, name |-> n, up |-> TRUE, marked |-> FALSE, pc |-> "reading",
              told |-> 0, dropped |-> FALSE,
              unsafe |-> ~Reachable(i) \/ Readers(i, n) # {}]

(* Connect, from the handshake on: stored, whatever the name holds by now,  *)
(* and read.                                                                *)
Dialled(c) ==
  LET i == call[c].inst  n == call[c].name IN
    /\ call[c].pc = "dial" /\ Len(conns) < MaxConns
    /\ conns' = Append([k \in Conns |-> IF k = connections[i][n]
                                        THEN [conns[k] EXCEPT !.unsafe = TRUE]
                                        ELSE conns[k]], New(i, n))
    /\ connections' = [connections EXCEPT ![i][n] = Len(conns) + 1]
    /\ Leave(c)
    /\ UNCHANGED <<granted, stage, hanging>>

(* Mutant: the connection stays in the map while it is closed. *)
CloseConnectionBug(c, i, n) ==
  /\ May(i, "websocket") /\ connections[i][n] # 0
  /\ Enter(c, "close", i, n, connections[i][n], 0)
  /\ UNCHANGED <<granted, stage, webSocketVars>>

(* CloseConnection takes the connection out of the map, *)
CloseConnection(c, i, n) ==
  /\ May(i, "websocket") /\ connections[i][n] # 0
  /\ Enter(c, "close", i, n, connections[i][n], 0)
  /\ connections' = [connections EXCEPT ![i][n] = 0]
  /\ UNCHANGED <<granted, stage, conns, hanging>>

(* How often a plugin was told after OnClose: once more, if one is in the    *)
(* map. The instance that is being unloaded is not any more.                *)
TellOnce(k) == IF InMap THEN conns[k].told + 1 ELSE conns[k].told

(* ... marks it, closes it and tells the plugin. *)
HungUp(k) ==
  conns' = [conns EXCEPT ![k].up = FALSE, ![k].marked = TRUE, ![k].told = TellOnce(k)]

HangUp(c) ==
  /\ call[c].pc = "close"
  /\ HungUp(call[c].num)
  /\ Leave(c)
  /\ UNCHANGED <<granted, stage, connections, hanging>>

(* The far side closes the connection, or the network does. *)
Drop(k) ==
  /\ conns[k].up
  /\ conns' = [conns EXCEPT ![k].up = FALSE, ![k].dropped = TRUE]
  /\ UNCHANGED <<instanceVars, connections, hanging>>

(* ReadMessage returns an error. *)
ReadEnds(k) ==
  /\ conns[k].pc = "reading" /\ ~conns[k].up
  /\ conns' = [conns EXCEPT ![k].pc = "ended"]
  /\ UNCHANGED <<instanceVars, connections, hanging>>

(* Mutant: the reader does not ask who closed the connection. *)
TellBug(k) ==
  /\ conns[k].pc = "ended"
  /\ conns' = [conns EXCEPT ![k].pc = "leaving", ![k].told = TellOnce(k)]
  /\ UNCHANGED <<instanceVars, connections, hanging>>

(* The plugin is told (OnClose, OnError), unless this side closed it. *)
Tell(k) ==
  /\ conns[k].pc = "ended"
  /\ conns' = [conns EXCEPT ![k].pc = "leaving",
                            ![k].told = IF conns[k].marked THEN @ ELSE TellOnce(k)]
  /\ UNCHANGED <<instanceVars, connections, hanging>>

(* The deferred deletion, by name. *)
ReaderLeaves(k) ==
  /\ conns[k].pc = "leaving"
  /\ conns' = [conns EXCEPT ![k].pc = "done"]
  /\ connections' = [connections EXCEPT ![conns[k].inst][conns[k].name] = 0]
  /\ UNCHANGED <<instanceVars, hanging>>

(* Close: the map is replaced by an empty one, and what it held is closed. *)
TakeConnections(i) ==
  /\ Move(i, "websocket", "hanging up")
  /\ hanging' = [hanging EXCEPT ![i] = {connections[i][n] : n \in Names} \ {0}]
  /\ connections' = [connections EXCEPT ![i] = [n \in Names |-> 0]]
  /\ UNCHANGED conns

HangUpOne(i, k) ==
  /\ k \in hanging[i]
  /\ HungUp(k)
  /\ hanging' = [hanging EXCEPT ![i] = @ \ {k}]
  /\ UNCHANGED <<instanceVars, connections>>

WebSocketClosed(i) ==
  /\ hanging[i] = {}
  /\ Move(i, "hanging up", ToStore)
  /\ UNCHANGED webSocketVars

WebSocketStep ==
  \/ \E i \in Instances :
       \/ \E n \in Names, c \in Calls : Connect(c, i, n) \/ CloseConnection(c, i, n)
       \/ \E k \in hanging[i] : HangUpOne(i, k)
       \/ TakeConnections(i)
       \/ WebSocketClosed(i)
  \/ \E c \in Calls : DialFails(c) \/ Dialled(c) \/ HangUp(c)
  \/ \E k \in Conns : Drop(k) \/ ReadEnds(k) \/ Tell(k) \/ ReaderLeaves(k)

WebSocketTypeOK ==
  /\ conns \in Seq(ConnTypes) /\ Len(conns) <= MaxConns
  /\ connections \in [Instances -> [Names -> 0..Len(conns)]]
  /\ hanging \in [Instances -> SUBSET Conns]
  /\ \A c \in Calls : /\ call[c].pc = "close" => call[c].num \in Conns
                      /\ call[c].pc = "dial" => call[c].inst \in Instances /\ call[c].name \in Names

BeingClosed(k) ==
  \/ \E c \in Calls : call[c].pc = "close" /\ call[c].num = k
  \/ k \in hanging[conns[k].inst]

(* A connection that was stored safely and is up is the one its name stands *)
(* for, so that the plugin and the unloading can close it; or somebody is   *)
(* closing it. None outlives the unload. A plugin is told at most once of   *)
(* its end, unless the far side ended it too; of one that the unloading     *)
(* closes only a newer instance can be told.                                *)
ConnectionsKnown ==
  \A k \in Conns : LET r == conns[k] IN
    /\ r.up /\ ~r.unsafe =>
         BeingClosed(k) \/ (connections[r.inst][r.name] = k /\ Reachable(r.inst))
    /\ r.told = 2 => r.dropped
=============================================================================

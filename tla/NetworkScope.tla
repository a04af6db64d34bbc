---------------------------- MODULE NetworkScope ----------------------------
(***************************************************************************)
(* The network epoch of one tab (session-scope.ts, and the start and end   *)
(* of signaling-controller.ts): everything that was built under one        *)
(* authenticated session ends with it.  "peers" stands for the peer        *)
(* connections, keys and transfers of the epoch.                           *)
(*                                                                         *)
(* The operators take and return the tab as a record w.                    *)
(***************************************************************************)
EXTENDS SignalSocket

NetType ==
    [on : BOOLEAN, cur : Token \cup {NoToken}, sid : 0..MaxSid, joined : BOOLEAN,
     status : {"idle", "connecting", "online", "reconnecting", "offline"}, peers : BOOLEAN]

NewNet == [on |-> FALSE, cur |-> NoToken, sid |-> 0, joined |-> FALSE, status |-> "idle", peers |-> FALSE]

\* isSignalingReady
Ready(n) == n.status = "online" /\ n.sid # 0 /\ n.joined

\* endNetworkEpoch
Ended(n) == [n EXCEPT !.joined = FALSE, !.sid = 0, !.peers = FALSE]

DestroyNetwork(w) ==
    [w EXCEPT !.ws = Disconnected(@), !.net = [Ended(@) EXCEPT !.on = FALSE, !.cur = NoToken, !.status = "idle"]]

InitNetwork(w, t) ==
    LET n == w.net
        started == [w EXCEPT !.net = [(IF n.on THEN Ended(n) ELSE n) EXCEPT !.on = TRUE, !.cur = t, !.status = "connecting"],
                             !.ws = Connected(@, t)]
    IN  IF n.on /\ n.cur = t THEN w ELSE started

\* endSession: the socket first, then the teardown a running network subscribed.
EndSession(w) ==
    IF w.net.on THEN DestroyNetwork(w) ELSE [w EXCEPT !.ws = Disconnected(@)]

\* onopen and the connect handler.
SocketOpened(w) ==
    [w EXCEPT !.ws = Opened(@), !.net.status = IF w.net.on THEN "connecting" ELSE @]

\* WELCOME: another session id than before is another epoch.
Welcome(w) ==
    LET n == IF w.net.sid \notin {0, w.ws.as.sid} THEN Ended(w.net) ELSE w.net
    IN  [w EXCEPT !.ws.wel = TRUE,
                  !.net = [n EXCEPT !.sid = w.ws.as.sid, !.status = "online", !.joined = TRUE]]

\* onclose and the disconnect handler.
SocketGone(w, code) ==
    [w EXCEPT !.ws = Closed(@, code),
              !.net = IF ~w.net.on THEN @
                      ELSE [@ EXCEPT !.joined = FALSE,
                                     !.status = IF w.net.cur # NoToken THEN "reconnecting" ELSE "offline"]]

\* SERVER_SHUTDOWN
ShutdownTold(w) ==
    [w EXCEPT !.ws.shut = TRUE, !.net = [@ EXCEPT !.joined = FALSE, !.status = "offline"]]
=============================================================================

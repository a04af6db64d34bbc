---------------------------- MODULE SignalSocket ----------------------------
(***************************************************************************)
(* The signaling client of one browser tab (lib/signaling.ts): one current *)
(* socket, its connect watchdog, the reconnect timer, and the token the    *)
(* next socket will authenticate with.  A replaced socket has its handlers *)
(* removed, so none of its events exist here.  The heartbeat only sends.   *)
(*                                                                         *)
(* A token is a session id of the server and the number of its renewal.    *)
(***************************************************************************)
EXTENDS Integers, FiniteSets

CONSTANTS MaxSid, MaxVer

ASSUME ClientBounds == MaxSid \in Nat \ {0} /\ MaxVer \in Nat \ {0}

Token == [sid : 1..MaxSid, ver : 1..MaxVer]
NoToken == [sid |-> 0, ver |-> 0]

SocketType ==
    [tok : Token \cup {NoToken}, st : {"none", "connecting", "open", "closing"},
     as : Token \cup {NoToken},       \* the token its AUTH frame carried
     wel : BOOLEAN, dog : BOOLEAN, timer : BOOLEAN, shut : BOOLEAN]

NewSocket == [tok |-> NoToken, st |-> "none", as |-> NoToken, wel |-> FALSE, dog |-> FALSE,
              timer |-> FALSE, shut |-> FALSE]

Detached(s) == [s EXCEPT !.st = "none", !.as = NoToken, !.wel = FALSE, !.dog = FALSE]

\* doConnect: an open or connecting socket is left alone.
Dialled(s) ==
    IF s.st \in {"open", "connecting"} THEN s
    ELSE [Detached(s) EXCEPT !.st = "connecting", !.dog = TRUE]

Connected_Adopts(s, t) == Dialled([s EXCEPT !.tok = t, !.timer = FALSE, !.shut = FALSE])

Connected(s, t) ==
    LET old == IF s.tok # t THEN Detached(s) ELSE s
    IN  Dialled([old EXCEPT !.tok = t, !.timer = FALSE, !.shut = FALSE])

\* reconnectNow; throws: the PING on a half-dead open socket.
ReconnectedNow(s, throws) ==
    IF s.tok = NoToken THEN s
    ELSE LET v == [s EXCEPT !.timer = FALSE, !.shut = FALSE]
         IN  IF s.st = "open" /\ ~throws THEN v ELSE Dialled(Detached(v))

Scheduled(s) == IF s.shut THEN s ELSE [s EXCEPT !.timer = TRUE]

Disconnected(s) == [Detached(s) EXCEPT !.tok = NoToken, !.timer = FALSE, !.shut = FALSE]

Opened(s) == [s EXCEPT !.st = "open", !.as = s.tok, !.dog = FALSE]

\* onclose, before its handlers; the codes 4001 and 4002 end the attempts with this token.
Closed(s, code) ==
    IF code = "invalid" THEN [Detached(s) EXCEPT !.shut = TRUE] ELSE Scheduled(Detached(s))

Bitten_Gone(s) == Detached(s)

\* The watchdog of a socket that never left CONNECTING.
Bitten(s) == Scheduled(Detached(s))
=============================================================================

----------------------------- MODULE Admission -----------------------------
(***************************************************************************)
(* What the session registry promises about who is in a network, without   *)
(* hashes, requests, locks, sockets or proofs.  A session is minted once,  *)
(* with the identity it keeps, and is never present again once it left.    *)
(* The limit per address is no part of the promise: a socket may bring a   *)
(* session to another address.                                             *)
(***************************************************************************)
EXTENDS Naturals, FiniteSets

CONSTANTS Sid, Node, Pass, Qr, NoQr, MaxNodes

VARIABLES
    present,   \* the sessions that can be reached
    identity   \* of every session ever minted: node id, passcode, invitation

admission == <<present, identity>>

Minted == DOMAIN identity

\* Session s is minted with identity d.
Mint(s, d) ==
    /\ s \in Sid \ Minted
    /\ identity' = [t \in Minted \cup {s} |-> IF t = s THEN d ELSE identity[t]]

Init == present = {} /\ identity = [s \in {} |-> 0]

\* A newcomer finds room, shares its node id only with its own passcode, and
\* brings an invitation nobody has come in with.
Admit(s, node, pass, via) ==
    /\ present' = present \cup {s}
    /\ Cardinality(present) < MaxNodes
    /\ \A t \in present : identity[t].node = node => identity[t].pass = pass
    /\ via # NoQr => \A t \in Minted : identity[t].via # via
    /\ Mint(s, [node |-> node, pass |-> pass, via |-> via])

\* The same identity under a new session: no room is needed.
Replace(s, new) ==
    /\ s \in present /\ present' = (present \ {s}) \cup {new}
    /\ Mint(new, [node |-> identity[s].node, pass |-> identity[s].pass, via |-> NoQr])

\* Released, expired, or idle for too long.
Depart(S) ==
    /\ S \subseteq present
    /\ present' = present \ S
    /\ UNCHANGED identity

Next ==
    \/ \E S \in SUBSET Sid : Depart(S)
    \/ \E s \in Sid, node \in Node, pass \in Pass, via \in Qr \cup {NoQr} : Admit(s, node, pass, via)
    \/ \E s, new \in Sid : Replace(s, new)

Spec == Init /\ [][Next]_admission
=============================================================================

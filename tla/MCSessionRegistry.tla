------------------------- MODULE MCSessionRegistry -------------------------
(* Instances of SessionRegistry for TLC: symmetry of the model values.     *)
EXTENDS SessionRegistry, TLC

AdmissionSymmetry ==
    Permutations(Sid) \cup Permutations(Req) \cup Permutations(Pass) \cup Permutations(Ip)

SocketSymmetry == Permutations(Sid) \cup Permutations(Conn)
=============================================================================

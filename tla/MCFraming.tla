------------------------------ MODULE MCFraming -----------------------------
(* One client, a header of 2 bytes, a static buffer of 3 and a limit of 5: *)
(* requests that fit, that need a buffer, at both limits and above them.   *)
EXTENDS Framing

Starts == << 0, 2, 6, 11, 20, 23, 30, 38>>
Sizes  == << 0, 2, 3,  7,  1,  5,  6,  2>>
MCTotal == 42

(* The size field where a request starts, and a wild one everywhere else.  *)
MCSize == [p \in 0..MCTotal |->
             IF \E i \in DOMAIN Starts : Starts[i] = p
             THEN Sizes[CHOOSE i \in DOMAIN Starts : Starts[i] = p]
             ELSE 4]
=============================================================================

--------------------------- MODULE RequestStream ----------------------------
(***************************************************************************)
(* What a connection promises its client: the requests it wrote are taken  *)
(* one after the other, each with its own data and none skipped; one that  *)
(* fits the static buffer is executed, one above the limit is refused, and *)
(* in between the server may run out of memory. At any time the connection *)
(* may end. Modelled after the protocol that net/request.c implements.     *)
(***************************************************************************)
EXTENDS Integers, Sequences

CONSTANTS Total, HEADER, PKTBUF_LEN, MAXPACKETSZ, Size

VARIABLES served, open

(* Where the request after the one at position p starts.                   *)
After(p) == p + HEADER + Size[p]
NextAt == IF served = <<>> THEN 0 ELSE After(served[Len(served)].at)

Taken ==
  {r \in [at : {NextAt}, body : {-1, NextAt + HEADER}, kind : {"executed", "refused"}] :
     /\ r.kind = "executed" =>
          /\ Size[r.at] <= MAXPACKETSZ \/ Size[r.at] < PKTBUF_LEN
          /\ Size[r.at] > 0 <=> r.body = r.at + HEADER
     /\ r.kind = "refused" => Size[r.at] >= PKTBUF_LEN /\ r.body = -1}

Init == served = <<>> /\ open = TRUE

Take == /\ open /\ After(NextAt) <= Total
        /\ \E r \in Taken : served' = Append(served, r)
        /\ open' \in BOOLEAN

Drop == open /\ open' = FALSE /\ UNCHANGED served

Next == Take \/ Drop

Spec == Init /\ [][Next]_<<served, open>>
=============================================================================

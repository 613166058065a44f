---------------------------- MODULE MCFrontDesk -----------------------------
(* FrontDesk with room for a third customer and a third ticket, and pages  *)
(* of one row.                                                             *)
EXTENDS FrontDesk, TLC

CONSTANTS a1, a2, m1, r1, r2

MCAddress == {a1, a2}
MCMail == {m1}
MCRequest == {r1, r2}

\* One field at a time.
MCUpdates ==
  {[name |-> w, email |-> unset] : w \in {1, 3}} \cup {[name |-> unset, email |-> a] : a \in MCAddress \cup {null}}
MCArrivals == {[name |-> w, email |-> null] : w \in {1, 3}}

MCNames == {<<1, 1>>, <<1, 3>>}
MCTimes == {<<1, 1>>, <<2, 1>>}

MCQueries ==
  {[q |-> unset, state |-> unset], [q |-> 1, state |-> unset], [q |-> unset, state |-> "open"]}

Renamings == Permutations(MCAddress) \cup Permutations(MCRequest)

\* A list is read while no email is on its way and no address has failed:
\* lists and emails share nothing but the customers, and show neither.
Apart ==
  \/ walk = NoWalk
  \/ /\ mails = Empty /\ failed = {} /\ ~closed
     /\ \A r \in Request : request[r].op \notin {"resend", "send"}

\* One email is on its way at a time, each being read and overtaken for
\* itself, and the instance ends with what becomes of it.
OneEmail ==
  /\ \A m \in DOMAIN mails : mails[m].state = "open"
  /\ \A r, s \in Request :
       request[r].op \in {"resend", "send"} =>
         mails = Empty /\ (request[s].op \in {"resend", "send"} => r = s)
=============================================================================

-------------------------------- MODULE Flow --------------------------------
(***************************************************************************)
(* What the proxy promises the two ends of one intercepted connection,     *)
(* without saying how: the contract that NatTable is shown to keep.        *)
(*                                                                         *)
(* The client believes it talks to the server.  What it writes counts as   *)
(* written when the proxy has taken it, which the client learns from an    *)
(* acknowledgement; it never sends it again.                               *)
(***************************************************************************)
EXTENDS SequencesExt

VARIABLES
  stage,    \* the server's side: none, asked for, up, over
  wrote,    \* what was taken from the client
  reached,  \* what was handed to the relay
  hung,     \* the relay was told that the client is done
  said,     \* what the server said, as the relay reports it
  heard,    \* what the client read
  eof       \* the client has read the end of the stream

toServer == <<wrote, reached, hung>>
toClient == <<said, heard, eof>>
vars     == <<stage, toServer, toClient>>

Grows(s, t) == IsStrictPrefix(s, t)

Init ==
  /\ stage = "none"
  /\ toServer = << <<>>, <<>>, FALSE >>
  /\ toClient = << <<>>, <<>>, FALSE >>

(* The client opens a connection, on a port used before or not. *)
Open ==
  /\ stage' = "asked"
  /\ toServer' = << <<>>, <<>>, FALSE >>
  /\ toClient' = << <<>>, <<>>, FALSE >>

(* What was taken in the meantime is handed over, unless the client is     *)
(* done already: then it is lost.                                          *)
Connect ==
  /\ stage = "asked" /\ stage' = "up"
  /\ reached' = IF hung THEN reached ELSE wrote
  /\ UNCHANGED <<wrote, hung, toClient>>

Refuse ==
  /\ stage = "asked" /\ stage' = "over"
  /\ UNCHANGED <<toServer, toClient>>

(* The client writes, or is done, or both.  As long as the server is up    *)
(* everything taken is handed over; once it is over, nothing is.           *)
Write ==
  /\ ~hung /\ stage # "none"
  /\ IsPrefix(wrote, wrote')
  /\ reached' = IF stage = "up" THEN wrote' ELSE reached
  /\ hung' \in BOOLEAN
  /\ UNCHANGED <<stage, toClient>>

Say ==
  /\ stage = "up"
  /\ Grows(said, said')
  /\ UNCHANGED <<stage, toServer, heard, eof>>

(* The server closes or resets its connection. *)
Finish ==
  /\ stage = "up" /\ stage' = "over"
  /\ UNCHANGED <<toServer, toClient>>

Hear ==
  /\ ~eof
  /\ Grows(heard, heard') /\ IsPrefix(heard', said)
  /\ UNCHANGED <<stage, toServer, said, eof>>

(* The end comes after everything the server said.  A client that is done  *)
(* writing is cut off: the proxy knows no half-closed connections.         *)
End ==
  /\ ~eof /\ eof'
  /\ hung \/ (stage = "over" /\ heard = said)
  /\ UNCHANGED <<stage, toServer, said, heard>>

Next == Open \/ Connect \/ Refuse \/ Write \/ Say \/ Finish \/ Hear \/ End

Spec == Init /\ [][Next]_vars
=============================================================================

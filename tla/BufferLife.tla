----------------------------- MODULE BufferLife -----------------------------
(***************************************************************************)
(* What the buffer pool promises to the users of tcp_client.h and of       *)
(* fix_client.h: every buffer is in one place at a time, and moves only    *)
(* along the paths README.md gives it.  A buffer that poll() reads into is *)
(* put back, or left to the application, who puts it back; a buffer that   *)
(* is posted is put back after the write.                                  *)
(***************************************************************************)
CONSTANT Bufs

VARIABLE owner

Owners == {"pool",     \* free
           "read",     \* being read into and parsed by poll()
           "app",      \* left to the application with its messages
           "reply",    \* being filled with an outgoing message
           "posted",   \* in the outgoing queue
           "written",  \* written, about to be put back
           "lost"}     \* gone with the connection, or with a failed parse

Paths == {<<"pool", "read">>, <<"read", "pool">>,
          <<"read", "app">>, <<"app", "pool">>,
          <<"pool", "reply">>, <<"reply", "posted">>, <<"pool", "posted">>,
          <<"posted", "written">>, <<"written", "pool">>,
          <<"read", "lost">>, <<"posted", "lost">>}

Init == owner = [b \in Bufs |-> "pool"]

Move(b, from, to) ==
  /\ owner[b] = from
  /\ owner' = [owner EXCEPT ![b] = to]

Next == \E b \in Bufs, path \in Paths : Move(b, path[1], path[2])

Spec == Init /\ [][Next]_owner
=============================================================================

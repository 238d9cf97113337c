---------------------------- MODULE MCFixWriter -----------------------------
(* Messages whose lengths are around the powers of ten and the buffer's; and, *)
(* beside one of the messages, every number for itoa and atoi.                *)
EXTENDS FixWriter

\* Letters, and letters above 127.
AsciiAndNot == {65, -61}

AnOrder == CHOOSE o \in Orders : TRUE
ACall   == num = 0 /\ len = 2

CodecInit == Init /\ (ACall \/ (order = AnOrder /\ Input))

CodecSpec == CodecInit /\ [][Next /\ ACall /\ UNCHANGED <<num, len>>]_<<vars, num, len>>
=============================================================================

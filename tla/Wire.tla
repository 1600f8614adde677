-------------------------------- MODULE Wire --------------------------------
(***************************************************************************)
(* What a sector's bytes go through between the NBD socket of the master   *)
(* and the mapped file of a slave.  The datagram carries them verbatim;    *)
(* the code that takes them out of it treats them as a C string.           *)
(***************************************************************************)
EXTENDS Integers

CONSTANTS
  Byte,   \* the values a byte may have
  SecLen, \* the bytes of a sector, m_len of every request
  Sector, \* the addresses, m_offset
  Magic   \* MAGIC_STR, the text of a slave's hello

NUL == 0

ASSUME WireAssumption == NUL \in Byte /\ Byte \subseteq Nat /\ SecLen \in Nat \ {0}

Payload == [1..SecLen -> Byte]

Zeros == [i \in 1..SecLen |-> NUL]

\* Position i lies behind a NUL of p.
BehindNul(p, i) == \E j \in 1..(i - 1) : p[j] = NUL

\* strcpy() into m_buff.data() of a vector that was only reserve()d: the bytes
\* behind the first NUL keep whatever the heap held.
Strcpy(p) == {q \in Payload : \A i \in 1..SecLen : ~BehindNul(p, i) => q[i] = p[i]}

\* AddMessage(): copies up to the first NUL into a buffer of zeros.
AddMessage(p) == [i \in 1..SecLen |-> IF BehindNul(p, i) THEN NUL ELSE p[i]]
=============================================================================

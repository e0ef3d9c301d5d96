------------------------------- MODULE Base64 -------------------------------
(***************************************************************************)
(* The base64 encoder of the attestation PTA (base64.c), which prints the  *)
(* measurements that provisioning registers.  Characters are their codes.  *)
(***************************************************************************)
EXTENDS Integers, Sequences

\* "A" to "Z", "a" to "z", "0" to "9", "+", "/".
base64_table ==
    [i \in 0..63 |-> IF i < 26 THEN 65 + i ELSE IF i < 52 THEN 71 + i
                     ELSE IF i < 62 THEN i - 4 ELSE IF i = 62 THEN 43 ELSE 47]

Pad == 61
Nul == 0

base64_enc_len(size) == 4 * ((size + 2) \div 3) + 1

\* A variant for testing the properties: the last two characters tell the same.
Group_Padded(in, n) ==
    LET d(k) == IF n + k < Len(in) THEN in[n + k + 1] ELSE 0
        igrp == d(0) * 65536 + d(1) * 256 + d(2)
    IN  <<base64_table[igrp \div 262144],
          base64_table[(igrp \div 4096) % 64],
          IF n + 2 < Len(in) THEN base64_table[(igrp \div 64) % 64] ELSE Pad,
          IF n + 2 < Len(in) THEN base64_table[igrp % 64] ELSE Pad>>

\* The four characters of the group of bytes at n.
Group(in, n) ==
    LET d(k) == IF n + k < Len(in) THEN in[n + k + 1] ELSE 0
        igrp == d(0) * 65536 + d(1) * 256 + d(2)
    IN  <<base64_table[igrp \div 262144],
          base64_table[(igrp \div 4096) % 64],
          IF n + 1 < Len(in) THEN base64_table[(igrp \div 64) % 64] ELSE Pad,
          IF n + 2 < Len(in) THEN base64_table[igrp % 64] ELSE Pad>>

\* What is returned, the length stored at outlen, and the characters written.
base64_encode(in, outlen) ==
    LET groups[i \in 0..((Len(in) + 2) \div 3)] ==
            IF i = 0 THEN <<>> ELSE groups[i - 1] \o Group(in, 3 * (i - 1))
        out == Append(groups[(Len(in) + 2) \div 3], Nul)
    IN  IF outlen < base64_enc_len(Len(in))
        THEN [ret |-> 0, outlen |-> base64_enc_len(Len(in)), out |-> <<>>]
        ELSE [ret |-> 1, outlen |-> Len(out), out |-> out]
=============================================================================

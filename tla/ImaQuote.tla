------------------------------ MODULE ImaQuote ------------------------------
(***************************************************************************)
(* Verifying a TPM quote of PCR 10 against the IMA measurement list        *)
(* (attester/ima-quote: pcr10_recompute3.py, host-verify.sh).              *)
(*                                                                         *)
(* The kernel goes on measuring while ima-quote takes the quote and then   *)
(* copies the list, so the list is longer than what was quoted; the        *)
(* verifier cuts lines off its end until the recomputed PCR is the quoted  *)
(* one.  Hashes are collision free: a PCR is the sequence of what it was   *)
(* extended with.                                                          *)
(***************************************************************************)
EXTENDS Integers, Sequences, FiniteSetsExt

\* A line: the algorithm of its file hash, and what was measured ("zero" for a
\* violation, whose hash is all zeros).
Line(alg, what) == [alg |-> alg, what |-> what]

\* The template hash of a violation.
AllOnes == Line("none", "ff")

\* What the kernel extends the PCR with, for every line of the list.
KernelExtends(log) ==
    [i \in DOMAIN log |-> IF log[i].what = "zero" THEN AllOnes ELSE log[i]]

\* Line by line; those that are not sha256 are skipped.
iterate_ima_entries(log) ==
    LET upto[i \in 0..Len(log)] ==
            IF i = 0 THEN <<>>
            ELSE IF log[i].alg = "sha256" THEN Append(upto[i - 1], log[i]) ELSE upto[i - 1]
    IN  upto[Len(log)]

compute_template_hash(e) == IF e.what = "zero" THEN AllOnes ELSE e

recompute_pcr10(log) ==
    LET entries == iterate_ima_entries(log)
    IN  [i \in DOMAIN entries |-> compute_template_hash(entries[i])]

\* The first processed line at which the recomputation shows the expected value, or 0.
simulate_pcr10_until_match(log, expected) ==
    LET entries == iterate_ima_entries(log)
        matches == {i \in DOMAIN entries : recompute_pcr10(SubSeq(entries, 1, i)) = expected}
    IN  IF matches = {} THEN 0 ELSE Min(matches)

\* A variant for testing the properties: the list as copied is never tried.
host_verify_TrimsFirst(log, pcr) ==
    LET matches == {k \in 1..(Len(log) - 1) : recompute_pcr10(SubSeq(log, 1, Len(log) - k)) = pcr}
    IN  IF matches = {} THEN 0 ELSE Len(log) - Min(matches)

\* How many lines the verifier reports as covered by the quote, or 0.
host_verify(log, pcr) ==
    LET matches == {k \in 0..(Len(log) - 1) : recompute_pcr10(SubSeq(log, 1, Len(log) - k)) = pcr}
    IN  IF matches = {} THEN 0 ELSE Len(log) - Min(matches)
=============================================================================

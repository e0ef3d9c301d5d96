--------------------------- MODULE MCAttestation ---------------------------
(* Model-checking instances of Attestation. *)
EXTENDS Attestation, TLC

CmdLine(has, len, pubs, loop) ==
    [has |-> has, len |-> len, made |-> 0, pubs |-> pubs, pub |-> "host",
     loop |-> loop, noServer |-> FALSE]

Plain == CmdLine(TRUE, 32, TRUE, 1)

\* The embedded key twice over, and a full black key.
FewArgs == {CmdLine(FALSE, 0, FALSE, 2), CmdLine(TRUE, 140, FALSE, 1)}

\* Every way to pass a key, at the lengths where the code decides.
KeyLens == {0, 1, 32, 33, 64, 65, 96, 97}
KeyArgs ==
    {CmdLine(TRUE, n, p, 1) : n \in KeyLens, p \in BOOLEAN}
        \cup {CmdLine(FALSE, 0, p, 1) : p \in BOOLEAN}
        \cup {[Plain EXCEPT !.pub = "other"], [Plain EXCEPT !.loop = 0]}
        \cup {[Plain EXCEPT !.loop = n, !.noServer = TRUE] : n \in 0..2}

\* Two hosts run with FewArgs, one of them looping twice at most (there are two sessions), or
\* one runs with any way to pass a key while the other is refused its command line.  Hosts
\* are interchangeable, so that it does not matter which is the One.
One == CHOOSE h \in Hosts : TRUE

Refused == [Plain EXCEPT !.loop = 0]

MCArgs == FewArgs \cup KeyArgs

CommandLines ==
    \/ /\ arg \in [Hosts -> FewArgs]
       /\ \A h \in Hosts \ {One} : arg[h].loop = 1
    \/ \A h \in Hosts \ {One} : arg[h] = Refused

MCInit == Init /\ CommandLines

MCSpec == MCInit /\ [][Next]_vars /\ Fairness
=============================================================================

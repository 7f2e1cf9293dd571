----------------------------- MODULE MCJtagScan -----------------------------
(***************************************************************************)
(* Model-checking instance of JtagScan: packets of up to four commands, in *)
(* which operands look like the TAP_STATE command for Pause-DR (38) and    *)
(* the last command may be cut short.  Each command is also a packet of    *)
(* its own, so longer sequences arise from several packets.                *)
(***************************************************************************)
EXTENDS JtagScan

Join(A, B) == {a \o b : a \in A, b \in B}

\* Shift-DR, Exit1-DR, Pause-DR, Run-test/idle, Select-DR, Shift-IR
Taps == {<<36>>, <<37>>, <<38>>, <<33>>, <<34>>, <<43>>}
Exit1 == {<<37>>}
Scans == {<<65, 38>>, <<129>>}
Waits == {<<16, 38>>}
Paddings == {<<2, 38>>, <<3, 38>>}
Chains == {<<7, 64 + c>> : c \in 0..MaxScanChains}
Status == {<<8, 38>>}
Reset == {<<7, 130>>}
Cut == {<<2>>, <<4, 38>>}
Others == {<<193, 38>>, <<20>>, <<0, 1>>, <<21>>, <<7, 0>>, <<7, 7>>, <<2, 251>>}

MCPackets ==
    Taps \cup Scans \cup Waits \cup Paddings \cup Chains \cup Status
      \cup Reset \cup Cut \cup Others
      \cup Join(Scans, Scans \cup Taps \cup {<<193, 38>>, <<2>>})
      \cup Join(Join(Scans, Exit1), Taps \cup Waits \cup Paddings \cup Cut)
      \cup Join(Join({<<129>>}, Join(Exit1, Waits)), Taps \cup Cut)
      \cup Join(Reset, Taps \cup Join(Waits, Taps))
      \cup Join(Status, Join(Status, Status))

\* Bound: once the client broke a rule the state is checked and not followed,
\* nor is one in which a chain was left elsewhere than at reset or in Shift-DR.
Followed ==
    /\ ~lapsed
    /\ \A c \in Chain \ {active} : {chains[c].tap, hw[c]} \subseteq {tlr, shf_dr, Lost}
=============================================================================

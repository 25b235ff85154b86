--------------------------- MODULE MCRunIsolated ---------------------------
(* A step of the inspect engine in ephemeral mode next to one of the        *)
(* universal engine in persistent mode.                                     *)
EXTENDS RunIsolated

CONSTANTS s1, s2

MCSteps == {s1, s2}
MCInspect == {s1}
MCEphemeral == {s1}
=============================================================================

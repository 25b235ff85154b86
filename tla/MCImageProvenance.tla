-------------------------- MODULE MCImageProvenance --------------------------
(***************************************************************************)
(* Releases: 1.0.0; its candidate, cut from the same commit; 10.0.0, whose *)
(* text begins with the same digit; one named like an engine's image of    *)
(* 1.0.0; and a beta.  Two engines, and a pin of every kind.               *)
(***************************************************************************)
EXTENDS ImageProvenance

First == [text |-> <<"1", ".", "0", ".", "0">>, commit |-> <<"a">>]
Candidate == [text |-> <<"1", ".", "0", ".", "0", "-rc1">>, commit |-> <<"a">>]
Tenth == [text |-> <<"1", "0", ".", "0", ".", "0">>, commit |-> <<"b">>]
Named == [text |-> <<"1", ".", "0", ".", "0", "-inspect">>, commit |-> <<"a">>]
Beta == [text |-> <<"1", ".", "0", ".", "0", "-beta", ".", "1">>, commit |-> <<"b">>]

MCReleases == {First, Candidate, Tenth, Named, Beta}
MCRefs == {[kind |-> "tag", text |-> <<"1">>],
           [kind |-> "tag", text |-> <<"1", ".", "0">>],
           [kind |-> "tag", text |-> First.text],
           [kind |-> "tag", text |-> Tenth.text],
           [kind |-> "tag", text |-> Beta.text],
           [kind |-> "sha", text |-> First.commit],
           [kind |-> "branch", text |-> <<"main">>]}
=============================================================================

-------------------------- MODULE MC_ReasonFormatter --------------------------
(* Small class signatures for ReasonFormatter: names without a package, with *)
(* one and with two package levels, so that strrchr and strchr differ.       *)
EXTENDS ReasonFormatter, TLC

Sig(body) == <<"L">> \o body \o <<";">>

Bodies == {<<"a">>, <<"a", "a", "a">>, <<"a", "/", "a">>, <<"a", "/", "a", "/", "a">>}

MCClassSigs == {Sig(b) : b \in Bodies}
MCExcSigs == {Sig(b) : b \in Bodies}
MCMethods == {<<"m">>, <<"m", "m">>}
=============================================================================

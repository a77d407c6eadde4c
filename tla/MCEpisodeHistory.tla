-------------------------- MODULE MCEpisodeHistory --------------------------
(* Instances of EpisodeHistory for TLC.                                    *)
EXTENDS EpisodeHistory

\* A stand-in for the episode projection that depends on the content of the
\* range: a finished episode starts at each candle but the newest that no
\* repair has changed.
MCFinished(v) == {t \in DOMAIN v : v[t] = 0 /\ \E u \in DOMAIN v : u > t}

Symmetry == Permutations(Clients) \union Permutations(Keys)

Early == 1..2
Long == 2..4
=============================================================================

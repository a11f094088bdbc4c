-------------------------- MODULE MCSearchRebuild --------------------------
\* Small instances of SearchRebuild.
EXTENDS SearchRebuild

CONSTANTS w1, w2

\* An edit and a failure during one replacement; or two replacements and two
\* failures, the second of which can strand the alias.
EditOrRepeat == {<<1, 1, 1>>, <<0, 2, 2>>}
OneReplacement == {<<0, 1, 2>>}
============================================================================

-------------------------------- MODULE MCHost --------------------------------
(* TLC instance of Host.  Up to three sequences in launches of two rows, two   *)
(* requests: chunks of two columns, whole prompts of one to four.  A bucket    *)
(* of five columns.                                                            *)
EXTENDS Host

\* Sections that leave T the last frequency.
MCSection == <<3, 3, 2>>

\* DeltaNet layers in front of, between and behind attention.
MCAliasTypes == <<"linear", "full", "linear", "full">>

\* Three patterns of three layers, two of them with the same counts.
MCPatterns == {<<"dn", "dn", "gqa">>, <<"gqa", "dn", "gqa">>, <<"dn", "gqa", "gqa">>}

\* A trunk of one DeltaNet and one attention layer.
MCPathTypes == <<"linear", "full">>
=============================================================================

----------------------------- MODULE MC_Settings -----------------------------
EXTENDS Settings

\* With one field changed at a time there are blocks between these two that have
\* the same sum.
MC_Params == {<<2, 1, 3>>}
MC_DefaultParams == <<1, 2, 0>>

MC_Calls == {<<1, 1>>}
MC_DefaultCall == <<3, 3>>

\* The first is longer than nvBeaconText and its terminator allow.
MC_Texts == {<<1, 2, 1>>, <<4>>}
MC_DefaultText == <<3>>
=============================================================================

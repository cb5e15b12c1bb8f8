------------------------- MODULE MCShortTermMemory -------------------------
(* ShortTermMemory alone, with limits that its constructor accepts.        *)
EXTENDS ShortTermMemory

\* Two texts that do not fit together into the default window.
DefaultTexts == {2, 23999}

=============================================================================
